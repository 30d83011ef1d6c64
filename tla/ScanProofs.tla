----------------------------- MODULE ScanProofs -----------------------------
(***************************************************************************)
(* What DuckDB is told of a scan and what it gets.  ScanMetrics: the       *)
(* deltas of any number of threads add up to the bytes read, and the total *)
(* they are compared with covers the bytes.  SourceScan: every scan gets   *)
(* the batches and the columns of its source.                              *)
(***************************************************************************)
EXTENDS ScanMetrics, SourceScan, FoldLemmas

ObjectStates == {"unopened", "adding", "open"}
ThreadStates == {"idle", "loading", "comparing", "tracking"}

MetricsTypeOK ==
  /\ bytesRead \in Nat /\ totalBytes \in Nat
  /\ opened \in [count : Nat, size : Nat]
  /\ object \in [Objects -> ObjectStates]
  /\ estimate \in [Objects -> Nat]
  /\ received \in [Objects -> Nat]
  /\ reported \in Nat /\ tracked \in Nat
  /\ thread \in [Threads -> ThreadStates]
  /\ current \in [Threads -> Nat] /\ previous \in [Threads -> Nat]
  /\ delta \in [Threads -> Nat] /\ reports \in [Threads -> Nat]

LEMMA SumIsTotal == \A f, S : SumOver(f, S) = Total(f, S)
  BY DEF SumOver, Total
-----------------------------------------------------------------------------
(***************************************************************************)
(* The threads.                                                            *)
(***************************************************************************)
\* What a thread saw of a counter was there: no thread is ahead of the
\* counters.  A thread holds a delta only between its exchange and its call of
\* the profiler.
ThreadInv(t) ==
  /\ previous[t] <= reported /\ current[t] <= bytesRead
  /\ thread[t] \in {"idle", "tracking"} => reported >= current[t]
  /\ thread[t] # "tracking" => delta[t] = 0

ReportInv ==
  /\ \A t \in Threads : ThreadInv(t)
  /\ reported <= bytesRead
  /\ tracked + Total(delta, Threads) = reported

LEMMA DivType ==
  ASSUME NEW a \in Nat, NEW b \in Nat, NEW c \in Nat, c > 0
  PROVE  (a * b) \div c \in Nat
<1>1. a * b \in Nat
  OBVIOUS
<1> QED BY <1>1

LEMMA DivAtLeast ==
  ASSUME NEW a \in Nat, NEW b \in Nat, NEW c \in Nat, 0 < c, c <= b
  PROVE  (a * b) \div c >= a
<1>1. a * b >= a * c
  OBVIOUS
<1>2. a * b \in Nat /\ a * c \in Nat
  OBVIOUS
<1>3. \A p \in Nat : p >= a * c => p \div c >= a
  OBVIOUS
<1> QED BY <1>1, <1>2, <1>3

LEMMA DivExact ==
  ASSUME NEW a \in Nat, NEW c \in Nat, 0 < c
  PROVE  (a * c) \div c = a
  OBVIOUS

LEMMA MetricsTypeStep ==
  ASSUME MetricsTypeOK, [MetricsNext]_metricsVars
  PROVE  MetricsTypeOK'
<1> USE MetricsAssumption DEF MetricsTypeOK, ObjectStates, ThreadStates, readerVars, threadVars
<1>1. CASE UNCHANGED metricsVars
  BY <1>1 DEF metricsVars
<1>2. ASSUME NEW o \in Objects, AddObject(o) PROVE MetricsTypeOK'
  <2>1. opened' \in [count : Nat, size : Nat] /\ opened'.count = opened.count + 1
    BY <1>2 DEF AddObject
  <2>2. Cardinality(Objects) \in Nat
    BY FS_CardinalityType
  <2>3. Estimate(opened'.size, opened'.count) \in Nat
    BY <2>1, <2>2, DivType DEF Estimate
  <2>4. estimate' \in [Objects -> Nat]
    BY <1>2, <2>3 DEF AddObject
  <2>5. object' \in [Objects -> ObjectStates]
    BY <1>2 DEF AddObject
  <2> QED BY <1>2, <2>1, <2>4, <2>5 DEF AddObject
<1>3. ASSUME NEW o \in Objects, SetTotalBytes(o) PROVE MetricsTypeOK'
  BY <1>3 DEF SetTotalBytes
<1>4. ASSUME NEW o \in Objects, NEW bytes \in 1 .. Sizes[o], AddBytesRead(o, bytes) PROVE MetricsTypeOK'
  <2>1. received[o] + bytes \in Nat
    BY <1>4
  <2> QED BY <1>4, <2>1 DEF AddBytesRead
<1>5. ASSUME NEW t \in Threads, Snapshot(t) PROVE MetricsTypeOK'
  <2>1. PICK value \in current[t] .. bytesRead : current' = [current EXCEPT ![t] = value]
    BY <1>5 DEF Snapshot
  <2>2. value \in Nat
    BY <2>1
  <2> QED BY <1>5, <2>1, <2>2 DEF Snapshot, SetThread
<1>6. ASSUME NEW t \in Threads, SeeReported(t) PROVE previous' \in [Threads -> Nat]
  <2>1. PICK value \in previous[t] .. reported : previous' = [previous EXCEPT ![t] = value]
    BY <1>6 DEF SeeReported
  <2>2. value \in Nat
    BY <2>1
  <2> QED BY <2>1, <2>2
<1>7. ASSUME NEW t \in Threads, Load(t) PROVE MetricsTypeOK'
  BY <1>6, <1>7 DEF Load, SetThread
<1>8. ASSUME NEW t \in Threads, Exchange(t) PROVE MetricsTypeOK'
  <2>1. current[t] - previous[t] \in Nat
    BY <1>8 DEF Exchange, Ahead
  <2> QED BY <1>8, <2>1 DEF Exchange, SetThread
<1>9. ASSUME NEW t \in Threads, ExchangeFails(t) PROVE MetricsTypeOK'
  BY <1>6, <1>9 DEF ExchangeFails, SetThread, Retry
<1>10. ASSUME NEW t \in Threads, NothingNew(t) PROVE MetricsTypeOK'
  BY <1>10 DEF NothingNew, SetThread
<1>11. ASSUME NEW t \in Threads, TrackBytesRead(t) PROVE MetricsTypeOK'
  BY <1>11 DEF TrackBytesRead, SetThread
<1> QED
  BY <1>1, <1>2, <1>3, <1>4, <1>5, <1>7, <1>8, <1>9, <1>10, <1>11 DEF MetricsNext

LEMMA ReportStep ==
  ASSUME MetricsTypeOK, MetricsTypeOK', ReportInv, [MetricsNext]_metricsVars
  PROVE  ReportInv'
<1> USE MetricsAssumption DEF MetricsTypeOK, ReportInv, readerVars, threadVars
<1>1. CASE UNCHANGED metricsVars
  BY <1>1 DEF metricsVars, ThreadInv
<1>2. ASSUME UNCHANGED threadVars, bytesRead' >= bytesRead PROVE ReportInv'
  BY <1>2 DEF ThreadInv
<1>3. ASSUME NEW o \in Objects, AddObject(o) PROVE ReportInv'
  BY <1>2, <1>3 DEF AddObject
<1>4. ASSUME NEW o \in Objects, SetTotalBytes(o) PROVE ReportInv'
  BY <1>2, <1>4 DEF SetTotalBytes
<1>5. ASSUME NEW o \in Objects, NEW bytes \in 1 .. Sizes[o], AddBytesRead(o, bytes) PROVE ReportInv'
  BY <1>2, <1>5 DEF AddBytesRead
\* A step that changes what one thread saw.
<1>6. ASSUME NEW t \in Threads, UNCHANGED <<bytesRead, reported, delta, tracked>>,
             \A u \in Threads \ {t} :
               UNCHANGED <<thread[u], current[u], previous[u]>>,
             ThreadInv(t)'
      PROVE  ReportInv'
  BY <1>6 DEF ThreadInv
<1>7. ASSUME NEW t \in Threads, Snapshot(t) PROVE ReportInv'
  <2>1. PICK value \in current[t] .. bytesRead : current' = [current EXCEPT ![t] = value]
    BY <1>7 DEF Snapshot
  <2>2. thread'[t] = "loading" /\ current'[t] = value /\ value <= bytesRead
    BY <1>7, <2>1 DEF Snapshot, SetThread
  <2>3. ThreadInv(t)'
    BY <1>7, <2>2 DEF Snapshot, ThreadInv
  <2> QED BY <1>6, <1>7, <2>1, <2>3 DEF Snapshot, SetThread
<1>8. ASSUME NEW t \in Threads, SeeReported(t)
      PROVE  /\ previous'[t] <= reported
             /\ \A u \in Threads \ {t} : previous'[u] = previous[u]
  BY <1>8 DEF SeeReported
<1>9. ASSUME NEW t \in Threads, Load(t) PROVE ReportInv'
  <2>1. thread'[t] = "comparing"
    BY <1>9 DEF Load, SetThread
  <2>2. ThreadInv(t)'
    BY <1>8, <1>9, <2>1 DEF Load, ThreadInv
  <2> QED BY <1>6, <1>8, <1>9, <2>2 DEF Load, SetThread
<1>10. ASSUME NEW t \in Threads, ExchangeFails(t) PROVE ReportInv'
  <2>1. thread'[t] = "comparing"
    BY <1>10 DEF ExchangeFails, SetThread, Retry
  <2>2. ThreadInv(t)'
    BY <1>8, <1>10, <2>1 DEF ExchangeFails, ThreadInv
  <2> QED BY <1>6, <1>8, <1>10, <2>2 DEF ExchangeFails, SetThread
<1>11. ASSUME NEW t \in Threads, NothingNew(t) PROVE ReportInv'
  <2>1. thread'[t] = "idle" /\ reported >= current[t]
    BY <1>11 DEF NothingNew, SetThread, Ahead, ThreadInv
  <2>2. ThreadInv(t)'
    BY <1>11, <2>1 DEF NothingNew, ThreadInv
  <2> QED BY <1>6, <1>11, <2>2 DEF NothingNew, SetThread
\* A step that changes a delta.
<1>12. ASSUME NEW t \in Threads, NEW d \in Nat, delta' = [delta EXCEPT ![t] = d]
       PROVE  /\ Total(delta, Threads) \in Int
              /\ Total(delta', Threads) = Total(delta, Threads) - delta[t] + d
  <2>1. DifferAt(delta, delta', Threads, t) /\ delta'[t] = d
    BY <1>12 DEF DifferAt
  <2> QED BY <2>1, TotalChange
<1>13. ASSUME NEW t \in Threads, Exchange(t) PROVE ReportInv'
  <2>1. /\ delta[t] = 0 /\ reported = previous[t] /\ current[t] > previous[t]
        /\ reported' = current[t] /\ current[t] <= bytesRead
        /\ UNCHANGED <<bytesRead, current, tracked>>
    BY <1>13 DEF Exchange, Ahead, Unchanged, ThreadInv
  <2>2. current[t] - previous[t] \in Nat
    BY <2>1
  <2>3. delta' = [delta EXCEPT ![t] = current[t] - previous[t]]
    BY <1>13 DEF Exchange
  <2>4. /\ Total(delta, Threads) \in Int
        /\ Total(delta', Threads) = Total(delta, Threads) - delta[t] + (current[t] - previous[t])
    BY <1>12, <2>2, <2>3
  <2>5. tracked' + Total(delta', Threads) = reported'
    BY <2>1, <2>4
  <2>6. thread' = [thread EXCEPT ![t] = "tracking"] /\ previous' = [previous EXCEPT ![t] = current[t]]
    BY <1>13 DEF Exchange, SetThread
  <2>7. ASSUME NEW u \in Threads PROVE ThreadInv(u)'
    <3>1. CASE u = t
      BY <2>1, <2>3, <2>6, <3>1 DEF ThreadInv
    <3>2. CASE u # t
      BY <2>1, <2>3, <2>6, <3>2 DEF ThreadInv
    <3> QED BY <3>1, <3>2
  <2> QED BY <2>1, <2>5, <2>7
<1>14. ASSUME NEW t \in Threads, TrackBytesRead(t) PROVE ReportInv'
  <2>1. /\ tracked' = tracked + delta[t] /\ delta' = [delta EXCEPT ![t] = 0]
        /\ thread' = [thread EXCEPT ![t] = "idle"] /\ thread[t] = "tracking"
        /\ UNCHANGED <<bytesRead, reported, current, previous>>
    BY <1>14 DEF TrackBytesRead, SetThread
  <2>2. /\ Total(delta, Threads) \in Int
        /\ Total(delta', Threads) = Total(delta, Threads) - delta[t] + 0
    BY <1>12, <2>1
  <2>3. tracked' + Total(delta', Threads) = reported'
    BY <2>1, <2>2
  <2>4. ASSUME NEW u \in Threads PROVE ThreadInv(u)'
    <3>1. CASE u = t
      BY <2>1, <3>1 DEF ThreadInv
    <3>2. CASE u # t
      BY <2>1, <3>2 DEF ThreadInv
    <3> QED BY <3>1, <3>2
  <2> QED BY <2>1, <2>3, <2>4
<1> QED
  BY <1>1, <1>3, <1>4, <1>5, <1>7, <1>9, <1>10, <1>11, <1>13, <1>14 DEF MetricsNext

-----------------------------------------------------------------------------
(***************************************************************************)
(* The readers.                                                            *)
(***************************************************************************)
OpenedObjects     == {o \in Objects : object[o] # "unopened"}
OpenedSize == [o \in Objects |-> IF object[o] = "unopened" THEN 0 ELSE Sizes[o]]
OpenSize   == [o \in Objects |-> IF object[o] = "open" THEN Sizes[o] ELSE 0]

\* What the mutex guards is the count and the size of the objects that were
\* added; the estimate of the object being added is that of these; and the
\* total covers the objects whose bytes are read.
ReaderInv ==
  /\ opened.count = Cardinality(OpenedObjects)
  /\ opened.size = Total(OpenedSize, Objects)
  /\ bytesRead = Total(received, Objects)
  /\ \A o \in Objects : received[o] <= OpenSize[o]
  /\ \A o, p \in Objects : object[o] = "adding" /\ object[p] = "adding" => o = p
  /\ \A o \in Objects :
       object[o] = "adding" => estimate[o] = Estimate(opened.size, opened.count)
  /\ LockFree =>
       totalBytes = IF opened.count = 0 THEN 0 ELSE Estimate(opened.size, opened.count)
  /\ totalBytes >= Total(OpenSize, Objects)

LEMMA SizesType ==
  ASSUME MetricsTypeOK
  PROVE  /\ OpenedSize \in [Objects -> Nat] /\ OpenSize \in [Objects -> Nat]
         /\ Total(OpenedSize, Objects) \in Nat /\ Total(OpenSize, Objects) \in Nat
         /\ OpenedObjects \in SUBSET Objects /\ IsFiniteSet(OpenedObjects)
         /\ Cardinality(OpenedObjects) \in Nat /\ Cardinality(Objects) \in Nat
         /\ Cardinality(OpenedObjects) <= Cardinality(Objects)
<1>1. OpenedSize \in [Objects -> Nat] /\ OpenSize \in [Objects -> Nat]
  BY MetricsAssumption DEF OpenedSize, OpenSize
<1>2. OpenedObjects \in SUBSET Objects
  BY DEF OpenedObjects
<1>3. Total(OpenedSize, Objects) \in Nat /\ Total(OpenSize, Objects) \in Nat
  BY <1>1, MetricsAssumption, TotalBounds
<1> QED BY <1>1, <1>2, <1>3, MetricsAssumption, FS_Subset, FS_CardinalityType

\* The steps that leave the objects alone.
LEMMA ReaderFrame ==
  ASSUME MetricsTypeOK, ReaderInv, UNCHANGED readerVars
  PROVE  ReaderInv'
  BY DEF ReaderInv, readerVars, OpenedObjects, OpenedSize, OpenSize, LockFree

LEMMA AddObjectStep ==
  ASSUME MetricsTypeOK, MetricsTypeOK', ReaderInv, NEW o \in Objects, AddObject(o)
  PROVE  ReaderInv'
<1> USE DEF ReaderInv
<1>1. /\ object[o] = "unopened" /\ LockFree
      /\ opened'.count = opened.count + 1 /\ opened'.size = opened.size + Sizes[o]
      /\ estimate' = [estimate EXCEPT ![o] = Estimate(opened'.size, opened'.count)]
      /\ object' = [object EXCEPT ![o] = "adding"]
      /\ UNCHANGED <<bytesRead, totalBytes, received>>
  BY DEF AddObject
<1>2. OpenedObjects' = OpenedObjects \cup {o} /\ o \notin OpenedObjects
  BY <1>1 DEF OpenedObjects, MetricsTypeOK
<1>3. opened'.count = Cardinality(OpenedObjects')
  <2>1. Cardinality(OpenedObjects \cup {o}) = Cardinality(OpenedObjects) + 1
    <3> HIDE DEF ReaderInv
    <3> QED BY <1>2, SizesType, FS_AddElement
  <2> QED BY <1>1, <1>2, <2>1
<1>4. OpenSize' = OpenSize
  <2>1. \A p \in Objects : (object'[p] = "open") = (object[p] = "open")
    BY <1>1 DEF MetricsTypeOK
  <2> QED BY <2>1 DEF OpenSize
<1>5. opened'.size = Total(OpenedSize', Objects)
  <2> HIDE DEF ReaderInv
  <2>1. OpenedSize[o] = 0
    BY <1>1 DEF OpenedSize, MetricsTypeOK
  <2>2. OpenedSize'[o] = Sizes[o] /\ Sizes[o] \in Int
    <3>1. object'[o] = "adding"
      BY <1>1 DEF MetricsTypeOK
    <3>2. OpenedSize'[o] = Sizes[o]
      BY <3>1 DEF OpenedSize
    <3> QED BY <3>2, MetricsAssumption
  <2>3. DifferAt(OpenedSize, OpenedSize', Objects, o)
    <3>1. \A p \in Objects \ {o} : OpenedSize'[p] = OpenedSize[p]
      BY <1>1 DEF OpenedSize, MetricsTypeOK
    <3>2. \A p \in Objects : OpenedSize[p] \in Int /\ OpenedSize'[p] \in Int
      BY MetricsAssumption DEF OpenedSize
    <3> QED BY <3>1, <3>2 DEF DifferAt
  <2>4. /\ Total(OpenedSize, Objects) \in Int
        /\ Total(OpenedSize', Objects) = Total(OpenedSize, Objects) - OpenedSize[o] + OpenedSize'[o]
    BY <2>3, MetricsAssumption, TotalChange
  <2> QED BY <1>1, <2>1, <2>2, <2>4 DEF ReaderInv
<1>6. ASSUME NEW p \in Objects, object'[p] = "adding"
      PROVE  p = o
  BY <1>1, <1>6 DEF LockFree, MetricsTypeOK
<1>7. estimate'[o] = Estimate(opened'.size, opened'.count)
  BY <1>1 DEF MetricsTypeOK
<1>8. ~LockFree'
  <2>1. object'[o] = "adding"
    BY <1>1 DEF MetricsTypeOK
  <2> QED BY <2>1 DEF LockFree
<1>9. \A p \in Objects : object'[p] = "adding" => estimate'[p] = Estimate(opened'.size, opened'.count)
  BY <1>6, <1>7
<1> HIDE DEF Estimate
<1> QED BY <1>1, <1>3, <1>4, <1>5, <1>6, <1>8, <1>9

LEMMA SetTotalBytesStep ==
  ASSUME MetricsTypeOK, MetricsTypeOK', ReaderInv, NEW o \in Objects, SetTotalBytes(o)
  PROVE  ReaderInv'
<1> USE DEF ReaderInv
<1>1. /\ object[o] = "adding" /\ totalBytes' = estimate[o]
      /\ object' = [object EXCEPT ![o] = "open"]
      /\ UNCHANGED <<bytesRead, opened, estimate, received>>
  BY DEF SetTotalBytes
<1>2. \A p \in Objects : (object'[p] = "unopened") = (object[p] = "unopened")
  BY <1>1 DEF MetricsTypeOK
<1>3. OpenedObjects' = OpenedObjects /\ OpenedSize' = OpenedSize
  BY <1>2 DEF OpenedObjects, OpenedSize
<1>4. \A p \in Objects : object'[p] # "adding"
  BY <1>1 DEF MetricsTypeOK
<1>5. opened.count \in Nat \ {0} /\ opened.count <= Cardinality(Objects)
  <2>1. o \in OpenedObjects
    BY <1>1 DEF OpenedObjects
  <2> QED BY <2>1, SizesType, FS_EmptySet
<1>6. totalBytes' = Estimate(opened.size, opened.count)
  BY <1>1
<1>7. totalBytes' >= opened.size
  BY <1>5, <1>6, SizesType, DivAtLeast DEF Estimate, MetricsTypeOK
<1>8. Total(OpenSize', Objects) <= Total(OpenedSize', Objects)
  <2>1. \A p \in Objects : /\ OpenSize'[p] \in Int /\ OpenedSize'[p] \in Int
                           /\ OpenSize'[p] <= OpenedSize'[p]
    BY MetricsAssumption DEF OpenSize, OpenedSize
  <2> QED BY <2>1, MetricsAssumption, TotalMonotone
<1>9. totalBytes' >= Total(OpenSize', Objects)
  <2>1. /\ Total(OpenSize', Objects) \in Nat /\ Total(OpenedSize', Objects) \in Nat
        /\ totalBytes' \in Nat /\ opened.size = Total(OpenedSize', Objects)
    <3>1. \A p \in Objects : OpenSize'[p] \in Nat /\ OpenedSize'[p] \in Nat
      BY MetricsAssumption DEF OpenSize, OpenedSize
    <3> QED BY <1>3, <3>1, MetricsAssumption, TotalBounds DEF MetricsTypeOK
  <2> QED BY <1>7, <1>8, <2>1
<1>10. \A p \in Objects : received'[p] <= OpenSize'[p]
  <2>1. \A p \in Objects : OpenSize[p] \in Nat /\ OpenSize'[p] \in Nat /\ OpenSize[p] <= OpenSize'[p]
    <3> HIDE DEF ReaderInv
    <3>1. \A p \in Objects : (object[p] = "open") => (object'[p] = "open")
      BY <1>1 DEF MetricsTypeOK
    <3>2. \A p \in Objects : Sizes[p] \in Nat
      BY MetricsAssumption
    <3> QED BY <3>1, <3>2 DEF OpenSize
  <2>2. \A p \in Objects : received[p] \in Nat
    BY DEF MetricsTypeOK
  <2> QED BY <1>1, <2>1, <2>2
<1> HIDE DEF Estimate
<1> QED BY <1>1, <1>3, <1>4, <1>5, <1>6, <1>9, <1>10 DEF LockFree

LEMMA AddBytesReadStep ==
  ASSUME MetricsTypeOK, MetricsTypeOK', ReaderInv,
         NEW o \in Objects, NEW bytes \in 1 .. Sizes[o], AddBytesRead(o, bytes)
  PROVE  ReaderInv'
<1> USE DEF ReaderInv
<1>1. /\ object[o] = "open" /\ received[o] + bytes <= Sizes[o]
      /\ received' = [received EXCEPT ![o] = @ + bytes]
      /\ bytesRead' = bytesRead + bytes
      /\ UNCHANGED <<totalBytes, opened, object, estimate>>
  BY DEF AddBytesRead
<1>2. bytes \in Nat
  BY MetricsAssumption
<1>3. OpenedObjects' = OpenedObjects /\ OpenedSize' = OpenedSize /\ OpenSize' = OpenSize /\ LockFree' = LockFree
  BY <1>1 DEF OpenedObjects, OpenedSize, OpenSize, LockFree
<1>4. bytesRead' = Total(received', Objects)
  <2> HIDE DEF ReaderInv
  <2>1. received'[o] = received[o] + bytes /\ received[o] \in Int
    BY <1>1 DEF MetricsTypeOK
  <2>2. DifferAt(received, received', Objects, o)
    BY <1>1 DEF DifferAt, MetricsTypeOK
  <2>3. /\ Total(received, Objects) \in Int
        /\ Total(received', Objects) = Total(received, Objects) - received[o] + received'[o]
    BY <2>2, MetricsAssumption, TotalChange
  <2> QED BY <1>1, <1>2, <2>1, <2>3 DEF ReaderInv
<1>5. \A p \in Objects : received'[p] <= OpenSize'[p]
  BY <1>1, <1>2, <1>3 DEF OpenSize, MetricsTypeOK
<1> HIDE DEF Estimate
<1> QED BY <1>1, <1>3, <1>4, <1>5

LEMMA ReaderStep ==
  ASSUME MetricsTypeOK, MetricsTypeOK', ReaderInv, [MetricsNext]_metricsVars
  PROVE  ReaderInv'
<1>1. CASE UNCHANGED metricsVars
  BY <1>1, ReaderFrame DEF metricsVars
<1>2. ASSUME NEW t \in Threads,
             \/ Snapshot(t) \/ Load(t) \/ Exchange(t) \/ ExchangeFails(t)
             \/ NothingNew(t) \/ TrackBytesRead(t)
      PROVE  ReaderInv'
  BY <1>2, ReaderFrame
     DEF Snapshot, Load, Exchange, ExchangeFails, NothingNew, TrackBytesRead
<1> QED
  BY <1>1, <1>2, AddObjectStep, SetTotalBytesStep, AddBytesReadStep DEF MetricsNext
-----------------------------------------------------------------------------
MetricsInv == MetricsTypeOK /\ ReportInv /\ ReaderInv

LEMMA MetricsInitInv == MetricsInit => MetricsInv
<1> SUFFICES ASSUME MetricsInit PROVE MetricsInv
  OBVIOUS
<1> USE MetricsAssumption DEF MetricsInit
<1>1. MetricsTypeOK
  BY DEF MetricsTypeOK, ObjectStates, ThreadStates
<1>2. ReportInv
  <2>1. Total(delta, Threads) = 0
    BY TotalOfZeros
  <2> QED BY <2>1 DEF ReportInv, ThreadInv
<1>3. ReaderInv
  <2>1. OpenedObjects = {}
    BY DEF OpenedObjects
  <2>2. Total(OpenedSize, Objects) = 0 /\ Total(OpenSize, Objects) = 0 /\ Total(received, Objects) = 0
    BY TotalOfZeros DEF OpenedSize, OpenSize
  <2> QED BY <2>1, <2>2, FS_EmptySet DEF ReaderInv, OpenSize, LockFree
<1> QED BY <1>1, <1>2, <1>3 DEF MetricsInv

\* MetricsInv is an inductive invariant.
LEMMA MetricsAlways == MetricsSpec => []MetricsInv
<1>1. MetricsInv /\ [MetricsNext]_metricsVars => MetricsInv'
  BY MetricsTypeStep, ReportStep, ReaderStep DEF MetricsInv
<1> QED BY <1>1, MetricsInitInv, PTL DEF MetricsSpec

\* A byte is reported to the profiler once, however the threads of a scan
\* interleave (arrow_source_scan.cpp, TakeDelta).
THEOREM BytesReportedOnce == MetricsSpec => []ReportedOnce
<1>1. MetricsInv => ReportedOnce
  BY SumIsTotal DEF MetricsInv, ReportInv, ReportedOnce
<1> QED BY <1>1, MetricsAlways, PTL

\* What the snapshot of a report counted is reported when the report returns,
\* by its thread or by another.
THEOREM AllBytesReported == MetricsSpec => []NothingUnreported
<1>1. MetricsInv => NothingUnreported
  BY DEF MetricsInv, ReportInv, ThreadInv, NothingUnreported
<1> QED BY <1>1, MetricsAlways, PTL

\* Once every object is opened the estimate is the sum of their sizes
\* (metrics.rs, add_object).
THEOREM EstimateEndsExact == MetricsSpec => []EstimateExact
<1>1. MetricsInv => EstimateExact
  <2> SUFFICES ASSUME MetricsInv, \A o \in Objects : object[o] = "open"
               PROVE  totalBytes = Total(Sizes, Objects)
    BY SumIsTotal DEF EstimateExact
  <2> USE DEF MetricsInv
  <2>1. LockFree /\ OpenedObjects = Objects
    BY DEF LockFree, OpenedObjects
  <2>2. Total(OpenedSize, Objects) = Total(Sizes, Objects)
    BY MetricsAssumption, TotalSame DEF OpenedSize
  <2>3. opened.count = Cardinality(Objects) /\ opened.size = Total(Sizes, Objects)
    BY <2>1, <2>2 DEF ReaderInv
  <2>4. CASE opened.count = 0
    <3>1. Objects = {}
      BY <2>3, <2>4, MetricsAssumption, FS_EmptySet
    <3>2. Total(Sizes, Objects) = 0
      BY <3>1, TotalEmpty
    <3> QED BY <2>1, <2>4, <3>2 DEF ReaderInv
  <2>5. CASE opened.count # 0
    <3>1. totalBytes = Estimate(opened.size, opened.count)
      BY <2>1, <2>5 DEF ReaderInv
    <3>2. opened.size \in Nat /\ opened.count \in Nat /\ 0 < opened.count
      BY <2>5 DEF MetricsTypeOK
    <3> QED BY <2>3, <3>1, <3>2, DivExact DEF Estimate
  <2> QED BY <2>4, <2>5
<1> QED BY <1>1, MetricsAlways, PTL

\* The bytes read never pass the estimate of their total.
THEOREM EstimateCovers == MetricsSpec => []ProgressBounded
<1>1. MetricsInv => ProgressBounded
  <2> SUFFICES ASSUME MetricsInv PROVE bytesRead <= totalBytes
    BY DEF ProgressBounded
  <2>1. \A o \in Objects : /\ received[o] \in Int /\ OpenSize[o] \in Int
                           /\ received[o] <= OpenSize[o]
    BY SizesType DEF MetricsInv, MetricsTypeOK, ReaderInv
  <2>2. Total(received, Objects) <= Total(OpenSize, Objects)
    BY <2>1, MetricsAssumption, TotalMonotone
  <2> QED BY <2>2, SizesType DEF MetricsInv, MetricsTypeOK, ReaderInv
<1> QED BY <1>1, MetricsAlways, PTL

-----------------------------------------------------------------------------
(***************************************************************************)
(* Sorted numbers, and the columns of a projection.                        *)
(***************************************************************************)
Rising(q) == \A i, j \in DOMAIN q : i < j => q[i] < q[j]

\* Numbers up to n can be put in order.
LEMMA RisingExists ==
  ASSUME NEW n \in Nat
  PROVE  \A S \in SUBSET (1 .. n) : \E q \in [1 .. Cardinality(S) -> S] : Rising(q)
<1> DEFINE T == {m \in Nat : \A S \in SUBSET (1 .. m) :
                    \E q \in [1 .. Cardinality(S) -> S] : Rising(q)}
<1>1. 0 \in T
  <2> SUFFICES ASSUME NEW S \in SUBSET (1 .. 0)
               PROVE  \E q \in [1 .. Cardinality(S) -> S] : Rising(q)
    OBVIOUS
  <2>0. 1 .. 0 = {}
    OBVIOUS
  <2>1. S = {} /\ Cardinality(S) = 0
    BY <2>0, FS_EmptySet
  <2>2. <<>> \in [1 .. Cardinality(S) -> S] /\ Rising(<<>>)
    BY <2>0, <2>1 DEF Rising
  <2> QED BY <2>2
<1>2. ASSUME NEW m \in Nat, m \in T PROVE m + 1 \in T
  <2> SUFFICES ASSUME NEW S \in SUBSET (1 .. m + 1)
               PROVE  \E q \in [1 .. Cardinality(S) -> S] : Rising(q)
    <3>1. m + 1 \in Nat
      BY <1>2
    <3> QED BY <3>1, Zenon DEF T
  <2> DEFINE R == S \ {m + 1}
             c == Cardinality(R)
  <2>1. R \in SUBSET (1 .. m) /\ IsFiniteSet(1 .. m)
    BY FS_Interval
  <2>2. IsFiniteSet(R) /\ c \in Nat
    BY <2>1, FS_Subset, FS_CardinalityType
  <2>3. PICK q \in [1 .. c -> R] : Rising(q)
    BY <1>2, <2>1
  <2>4. CASE m + 1 \notin S
    <3>1. R = S
      BY <2>4
    <3> QED BY <2>3, <3>1
  <2>5. CASE m + 1 \in S
    <3>1. S = R \cup {m + 1} /\ m + 1 \notin R
      BY <2>5
    <3>2. Cardinality(S) = c + 1
      BY <2>2, <3>1, FS_AddElement
    <3> DEFINE p == [i \in 1 .. c + 1 |-> IF i = c + 1 THEN m + 1 ELSE q[i]]
    <3>3. \A i \in 1 .. c + 1 : i = c + 1 \/ i \in 1 .. c
      BY <2>2
    <3>4. \A i \in 1 .. c : q[i] \in R /\ q[i] < m + 1
      <4>1. \A x \in R : x \in 1 .. m
        BY <2>1
      <4>2. \A x \in 1 .. m : x < m + 1
        OBVIOUS
      <4>3. \A i \in 1 .. c : q[i] \in R
        BY <2>3
      <4> HIDE DEF R, c
      <4> QED BY <4>1, <4>2, <4>3
    <3> HIDE DEF R, c
    <3>5. p \in [1 .. c + 1 -> S]
      BY <3>1, <3>3, <3>4
    <3>6. ASSUME NEW i \in 1 .. c + 1, NEW j \in 1 .. c + 1, i < j PROVE p[i] < p[j]
      <4>1. i \in 1 .. c /\ p[i] = q[i]
        BY <2>2, <3>6
      <4>2. CASE j = c + 1
        BY <3>4, <4>1, <4>2
      <4>3. CASE j # c + 1
        <5>1. j \in 1 .. c /\ p[j] = q[j]
          BY <3>3, <4>3
        <5> QED BY <2>3, <3>6, <4>1, <5>1 DEF Rising
      <4> QED BY <4>2, <4>3
    <3>7. Rising(p)
      BY <3>6 DEF Rising
    <3> QED BY <3>2, <3>5, <3>7
  <2> QED BY <2>4, <2>5
<1>3. n \in T
  <2> HIDE DEF T
  <2> QED BY <1>1, <1>2, Induction
<1> QED BY <1>3

\* Their order: each of them is there, after as many as are below it.
LEMMA AscendingIs ==
  ASSUME NEW n \in Nat, NEW S \in SUBSET (1 .. n)
  PROVE  LET q == Ascending(S)  c == Cardinality(S) IN
           /\ c \in Nat /\ q \in [1 .. c -> S] /\ Rising(q)
           /\ \A x \in S : \E i \in 1 .. c : q[i] = x
           /\ \A i \in 1 .. c : Place(q, q[i]) = i
<1> DEFINE q == Ascending(S)
           c == Cardinality(S)
<1>1. IsFiniteSet(S) /\ c \in Nat
  <2>1. 1 \in Int /\ n \in Int
    OBVIOUS
  <2>2. IsFiniteSet(1 .. n)
    BY <2>1, FS_Interval
  <2> QED BY <2>2, FS_Subset, FS_CardinalityType
<1>2. q \in [1 .. c -> S] /\ Rising(q)
  <2>1. \E p \in [1 .. Cardinality(S) -> S] : Rising(p)
    BY RisingExists
  <2>2. q = CHOOSE p \in [1 .. Cardinality(S) -> S] : Rising(p)
    BY DEF Ascending, Rising
  <2> QED BY <2>1, <2>2
<1> HIDE DEF q, c
<1>3. \A i, j \in 1 .. c : q[i] \in Int /\ (q[i] < q[j] <=> i < j)
  <2>1. \A i \in 1 .. c : q[i] \in Int /\ i \in Int
    <3>1. \A x \in S : x \in Int
      OBVIOUS
    <3>2. \A i \in 1 .. c : q[i] \in S
      BY <1>2 DEF c
    <3>3. \A i \in 1 .. c : i \in Int
      OBVIOUS
    <3> QED BY <3>1, <3>2, <3>3
  <2>2. \A i, j \in 1 .. c : i < j => q[i] < q[j]
    BY <1>2 DEF Rising
  <2> QED BY <2>1, <2>2
<1>4. \A x \in S : \E i \in 1 .. c : q[i] = x
  <2>1. \A i, j \in 1 .. c : q[i] = q[j] => i = j
    <3> SUFFICES ASSUME NEW i \in 1 .. c, NEW j \in 1 .. c, q[i] = q[j] PROVE i = j
      OBVIOUS
    <3>1. ~(i < j) /\ ~(j < i)
      BY <1>3
    <3> QED BY <3>1, <1>1
  <2>2. q \in Injection(1 .. c, S)
    BY <1>2, <2>1 DEF Injection, IsInjective
  <2>3. Cardinality(1 .. c) = Cardinality(S)
    BY <1>1, FS_Interval DEF c
  <2>4. q \in Surjection(1 .. c, S)
    BY <1>1, <2>2, <2>3, FS_Injection
  <2> QED BY <2>4 DEF Surjection
<1>5. \A i \in 1 .. c : Place(q, q[i]) = i
  <2> SUFFICES ASSUME NEW i \in 1 .. c PROVE Place(q, q[i]) = i
    OBVIOUS
  <2>1. DOMAIN q = 1 .. c
    BY <1>2
  <2>2. {j \in DOMAIN q : q[j] < q[i]} = 1 .. i - 1
    <3>1. \A j \in DOMAIN q : q[j] < q[i] <=> j < i
      BY <1>3, <2>1
    <3> QED BY <1>1, <2>1, <3>1
  <2>3. i - 1 \in Int /\ i - 1 >= 0 /\ 1 \in Int
    BY <1>1
  <2>4. Cardinality(1 .. i - 1) = i - 1
    BY <2>3, FS_Interval
  <2>5. Place(q, q[i]) = Cardinality({j \in DOMAIN q : q[j] < q[i]}) + 1
    BY DEF Place
  <2>6. (i - 1) + 1 = i
    BY <2>3
  <2> QED BY <2>2, <2>4, <2>5, <2>6
<1> QED BY <1>1, <1>2, <1>4, <1>5 DEF q, c

LEMMA AscendingAll ==
  ASSUME NEW n \in Nat
  PROVE  Ascending(1 .. n) = [i \in 1 .. n |-> i]
<1> DEFINE q == Ascending(1 .. n)
<1>1. Cardinality(1 .. n) = n /\ 1 .. n \in SUBSET (1 .. n)
  BY FS_Interval
<1>2. q \in [1 .. n -> 1 .. n] /\ Rising(q)
  BY <1>1, AscendingIs
<1> HIDE DEF q
<1>3. \A i, j \in 1 .. n : i < j => q[i] < q[j]
  BY <1>2 DEF Rising
<1>4. \A i \in 1 .. n : q[i] >= i
  <2> DEFINE T == {m \in Nat : \A i \in 1 .. n : i <= m => q[i] >= i}
  <2>1. 0 \in T
    OBVIOUS
  <2>2. ASSUME NEW m \in Nat, m \in T PROVE m + 1 \in T
    <3> SUFFICES ASSUME m + 1 \in 1 .. n PROVE q[m + 1] >= m + 1
      BY <2>2
    <3>1. CASE m = 0
      BY <1>2, <3>1
    <3>2. CASE m # 0
      <4>1. m \in 1 .. n /\ q[m] >= m /\ q[m] < q[m + 1]
        BY <1>3, <2>2, <3>2
      <4> QED BY <1>2, <4>1
    <3> QED BY <3>1, <3>2
  <2>3. n \in T
    <3> HIDE DEF T
    <3> QED BY <2>1, <2>2, Induction
  <2> QED BY <2>3
<1>5. \A i \in 1 .. n : q[i] <= i
  <2> DEFINE T == {m \in Nat : \A i \in 1 .. n : i >= n - m => q[i] <= i}
  <2>1. 0 \in T
    BY <1>2
  <2>2. ASSUME NEW m \in Nat, m \in T PROVE m + 1 \in T
    <3> SUFFICES ASSUME NEW i \in 1 .. n, i = n - (m + 1) PROVE q[i] <= i
      BY <2>2
    <3>1. i + 1 \in 1 .. n /\ q[i + 1] <= i + 1 /\ q[i] < q[i + 1]
      BY <1>3, <2>2
    <3> QED BY <1>2, <3>1
  <2>3. n \in T
    <3> HIDE DEF T
    <3> QED BY <2>1, <2>2, Induction
  <2> QED BY <2>3
<1>6. \A i \in 1 .. n : q[i] = i
  BY <1>2, <1>4, <1>5
<1> QED BY <1>2, <1>6 DEF q

-----------------------------------------------------------------------------
(***************************************************************************)
(* The columns that a reader delivers are those asked for.                 *)
(***************************************************************************)
WantedOf(columns) == IF columns = <<>> THEN AllColumns ELSE columns

LEMMA AsRequestedDelivers ==
  ASSUME NEW S, NEW columns \in Seq(S)
  PROVE  Delivered(AsRequested(columns)) = columns
<1> DEFINE r == AsRequested(columns)
<1>1. r.roots = columns /\ r.order = [i \in DOMAIN columns |-> i]
  BY DEF AsRequested
<1> HIDE DEF r
<1>2. DOMAIN r.order = DOMAIN columns /\ \A i \in DOMAIN columns : r.order[i] = i
  BY <1>1
<1>3. Delivered(r) = [i \in DOMAIN columns |-> columns[i]]
  BY <1>1, <1>2 DEF Delivered
<1> QED BY <1>3 DEF r

LEMMA ColumnProjectionDelivers ==
  ASSUME NEW columns \in Seq(Columns)
  PROVE  Delivered(ColumnProjection(columns)) = columns
<1> DEFINE S     == ToSet(columns)
           roots == Ascending(S)
           r     == ColumnProjection(columns)
<1>1. NumColumns \in Nat /\ S \in SUBSET (1 .. NumColumns)
  BY SourceAssumption DEF ToSet, Columns
<1>2. /\ DOMAIN roots = 1 .. Cardinality(S)
      /\ \A x \in S : \E i \in DOMAIN roots : roots[i] = x
      /\ \A i \in DOMAIN roots : Place(roots, roots[i]) = i
  <2> HIDE DEF S
  <2> QED BY <1>1, AscendingIs
<1>3. \A i \in DOMAIN columns : columns[i] \in S
  BY DEF ToSet
<1>4. \A i \in DOMAIN columns : roots[Place(roots, columns[i])] = columns[i]
  <2> HIDE DEF roots
  <2> QED BY <1>2, <1>3
<1>5. r.roots = roots /\ r.order = [i \in DOMAIN columns |-> Place(roots, columns[i])]
  BY DEF ColumnProjection, FileOrder
<1> HIDE DEF r, roots
<1>6. Delivered(r) = [i \in DOMAIN columns |-> columns[i]]
  BY <1>4, <1>5 DEF Delivered
<1> QED BY <1>6 DEF r

LEMMA ProjectionDelivers ==
  ASSUME NEW columns \in Seq(Columns)
  PROVE  Delivered(Projection(columns)) = WantedOf(columns)
<1>1. AllColumns \in Seq(Columns)
  BY SourceAssumption DEF AllColumns, Columns
<1>2. CASE columns = <<>>
  BY <1>1, <1>2, AsRequestedDelivers DEF Projection, WantedOf
<1>3. CASE columns # <<>>
  BY <1>3, AsRequestedDelivers, ColumnProjectionDelivers DEF Projection, WantedOf
<1> QED BY <1>2, <1>3

-----------------------------------------------------------------------------
(***************************************************************************)
(* What is in a source, and what has been taken of it.                     *)
(***************************************************************************)
ObjectSizes(b, objects)  == [k \in DOMAIN objects |-> Batches(b, objects[k])]
Before(b, objects, k) == Total(ObjectSizes(b, objects), 1 .. k - 1)

\* The place of every batch, in a source that consists of these objects.
LEMMA UnitsPlaced ==
  ASSUME NEW b, NEW objects, Consists(b, objects)
  PROVE  /\ Contents[b] \in Seq(ToSet(Contents[b]))
         /\ Len(Contents[b]) = Total(ObjectSizes(b, objects), DOMAIN objects)
         /\ \A k \in DOMAIN objects : \A j \in 1 .. Batches(b, objects[k]) :
              LET m == Before(b, objects, k) + j IN
                m \in DOMAIN Contents[b] /\ Contents[b][m] = <<Object(b, objects[k]), j>>
<1> DEFINE n == Len(objects)
           name(k) == Object(b, objects[k])
           size(k) == Batches(b, objects[k])
           S == {name(k) : k \in DOMAIN objects} \X Nat
           part(k) == [j \in 1 .. size(k) |-> <<name(k), j>>]
           q == [k \in DOMAIN objects |-> part(k)]
<1>1. DOMAIN objects = 1 .. n /\ n \in Nat /\ \A k \in 1 .. n : objects[k] \in ToSet(objects)
  BY DEF Consists
<1>2. \A k \in 1 .. n : size(k) \in Nat
  BY <1>1 DEF Consists
<1>3. \A k \in 1 .. n : part(k) \in Seq(S) /\ Len(part(k)) = size(k)
  <2> SUFFICES ASSUME NEW k \in 1 .. n PROVE part(k) \in Seq(S) /\ Len(part(k)) = size(k)
    OBVIOUS
  <2>1. \A j \in 1 .. size(k) : <<name(k), j>> \in S
    BY <1>1
  <2>2. size(k) \in Nat
    BY <1>2
  <2> HIDE DEF S, name, size
  <2> QED BY <2>1, <2>2
<1>4. q \in Seq(Seq(S)) /\ Len(q) = n /\ DOMAIN q = 1 .. n
  <2> HIDE DEF part, S, n
  <2> QED BY <1>1, <1>3
<1>5. Placed(q) /\ FlattenSeq(q) \in Seq(S)
  <2> HIDE DEF q, S
  <2> QED BY <1>4, FlattenPlaces
<1>6. Contents[b] = FlattenSeq(q)
  BY DEF Consists, Units
<1>7. \A k \in 1 .. n : q[k] = part(k)
  BY <1>1
<1>8. PartLengths(q) = ObjectSizes(b, objects)
  <2> HIDE DEF q, part
  <2> QED BY <1>1, <1>3, <1>4, <1>7 DEF PartLengths, ObjectSizes
<1>9. Contents[b] \in Seq(ToSet(Contents[b]))
  <2> HIDE DEF q, S
  <2>1. DOMAIN FlattenSeq(q) = 1 .. Len(FlattenSeq(q)) /\ Len(FlattenSeq(q)) \in Nat
    BY <1>5
  <2>2. FlattenSeq(q) = [i \in 1 .. Len(FlattenSeq(q)) |-> FlattenSeq(q)[i]]
    BY <1>5
  <2> QED BY <1>6, <2>1, <2>2 DEF ToSet
<1>10. Len(Contents[b]) = Total(ObjectSizes(b, objects), DOMAIN objects)
  <2> HIDE DEF q, n
  <2> QED BY <1>1, <1>4, <1>5, <1>6, <1>8 DEF Placed
<1>11. ASSUME NEW k \in DOMAIN objects, NEW j \in 1 .. Batches(b, objects[k])
       PROVE  LET m == Before(b, objects, k) + j IN
                m \in DOMAIN Contents[b] /\ Contents[b][m] = <<Object(b, objects[k]), j>>
  <2>1. k \in 1 .. n /\ Len(q[k]) = size(k) /\ q[k][j] = <<name(k), j>>
    BY <1>1, <1>3, <1>7
  <2>2. j \in 1 .. Len(q[k])
    BY <2>1
  <2> HIDE DEF q, n, S
  <2>3. LET m == Total(PartLengths(q), 1 .. k - 1) + j IN
          m \in 1 .. Len(FlattenSeq(q)) /\ FlattenSeq(q)[m] = q[k][j]
    BY <1>4, <1>5, <2>1, <2>2 DEF Placed
  <2>4. DOMAIN FlattenSeq(q) = 1 .. Len(FlattenSeq(q))
    BY <1>5
  <2> QED BY <1>6, <1>8, <2>1, <2>3, <2>4 DEF Before
<1> QED BY <1>9, <1>10, <1>11

-----------------------------------------------------------------------------
(***************************************************************************)
(* Batches received of objects, of which so many have been taken.          *)
(***************************************************************************)
UnitsIn(batches)     == [i \in DOMAIN batches |-> batches[i].unit]
OfObject(batches, o) == {i \in DOMAIN batches : batches[i].unit[1] = o}

Counted(b, objects, taken, batches) ==
  /\ Len(batches) = Total(taken, DOMAIN objects)
  /\ Numbered(UnitsIn(batches))
  /\ \A k \in DOMAIN objects : taken[k] = Cardinality(OfObject(batches, Object(b, objects[k])))

\* In order, they are the first ones of the source.
Ordered(b, objects, taken, batches) ==
  /\ \A i \in DOMAIN batches : batches[i].unit = Contents[b][i]
  /\ \A i, j \in DOMAIN objects :
       i < j /\ taken[j] > 0 => taken[i] = Batches(b, objects[i])

TakenType(b, objects, taken) ==
  /\ taken \in [DOMAIN objects -> Nat]
  /\ \A i \in DOMAIN objects : taken[i] <= Batches(b, objects[i])

LEMMA ConsistsType ==
  ASSUME NEW b, NEW objects, Consists(b, objects)
  PROVE  /\ Len(objects) \in Nat /\ DOMAIN objects = 1 .. Len(objects)
         /\ IsFiniteSet(DOMAIN objects)
         /\ \A k \in DOMAIN objects : Batches(b, objects[k]) \in Nat
         /\ \A i, k \in DOMAIN objects :
              Object(b, objects[i]) = Object(b, objects[k]) => i = k
<1>1. Len(objects) \in Nat /\ DOMAIN objects = 1 .. Len(objects)
      /\ \A k \in DOMAIN objects : objects[k] \in ToSet(objects)
  BY DEF Consists
<1>2. IsFiniteSet(DOMAIN objects)
  <2>1. 1 \in Int /\ Len(objects) \in Int
    BY <1>1
  <2> QED BY <1>1, <2>1, FS_Interval
<1>3. \A k \in DOMAIN objects : Batches(b, objects[k]) \in Nat
  BY <1>1 DEF Consists
<1>4. \A i, k \in DOMAIN objects : Object(b, objects[i]) = Object(b, objects[k]) => i = k
  <2> DEFINE f == [i \in DOMAIN objects |-> Object(b, objects[i])]
  <2>1. IsInjective(f) /\ DOMAIN f = DOMAIN objects
    BY DEF Consists
  <2>2. \A i \in DOMAIN objects : f[i] = Object(b, objects[i])
    OBVIOUS
  <2> HIDE DEF f
  <2> QED BY <2>1, <2>2 DEF IsInjective
<1> QED BY <1>1, <1>2, <1>3, <1>4

\* Nothing has been received where nothing has been taken.
LEMMA CountedStart ==
  ASSUME NEW b, NEW objects, Consists(b, objects)
  PROVE  LET none == [i \in DOMAIN objects |-> 0] IN
           /\ TakenType(b, objects, none)
           /\ Counted(b, objects, none, <<>>) /\ Ordered(b, objects, none, <<>>)
<1> DEFINE none == [i \in DOMAIN objects |-> 0]
<1>1. IsFiniteSet(DOMAIN objects) /\ \A k \in DOMAIN objects : Batches(b, objects[k]) \in Nat
  BY ConsistsType
<1>2. \A i \in DOMAIN objects : none[i] = 0
  OBVIOUS
<1>3. none \in [DOMAIN objects -> Nat]
  OBVIOUS
<1> HIDE DEF none
<1>4. TakenType(b, objects, none)
  BY <1>1, <1>2, <1>3 DEF TakenType
<1>5. Total(none, DOMAIN objects) = 0
  BY <1>1, <1>2, TotalOfZeros
<1>6. \A o : OfObject(<<>>, o) = {}
  BY DEF OfObject
<1>7. Len(<<>>) = 0 /\ DOMAIN UnitsIn(<<>>) = {} /\ DOMAIN <<>> = {}
  BY DEF UnitsIn
<1>8. Counted(b, objects, none, <<>>)
  BY <1>2, <1>5, <1>6, <1>7, FS_EmptySet DEF Counted, Numbered
<1>9. Ordered(b, objects, none, <<>>)
  BY <1>2, <1>7 DEF Ordered
<1> QED BY <1>4, <1>8, <1>9 DEF none

\* One batch more of an object is the next one of it.
LEMMA OneMoreOf ==
  ASSUME NEW S, NEW batches \in Seq(S), NEW item, NEW o
  PROVE  LET more == Append(batches, item) IN
           /\ Cardinality(OfObject(batches, o)) \in Nat
           /\ item.unit[1] = o => Cardinality(OfObject(more, o)) = Cardinality(OfObject(batches, o)) + 1
           /\ item.unit[1] # o => Cardinality(OfObject(more, o)) = Cardinality(OfObject(batches, o))
<1> DEFINE more == Append(batches, item)
           n == Len(batches)
           X == OfObject(batches, o)
<1>1. n \in Nat /\ DOMAIN batches = 1 .. n /\ DOMAIN more = 1 .. n + 1
      /\ more[n + 1] = item /\ \A i \in 1 .. n : more[i] = batches[i]
  <2>1. n \in Nat /\ DOMAIN batches = 1 .. n
    OBVIOUS
  <2> QED BY <2>1
<1> HIDE DEF more, n
<1>2. X \in SUBSET (1 .. n)
  BY <1>1 DEF OfObject
<1>3. IsFiniteSet(X) /\ Cardinality(X) \in Nat
  <2>1. 1 \in Int /\ n \in Int
    BY <1>1
  <2> QED BY <1>2, <2>1, FS_Interval, FS_Subset, FS_CardinalityType
<1>4. \A i \in 1 .. n : i \in X <=> more[i].unit[1] = o
  BY <1>1 DEF OfObject
<1>5. n + 1 \notin 1 .. n /\ 1 .. n + 1 = (1 .. n) \cup {n + 1}
  BY <1>1
<1> HIDE DEF X
<1>6. CASE item.unit[1] = o
  <2>1. OfObject(more, o) = X \cup {n + 1}
    BY <1>1, <1>2, <1>4, <1>5, <1>6 DEF OfObject
  <2>2. n + 1 \notin X
    BY <1>2, <1>5
  <2>3. Cardinality(X \cup {n + 1}) = Cardinality(X) + 1
    BY <1>3, <2>2, FS_AddElement
  <2> QED BY <1>3, <1>6, <2>1, <2>3 DEF more, X
<1>7. CASE item.unit[1] # o
  <2>1. OfObject(more, o) = X
    <3>1. OfObject(more, o) \subseteq 1 .. n + 1 /\ n + 1 \notin OfObject(more, o)
      BY <1>1, <1>7 DEF OfObject
    <3>2. \A i \in 1 .. n : i \in OfObject(more, o) <=> i \in X
      BY <1>1, <1>4, <1>5 DEF OfObject
    <3> QED BY <1>2, <1>5, <3>1, <3>2
  <2> QED BY <1>3, <1>7, <2>1 DEF more, X
<1> QED BY <1>6, <1>7

LEMMA NumberedMore ==
  ASSUME NEW S, NEW batches \in Seq(S), NEW item, Numbered(UnitsIn(batches)),
         item.unit[2] = Cardinality(OfObject(batches, item.unit[1])) + 1
  PROVE  Numbered(UnitsIn(Append(batches, item)))
<1> DEFINE more == Append(batches, item)
           n == Len(batches)
           u == UnitsIn(batches)
           v == UnitsIn(more)
           Upto(w, i) == {j \in 1 .. i : w[j][1] = w[i][1]}
<1>1. n \in Nat /\ DOMAIN batches = 1 .. n /\ DOMAIN more = 1 .. n + 1
      /\ more[n + 1] = item /\ \A i \in 1 .. n : more[i] = batches[i]
  <2>1. n \in Nat /\ DOMAIN batches = 1 .. n
    OBVIOUS
  <2> QED BY <2>1
<1>2. Cardinality(OfObject(more, item.unit[1])) = item.unit[2]
  BY OneMoreOf
<1> HIDE DEF more, n
<1>3. /\ DOMAIN u = 1 .. n /\ DOMAIN v = 1 .. n + 1 /\ v[n + 1] = item.unit
      /\ \A i \in 1 .. n : v[i] = u[i]
      /\ \A i \in 1 .. n + 1 : v[i] = more[i].unit
  <2>1. \A i \in 1 .. n : i \in 1 .. n + 1
    BY <1>1
  <2>2. n + 1 \in 1 .. n + 1
    BY <1>1
  <2> QED BY <1>1, <2>1, <2>2 DEF UnitsIn
<1> HIDE DEF u, v
<1>4. ASSUME NEW i \in 1 .. n PROVE v[i][2] = Cardinality(Upto(v, i))
  <2>1. u[i][2] = Cardinality(Upto(u, i))
    BY <1>3 DEF Numbered, u
  <2>2. \A j \in 1 .. i : j \in 1 .. n
    BY <1>1
  <2>3. Upto(v, i) = Upto(u, i)
    BY <1>3, <2>2
  <2> HIDE DEF Upto
  <2> QED BY <1>3, <2>1, <2>3
<1>5. v[n + 1][2] = Cardinality(Upto(v, n + 1))
  <2>1. Upto(v, n + 1) = OfObject(more, item.unit[1])
    BY <1>1, <1>3 DEF OfObject
  <2> HIDE DEF Upto
  <2> QED BY <1>2, <1>3, <2>1
<1>6. \A i \in 1 .. n + 1 : i = n + 1 \/ i \in 1 .. n
  BY <1>1
<1>7. \A i \in DOMAIN v : v[i][2] = Cardinality(Upto(v, i))
  <2> HIDE DEF Upto
  <2> QED BY <1>3, <1>4, <1>5, <1>6
<1> QED BY <1>7 DEF Numbered, v, more

\* The next batch of object i, after what was taken.
NextOf(b, objects, taken, i, item) ==
  /\ i \in DOMAIN objects /\ taken[i] # Batches(b, objects[i])
  /\ item.unit = <<Object(b, objects[i]), taken[i] + 1>>

LEMMA CountedMore ==
  ASSUME NEW b, NEW objects, Consists(b, objects), NEW taken, TakenType(b, objects, taken),
         NEW S, NEW batches \in Seq(S), Counted(b, objects, taken, batches),
         NEW i, NEW item, NextOf(b, objects, taken, i, item)
  PROVE  LET next == [taken EXCEPT ![i] = @ + 1]  more == Append(batches, item) IN
           /\ TakenType(b, objects, next) /\ Counted(b, objects, next, more)
           /\ item.unit \in ToSet(Contents[b])
<1> DEFINE next == [taken EXCEPT ![i] = @ + 1]
           more == Append(batches, item)
           o == Object(b, objects[i])
<1>1. /\ IsFiniteSet(DOMAIN objects) /\ \A k \in DOMAIN objects : Batches(b, objects[k]) \in Nat
      /\ \A k, m \in DOMAIN objects : Object(b, objects[k]) = Object(b, objects[m]) => k = m
  BY ConsistsType
<1>2. /\ i \in DOMAIN objects /\ item.unit[1] = o /\ item.unit[2] = taken[i] + 1
      /\ taken[i] < Batches(b, objects[i])
  BY <1>1 DEF NextOf, TakenType
<1>3. /\ next \in [DOMAIN objects -> Nat] /\ next[i] = taken[i] + 1
      /\ \A k \in DOMAIN objects : k # i => next[k] = taken[k]
      /\ \A k \in DOMAIN objects : taken[k] \in Nat /\ next[k] \in Nat
  BY <1>2 DEF TakenType
<1>4. Len(more) = Len(batches) + 1 /\ Len(batches) \in Nat
  OBVIOUS
<1> HIDE DEF next, more
<1>5. TakenType(b, objects, next)
  <2>1. \A k \in DOMAIN objects : next[k] <= Batches(b, objects[k])
    BY <1>1, <1>2, <1>3 DEF TakenType
  <2> QED BY <1>3, <2>1 DEF TakenType
<1>6. Len(more) = Total(next, DOMAIN objects)
  <2>1. \A k \in DOMAIN objects : taken[k] \in Int /\ next[k] \in Int
    BY <1>3
  <2>2. DifferAt(taken, next, DOMAIN objects, i)
    BY <1>2, <1>3, <2>1 DEF DifferAt
  <2>3. Total(next, DOMAIN objects) = Total(taken, DOMAIN objects) - taken[i] + next[i]
    BY <1>1, <2>2, TotalChange
  <2>4. Len(batches) = Total(taken, DOMAIN objects)
    BY DEF Counted
  <2> QED BY <1>2, <1>3, <1>4, <2>3, <2>4
<1>7. taken[i] = Cardinality(OfObject(batches, o))
  BY <1>2 DEF Counted
<1>8. Numbered(UnitsIn(more))
  <2>1. Numbered(UnitsIn(batches))
    BY DEF Counted
  <2> QED BY <1>2, <1>7, <2>1, NumberedMore DEF more
<1>9. ASSUME NEW k \in DOMAIN objects
      PROVE  next[k] = Cardinality(OfObject(more, Object(b, objects[k])))
  <2>1. taken[k] = Cardinality(OfObject(batches, Object(b, objects[k])))
    BY DEF Counted
  <2>2. CASE k = i
    <3>1. Cardinality(OfObject(more, o)) = Cardinality(OfObject(batches, o)) + 1
      BY <1>2, OneMoreOf DEF more
    <3> QED BY <1>3, <1>7, <2>2, <3>1
  <2>3. CASE k # i
    <3>1. item.unit[1] # Object(b, objects[k])
      BY <1>1, <1>2, <2>3
    <3>2. Cardinality(OfObject(more, Object(b, objects[k])))
            = Cardinality(OfObject(batches, Object(b, objects[k])))
      BY <3>1, OneMoreOf DEF more
    <3> QED BY <1>3, <2>1, <2>3, <3>2
  <2> QED BY <2>2, <2>3
<1>10. Counted(b, objects, next, more)
  BY <1>6, <1>8, <1>9 DEF Counted
<1>11. item.unit \in ToSet(Contents[b])
  <2> DEFINE j == taken[i] + 1
             m == Before(b, objects, i) + j
  <2>1. j \in 1 .. Batches(b, objects[i])
    BY <1>1, <1>2, <1>3
  <2>2. m \in DOMAIN Contents[b] /\ Contents[b][m] = <<Object(b, objects[i]), j>>
    <3> HIDE DEF j
    <3> QED BY <1>2, <2>1, UnitsPlaced
  <2>3. item.unit = <<Object(b, objects[i]), j>>
    BY DEF NextOf
  <2> HIDE DEF m, j
  <2> QED BY <2>2, <2>3 DEF ToSet
<1> QED BY <1>5, <1>10, <1>11 DEF next, more

\* In order, it is also the next one of the source.
LEMMA OrderedMore ==
  ASSUME NEW b, NEW objects, Consists(b, objects), NEW taken, TakenType(b, objects, taken),
         NEW S, NEW batches \in Seq(S), Counted(b, objects, taken, batches),
         NEW i, NEW item, NextOf(b, objects, taken, i, item),
         Ordered(b, objects, taken, batches),
         \A k \in 1 .. i - 1 : taken[k] = Batches(b, objects[k])
  PROVE  Ordered(b, objects, [taken EXCEPT ![i] = @ + 1], Append(batches, item))
<1> DEFINE next == [taken EXCEPT ![i] = @ + 1]
           more == Append(batches, item)
           n == Len(objects)
           sizes == ObjectSizes(b, objects)
<1>1. /\ n \in Nat /\ DOMAIN objects = 1 .. n
      /\ \A k \in 1 .. n : Batches(b, objects[k]) \in Nat
  BY ConsistsType
<1>2. \A k \in 1 .. n : sizes[k] = Batches(b, objects[k]) /\ sizes[k] \in Nat
  BY <1>1 DEF ObjectSizes
<1>3. i \in 1 .. n /\ taken[i] # sizes[i] /\ \A k \in 1 .. n : taken[k] \in Nat
  BY <1>1, <1>2 DEF NextOf, TakenType
<1>4. /\ next[i] = taken[i] + 1 /\ \A k \in 1 .. n : k # i => next[k] = taken[k]
  BY <1>1, <1>3 DEF TakenType
<1>5. \A k \in 1 .. i - 1 : k \in 1 .. n /\ taken[k] = sizes[k]
  BY <1>1, <1>2, <1>3
<1>6. \A k \in i + 1 .. n : k \in 1 .. n /\ taken[k] = 0
  <2> SUFFICES ASSUME NEW k \in i + 1 .. n PROVE k \in 1 .. n /\ taken[k] = 0
    OBVIOUS
  <2>1. k \in 1 .. n /\ i < k
    BY <1>1, <1>3
  <2>2. ~(taken[k] > 0)
    BY <1>1, <1>2, <1>3, <2>1 DEF Ordered
  <2>3. taken[k] \in Nat
    BY <1>3, <2>1
  <2> QED BY <2>1, <2>2, <2>3
<1> HIDE DEF n, sizes, next
<1>7. Total(taken, 1 .. n) = Total(sizes, 1 .. i - 1) + taken[i]
  <2>1. \A k \in 1 .. n : taken[k] \in Nat /\ sizes[k] \in Nat
    BY <1>2, <1>3
  <2>2. \A k \in 1 .. i - 1 : taken[k] = sizes[k]
    BY <1>5
  <2>3. \A k \in i + 1 .. n : taken[k] = 0
    BY <1>6
  <2>4. n \in Nat /\ i \in 1 .. n
    BY <1>1, <1>3
  <2>5. UpTo(taken, sizes, i, n)
    BY <2>1, <2>2, <2>3, Zenon DEF UpTo
  <2> QED BY <2>4, <2>5, TotalUpTo
<1>8. Len(batches) = Total(sizes, 1 .. i - 1) + taken[i]
  BY <1>1, <1>7 DEF Counted
<1>9. Total(sizes, 1 .. i - 1) \in Int
  <2>1. 1 \in Int /\ i - 1 \in Int
    BY <1>3
  <2>2. IsFiniteSet(1 .. i - 1)
    BY <2>1, FS_Interval
  <2>3. \A k \in 1 .. i - 1 : sizes[k] \in Int
    BY <1>2, <1>5
  <2> QED BY <2>2, <2>3, TotalRemove
<1>10. Contents[b][Len(batches) + 1] = item.unit
  <2> DEFINE j == taken[i] + 1
  <2>1. j \in 1 .. Batches(b, objects[i]) /\ i \in DOMAIN objects
    <3>1. /\ i \in DOMAIN objects /\ taken[i] \in Nat /\ taken[i] # Batches(b, objects[i])
          /\ Batches(b, objects[i]) \in Nat
      BY <1>1, <1>2, <1>3
    <3>2. taken[i] <= Batches(b, objects[i])
      BY <3>1 DEF TakenType
    <3> QED BY <3>1, <3>2
  <2>2. Contents[b][Before(b, objects, i) + j] = <<Object(b, objects[i]), j>>
    <3> HIDE DEF j
    <3> QED BY <2>1, UnitsPlaced
  <2>3. Before(b, objects, i) + j = Len(batches) + 1
    <3>1. Before(b, objects, i) = Total(sizes, 1 .. i - 1)
      BY DEF Before, sizes
    <3>2. taken[i] \in Nat
      BY <1>3
    <3> QED BY <1>8, <1>9, <3>1, <3>2
  <2>4. item.unit = <<Object(b, objects[i]), j>>
    BY DEF NextOf
  <2> HIDE DEF j
  <2> QED BY <2>2, <2>3, <2>4
<1>11. /\ DOMAIN more = 1 .. Len(batches) + 1 /\ DOMAIN batches = 1 .. Len(batches)
       /\ more[Len(batches) + 1] = item /\ Len(batches) \in Nat
       /\ \A k \in 1 .. Len(batches) : more[k] = batches[k]
  <2>1. Len(batches) \in Nat /\ DOMAIN batches = 1 .. Len(batches)
    OBVIOUS
  <2> QED BY <2>1
<1> HIDE DEF more
<1>12. \A k \in DOMAIN more : more[k].unit = Contents[b][k]
  <2>1. \A k \in DOMAIN more : k = Len(batches) + 1 \/ k \in DOMAIN batches
    BY <1>11
  <2>2. \A k \in DOMAIN batches : batches[k].unit = Contents[b][k]
    BY DEF Ordered
  <2> QED BY <1>10, <1>11, <2>1, <2>2
<1>13. ASSUME NEW k \in 1 .. n, NEW m \in 1 .. n, k < m, next[m] > 0
       PROVE  next[k] = Batches(b, objects[k])
  <2>1. CASE m = i
    <3>1. k \in 1 .. i - 1
      BY <1>1, <1>3, <1>13, <2>1
    <3> QED BY <1>4, <1>5, <1>13, <1>2, <2>1
  <2>2. CASE m # i
    <3>1. taken[m] > 0
      BY <1>4, <1>13, <2>2
    <3>2. taken[k] = Batches(b, objects[k])
      BY <1>1, <1>13, <3>1 DEF Ordered
    <3>3. k # i
      BY <1>2, <1>3, <3>2
    <3> QED BY <1>4, <3>2, <3>3
  <2> QED BY <2>1, <2>2
<1> QED BY <1>1, <1>12, <1>13 DEF Ordered, next, more

\* What has been received is part of the source, and all of it at the end.
LEMMA CountedPart ==
  ASSUME NEW b, NEW objects, Consists(b, objects), NEW taken, TakenType(b, objects, taken),
         NEW S, NEW batches \in Seq(S), Counted(b, objects, taken, batches)
  PROVE  /\ Len(batches) <= Len(Contents[b])
         /\ (\A i \in DOMAIN objects : taken[i] = Batches(b, objects[i]))
              => Len(batches) = Len(Contents[b])
<1> DEFINE sizes == ObjectSizes(b, objects)
<1>1. IsFiniteSet(DOMAIN objects) /\ \A k \in DOMAIN objects : Batches(b, objects[k]) \in Nat
  BY ConsistsType
<1>2. \A k \in DOMAIN objects : sizes[k] = Batches(b, objects[k])
  BY DEF ObjectSizes
<1> HIDE DEF sizes
<1>3. \A k \in DOMAIN objects : taken[k] \in Int /\ sizes[k] \in Int /\ taken[k] <= sizes[k]
  BY <1>1, <1>2 DEF TakenType
<1>4. Len(batches) = Total(taken, DOMAIN objects)
  BY DEF Counted
<1>5. Len(Contents[b]) = Total(sizes, DOMAIN objects)
  BY UnitsPlaced DEF sizes
<1>6. Total(taken, DOMAIN objects) <= Total(sizes, DOMAIN objects)
  BY <1>1, <1>3, TotalMonotone
<1>7. ASSUME \A i \in DOMAIN objects : taken[i] = Batches(b, objects[i])
      PROVE  Total(taken, DOMAIN objects) = Total(sizes, DOMAIN objects)
  <2>1. \A i \in DOMAIN objects : taken[i] = sizes[i]
    BY <1>2, <1>7
  <2> QED BY <1>1, <2>1, TotalSame
<1> QED BY <1>4, <1>5, <1>6, <1>7

-----------------------------------------------------------------------------
(***************************************************************************)
(* The invariant.  Every unit received is one of the source, with the      *)
(* columns asked for.                                                      *)
(***************************************************************************)
Known    == IF Contents[source] = NoContents THEN {} ELSE ToSet(Contents[source])
Items(s) == [unit : Known, columns : {Wanted(s)}]

Fields(r) ==
  r = [state |-> r.state, objects |-> r.objects, loaded |-> r.loaded, taken |-> r.taken,
       roots |-> r.roots, order |-> r.order]

SourceType ==
  /\ source \in Sources
  /\ scan \in [Scans -> {"new", "opening", "reading", "ended", "failed", "released"}]
  /\ request \in [Scans -> Seq(Columns)]
  /\ using \in [Scans -> Readers]
  /\ reader = [r \in Readers |-> reader[r]] /\ \A r \in Readers : Fields(reader[r])
  /\ got = [s \in Scans |-> got[s]] /\ \A s \in Scans : got[s] \in Seq(Items(s))

\* A reader that is opening has part of the footers; an open one all objects.
OpeningInv(r) ==
  reader[r].state = "opening" =>
    /\ reader[r].objects # <<>> =>
         source.kind = "parquet" /\ reader[r].objects = ParquetFiles(source)
    /\ reader[r].loaded \in Seq(DOMAIN reader[r].objects)
    /\ IF r = "bound" THEN bound = "binding" ELSE scan[r] = "opening"

OpenInv(r) ==
  reader[r].state = "open" =>
    /\ Consists(source, reader[r].objects)
    /\ Delivered(reader[r]) = WantedOf(Requested(r))
    /\ TakenType(source, reader[r].objects, reader[r].taken)

\* The bound reader is of one scan, which asked for every column.
UsingInv ==
  /\ \A s \in Scans : using[s] \in {s, "bound"}
  /\ \A s \in Scans : using[s] = "bound" => bound = "none" /\ Wanted(s) = AllColumns
  /\ \A s, t \in Scans : using[s] = "bound" /\ using[t] = "bound" => s = t
  /\ bound = "held" =>
       /\ reader["bound"].state = "open"
       /\ reader["bound"].taken = [i \in DOMAIN reader["bound"].objects |-> 0]

ScanInv(s) ==
  /\ scan[s] \in {"new", "opening"} => using[s] = s /\ reader[s].state # "open"
  /\ scan[s] \in {"reading", "ended"} => reader[using[s]].state = "open"
  /\ scan[s] = "ended" =>
       \A i \in DOMAIN reader[using[s]].objects : Finished(reader[using[s]], i)

\* What was received is what the scan's reader took.
Follows(batches, r) ==
  /\ Counted(source, r.objects, r.taken, batches)
  /\ InOrder => Ordered(source, r.objects, r.taken, batches)

GotInv(s) ==
  IF reader[using[s]].state = "open" THEN Follows(got[s], reader[using[s]]) ELSE got[s] = <<>>

ReadersInv == \A r \in Readers : OpeningInv(r) /\ OpenInv(r)
ScansInv   == \A s \in Scans : ScanInv(s) /\ GotInv(s)
SourceInv  == SourceType /\ UsingInv /\ ReadersInv /\ ScansInv

-----------------------------------------------------------------------------
LEMMA NotBound == \A s \in Scans : s # "bound" /\ s \in Readers
BY SourceAssumption DEF Readers

\* The invariant has what the property says.
LEMMA SourceDelivers ==
  ASSUME SourceInv
  PROVE  ScanDelivers
<1> SUFFICES ASSUME NEW s \in Scans
             PROVE  /\ \A i \in DOMAIN got[s] : got[s][i].columns = Wanted(s)
                    /\ got[s] # <<>> \/ scan[s] = "ended" => Contents[source] # NoContents
                    /\ IF InOrder THEN got[s] # <<>> => IsPrefix(UnitsOf(s), Contents[source])
                       ELSE got[s] # <<>> =>
                              /\ Numbered(UnitsOf(s))
                              /\ ToSet(UnitsOf(s)) \subseteq ToSet(Contents[source])
                    /\ scan[s] = "ended" => Len(got[s]) = Len(Contents[source])
  BY DEF ScanDelivers
<1> DEFINE r == reader[using[s]]
           c == Contents[source]
           g == got[s]
<1>1. /\ g \in Seq(Items(s)) /\ ScanInv(s) /\ GotInv(s) /\ using[s] \in Readers
      /\ r.state = "open" => OpenInv(using[s])
  BY DEF SourceInv, SourceType, ReadersInv, ScansInv
<1>2. \A i \in DOMAIN g : g[i].columns = Wanted(s) /\ g[i].unit \in Known
  <2>1. \A i \in DOMAIN g : g[i] \in Items(s)
    BY <1>1
  <2> HIDE DEF g
  <2> QED BY <2>1 DEF Items
<1>3. g # <<>> \/ scan[s] = "ended" => r.state = "open"
  BY <1>1 DEF GotInv, ScanInv
<1>4. UnitsOf(s) = UnitsIn(g)
  BY DEF UnitsOf, UnitsIn
<1>5. ASSUME r.state = "open"
      PROVE  /\ Consists(source, r.objects) /\ TakenType(source, r.objects, r.taken)
             /\ Counted(source, r.objects, r.taken, g)
             /\ InOrder => Ordered(source, r.objects, r.taken, g)
  BY <1>1, <1>5 DEF OpenInv, GotInv, Follows
<1> HIDE DEF r, g
<1>6. ASSUME r.state = "open"
      PROVE  /\ c # NoContents /\ c \in Seq(ToSet(c)) /\ Len(g) <= Len(c)
             /\ (\A i \in DOMAIN r.objects : r.taken[i] = Batches(source, r.objects[i]))
                  => Len(g) = Len(c)
  <2>1. c # NoContents /\ c \in Seq(ToSet(c))
    BY <1>5, <1>6, UnitsPlaced DEF Consists
  <2> HIDE DEF c
  <2> QED BY <1>1, <1>5, <1>6, <2>1, CountedPart DEF c
<1> HIDE DEF c
<1>7. CASE r.state # "open"
  <2>1. g = <<>> /\ scan[s] # "ended"
    BY <1>3, <1>7
  <2> QED BY <2>1, <1>2 DEF g
<1>8. CASE r.state = "open"
  <2>1. scan[s] = "ended" => Len(g) = Len(c)
    <3>1. scan[s] = "ended" =>
            \A i \in DOMAIN r.objects : r.taken[i] = Batches(source, r.objects[i])
      BY <1>1 DEF ScanInv, Finished, r
    <3> QED BY <1>6, <1>8, <3>1
  <2>2. Numbered(UnitsIn(g))
    BY <1>5, <1>8 DEF Counted
  <2>3. DOMAIN UnitsIn(g) = DOMAIN g /\ \A i \in DOMAIN g : UnitsIn(g)[i] = g[i].unit
    BY DEF UnitsIn
  <2>4. ToSet(UnitsIn(g)) \subseteq ToSet(c)
    <3>1. Known = ToSet(c)
      BY <1>6, <1>8 DEF Known, c
    <3> QED BY <1>2, <2>3, <3>1 DEF ToSet
  <2>5. InOrder => IsPrefix(UnitsIn(g), c)
    <3> SUFFICES ASSUME InOrder PROVE IsPrefix(UnitsIn(g), c)
      OBVIOUS
    <3> DEFINE u == UnitsIn(g)
    <3>1. \A i \in DOMAIN g : g[i].unit = c[i]
      BY <1>5, <1>8 DEF Ordered, c
    <3>2. DOMAIN g = 1 .. Len(g) /\ Len(g) \in Nat
      BY <1>1
    <3>3. u \in Seq(ToSet(c)) /\ Len(u) = Len(g)
      <4>1. \A i \in DOMAIN g : u[i] \in ToSet(c)
        BY <2>3, <2>4 DEF ToSet
      <4>2. u = [i \in 1 .. Len(g) |-> u[i]]
        BY <3>2 DEF UnitsIn
      <4> HIDE DEF u
      <4>3. \A i \in 1 .. Len(g) : u[i] \in ToSet(c)
        BY <3>2, <4>1
      <4>4. u \in [1 .. Len(g) -> ToSet(c)]
        BY <4>2, <4>3
      <4> QED BY <3>2, <4>4
    <3>4. \A i \in 1 .. Len(u) : u[i] = c[i]
      BY <2>3, <3>1, <3>2, <3>3
    <3>5. Len(u) <= Len(c) /\ c \in Seq(ToSet(c))
      BY <1>6, <1>8, <3>3
    <3> HIDE DEF u
    <3>6. SubSeq(u, 1, Len(u)) = SubSeq(c, 1, Len(u))
      BY <3>3, <3>4, <3>5
    <3> QED BY <3>5, <3>6 DEF IsPrefix, u
  <2> QED BY <1>2, <1>4, <1>6, <1>8, <2>1, <2>2, <2>4, <2>5 DEF g, c
<1> QED BY <1>7, <1>8

-----------------------------------------------------------------------------
(***************************************************************************)
(* The steps.  The source stays, and what its parts say.                   *)
(***************************************************************************)
LEMMA SourceStart == SourceInit => SourceInv
<1> SUFFICES ASSUME SourceInit PROVE SourceInv
  OBVIOUS
<1> USE NotBound DEF SourceInit
<1>0. "bound" \in Readers
  BY DEF Readers
<1>1. \A r \in Readers : reader[r] = (IF r = "bound" /\ bound = "binding" THEN Opening ELSE NoReader)
  OBVIOUS
<1>2. /\ Fields(Opening) /\ Fields(NoReader)
      /\ Opening.state = "opening" /\ NoReader.state = "none"
      /\ Opening.objects = <<>> /\ Opening.loaded = <<>>
  BY DEF Fields, Opening, NoReader
<1>3. SourceType
  <2>1. request \in [Scans -> Seq(Columns)]
    OBVIOUS
  <2>2. \A s \in Scans : got[s] \in Seq(Items(s))
    OBVIOUS
  <2> QED BY <1>1, <1>2, <2>1, <2>2 DEF SourceType
<1>4. UsingInv
  BY DEF UsingInv
<1>5. ASSUME NEW r \in Readers PROVE OpeningInv(r) /\ OpenInv(r)
  <2>1. reader[r].state # "open"
    BY <1>1, <1>2
  <2>2. reader[r].state = "opening" =>
          r = "bound" /\ bound = "binding" /\ reader[r].objects = <<>> /\ reader[r].loaded = <<>>
    BY <1>1, <1>2
  <2>3. <<>> \in Seq(DOMAIN reader[r].objects)
    OBVIOUS
  <2> QED BY <2>1, <2>2, <2>3 DEF OpeningInv, OpenInv
<1>6. ASSUME NEW s \in Scans PROVE ScanInv(s) /\ GotInv(s)
  <2>1. using[s] = s /\ scan[s] = "new" /\ got[s] = <<>> /\ reader[s].state # "open"
    BY <1>1, <1>2
  <2> QED BY <2>1 DEF ScanInv, GotInv
<1> QED BY <1>3, <1>4, <1>5, <1>6 DEF SourceInv, ReadersInv, ScansInv

\* A reader r that is opening is of no scan that has received anything.
LEMMA OpeningReader ==
  ASSUME SourceInv, NEW r \in Readers, IsOpening(r)
  PROVE  /\ \A s \in Scans : using[s] = r => s = r /\ got[s] = <<>> /\ scan[s] = "opening"
         /\ r = "bound" => bound = "binding"
         /\ r # "bound" => r \in Scans /\ scan[r] = "opening" /\ using[r] = r
<1>1. OpeningInv(r) /\ reader[r].state = "opening"
  BY DEF SourceInv, ReadersInv, IsOpening
<1>2. /\ r = "bound" => bound = "binding"
      /\ r # "bound" => r \in Scans /\ scan[r] = "opening"
  BY <1>1, NotBound DEF OpeningInv, Readers
<1>3. \A s \in Scans : ScanInv(s) /\ GotInv(s) /\ using[s] \in {s, "bound"}
                       /\ (using[s] = "bound" => bound = "none")
  BY DEF SourceInv, ScansInv, UsingInv
<1>4. ASSUME NEW s \in Scans, using[s] = r
      PROVE  s = r /\ got[s] = <<>> /\ scan[s] = "opening"
  <2>1. r # "bound" /\ s = r
    BY <1>2, <1>3, <1>4
  <2>2. reader[using[s]].state # "open"
    BY <1>1, <1>4
  <2> QED BY <1>2, <1>3, <2>1, <2>2 DEF GotInv
<1>5. r # "bound" => using[r] = r
  BY <1>2, <1>3 DEF ScanInv
<1> QED BY <1>2, <1>4, <1>5

\* A reader still opening has another one in its place: x.
StillOpening(r, x) ==
  /\ Fields(x) /\ x.state = "opening"
  /\ x.objects # <<>> => source.kind = "parquet" /\ x.objects = ParquetFiles(source)
  /\ x.loaded \in Seq(DOMAIN x.objects)

LEMMA OpeningOn ==
  ASSUME SourceInv, NEW r \in Readers, IsOpening(r), NEW x, StillOpening(r, x),
         reader' = [reader EXCEPT ![r] = x],
         UNCHANGED <<source, bound, scan, request, using, got>>
  PROVE  SourceInv'
<1>1. /\ reader'[r] = x /\ \A q \in Readers : q # r => reader'[q] = reader[q]
      /\ reader' = [q \in Readers |-> reader'[q]]
  BY DEF SourceInv, SourceType
<1>2. x.state = "opening" /\ Fields(x) /\ reader[r].state = "opening"
  BY DEF StillOpening, IsOpening
<1>3. SourceType'
  <2>1. \A q \in Readers : Fields(reader'[q])
    BY <1>1, <1>2 DEF SourceInv, SourceType
  <2>2. \A s \in Scans : Items(s)' = Items(s)
    BY DEF Items, Known, Wanted
  <2> QED BY <1>1, <2>1, <2>2 DEF SourceInv, SourceType
<1>4. UsingInv'
  <2>1. bound = "held" => r # "bound"
    BY OpeningReader
  <2>2. "bound" \in Readers
    BY DEF Readers
  <2> QED BY <1>1, <2>1, <2>2 DEF SourceInv, UsingInv, Wanted
<1>5. ASSUME NEW q \in Readers PROVE OpeningInv(q)' /\ OpenInv(q)'
  <2>1. CASE q = r
    <3>1. IF r = "bound" THEN bound = "binding" ELSE scan[r] = "opening"
      BY OpeningReader
    <3> QED BY <1>1, <1>2, <2>1, <3>1 DEF OpeningInv, OpenInv, StillOpening
  <2>2. CASE q # r
    <3>1. OpeningInv(q) /\ OpenInv(q) /\ reader'[q] = reader[q]
      BY <1>1, <2>2 DEF SourceInv, ReadersInv
    <3>2. OpeningInv(q)'
      BY <3>1 DEF OpeningInv
    <3>3. Requested(q)' = Requested(q)
      BY DEF Requested
    <3>4. OpenInv(q)'
      BY <3>1, <3>3 DEF OpenInv
    <3> QED BY <3>2, <3>4
  <2> QED BY <2>1, <2>2
<1>6. ASSUME NEW s \in Scans PROVE ScanInv(s)' /\ GotInv(s)'
  <2>1. ScanInv(s) /\ GotInv(s) /\ using[s] \in Readers /\ s \in Readers
    BY NotBound DEF SourceInv, ScansInv, SourceType
  <2>2. CASE using[s] = r
    <3>1. s = r /\ got[s] = <<>> /\ scan[s] = "opening"
      BY <2>2, OpeningReader
    <3> QED BY <1>1, <1>2, <2>1, <2>2, <3>1 DEF ScanInv, GotInv
  <2>3. CASE using[s] # r
    <3>1. reader'[using[s]] = reader[using[s]]
      BY <1>1, <2>1, <2>3
    <3>2. ScanInv(s)'
      BY <1>1, <1>2, <2>1, <3>1 DEF ScanInv, Finished
    <3>3. InOrder' = InOrder
      BY DEF InOrder, IsSegment
    <3>4. GotInv(s)'
      BY <2>1, <3>1, <3>3 DEF GotInv, Follows
    <3> QED BY <3>2, <3>4
  <2> QED BY <2>2, <2>3
<1> QED BY <1>3, <1>4, <1>5, <1>6 DEF SourceInv, ReadersInv, ScansInv

\* A reader that could not be opened is gone.
LEMMA OpeningOff ==
  ASSUME SourceInv, NEW r \in Readers, IsOpening(r), NotOpened(r)
  PROVE  SourceInv'
<1>1. /\ reader'[r] = NoReader /\ \A q \in Readers : q # r => reader'[q] = reader[q]
      /\ reader' = [q \in Readers |-> reader'[q]]
      /\ source' = source /\ request' = request /\ using' = using /\ got' = got
  BY DEF SourceInv, SourceType, NotOpened
<1>2. NoReader.state = "none" /\ Fields(NoReader) /\ reader[r].state = "opening"
  BY DEF NoReader, Fields, IsOpening
<1>3. /\ \A s \in Scans : s # r => scan'[s] = scan[s]
      /\ r # "bound" => scan'[r] = "failed" /\ bound' = bound
      /\ r = "bound" => bound' = "failed" /\ scan' = scan
      /\ scan' \in [Scans -> {"new", "opening", "reading", "ended", "failed", "released"}]
  <2>1. scan \in [Scans -> {"new", "opening", "reading", "ended", "failed", "released"}]
    BY DEF SourceInv, SourceType
  <2>2. CASE r = "bound"
    BY <2>1, <2>2 DEF NotOpened
  <2>3. CASE r # "bound"
    <3>1. r \in Scans /\ scan' = [scan EXCEPT ![r] = "failed"] /\ bound' = bound
      BY <2>3, OpeningReader DEF NotOpened, SetScan
    <3> QED BY <2>1, <2>3, <3>1
  <2> QED BY <2>2, <2>3
<1>4. SourceType'
  <2>1. \A q \in Readers : Fields(reader'[q])
    BY <1>1, <1>2 DEF SourceInv, SourceType
  <2>2. \A s \in Scans : Items(s)' = Items(s)
    BY <1>1 DEF Items, Known, Wanted
  <2> QED BY <1>1, <1>3, <2>1, <2>2 DEF SourceInv, SourceType
<1>5. UsingInv'
  <2>1. r = "bound" => bound = "binding" /\ bound' = "failed"
    BY <1>3, OpeningReader
  <2>2. "bound" \in Readers
    BY DEF Readers
  <2> QED BY <1>1, <1>3, <2>1, <2>2 DEF SourceInv, UsingInv, Wanted
<1>6. ASSUME NEW q \in Readers PROVE OpeningInv(q)' /\ OpenInv(q)'
  <2>1. CASE q = r
    BY <1>1, <1>2, <2>1 DEF OpeningInv, OpenInv
  <2>2. CASE q # r
    <3>1. OpeningInv(q) /\ OpenInv(q) /\ reader'[q] = reader[q]
      BY <1>1, <2>2 DEF SourceInv, ReadersInv
    <3>2. OpeningInv(q)'
      BY <1>1, <1>3, <2>2, <3>1, OpeningReader DEF OpeningInv, Readers
    <3>3. Requested(q)' = Requested(q)
      BY <1>1 DEF Requested
    <3>4. OpenInv(q)'
      BY <1>1, <3>1, <3>3 DEF OpenInv
    <3> QED BY <3>2, <3>4
  <2> QED BY <2>1, <2>2
<1>7. ASSUME NEW s \in Scans PROVE ScanInv(s)' /\ GotInv(s)'
  <2>1. ScanInv(s) /\ GotInv(s) /\ using[s] \in Readers /\ s \in Readers /\ s # "bound"
    BY NotBound DEF SourceInv, ScansInv, SourceType
  <2>2. CASE using[s] = r
    <3>1. s = r /\ got[s] = <<>> /\ scan'[s] = "failed"
      BY <1>3, <2>1, <2>2, OpeningReader
    <3> QED BY <1>1, <1>2, <2>1, <2>2, <3>1 DEF ScanInv, GotInv
  <2>3. CASE using[s] # r
    <3>1. reader'[using[s]] = reader[using[s]] /\ scan'[s] = scan[s] /\ s # r
      BY <1>1, <1>3, <2>1, <2>3, OpeningReader
    <3>2. ScanInv(s)'
      BY <1>1, <2>1, <3>1 DEF ScanInv, Finished
    <3>3. InOrder' = InOrder
      BY <1>1 DEF InOrder, IsSegment
    <3>4. GotInv(s)'
      BY <1>1, <2>1, <3>1, <3>3 DEF GotInv, Follows
    <3> QED BY <3>2, <3>4
  <2> QED BY <2>2, <2>3
<1> QED BY <1>4, <1>5, <1>6, <1>7 DEF SourceInv, ReadersInv, ScansInv

\* One that has been opened has all the objects, and nothing is taken yet.
LEMMA OpeningDone ==
  ASSUME SourceInv, NEW r \in Readers, IsOpening(r),
         NEW objects, Consists(source, objects), Opened(r, objects)
  PROVE  SourceInv'
<1> DEFINE none == [i \in DOMAIN objects |-> 0]
           projection == Projection(Requested(r))
           x == [state |-> "open", objects |-> objects, loaded |-> <<>>, taken |-> none,
                 roots |-> projection.roots, order |-> projection.order]
<1>1. /\ reader'[r] = x /\ \A q \in Readers : q # r => reader'[q] = reader[q]
      /\ reader' = [q \in Readers |-> reader'[q]]
      /\ source' = source /\ request' = request /\ using' = using /\ got' = got
  <2>1. reader' = [reader EXCEPT ![r] = x]
    BY DEF Opened
  <2>2. source' = source /\ request' = request /\ using' = using /\ got' = got
    BY DEF Opened
  <2>3. reader = [q \in Readers |-> reader[q]]
    BY DEF SourceInv, SourceType
  <2> HIDE DEF x
  <2> QED BY <2>1, <2>2, <2>3
<1>2. /\ x.state = "open" /\ x.objects = objects /\ x.taken = none /\ Fields(x)
      /\ x.roots = projection.roots /\ x.order = projection.order
  <2> HIDE DEF projection, none
  <2> QED BY DEF Fields
<1>3. /\ \A s \in Scans : s # r => scan'[s] = scan[s]
      /\ r # "bound" => scan'[r] = "reading" /\ bound' = bound
      /\ r = "bound" => bound' = "held" /\ scan' = scan
      /\ scan' \in [Scans -> {"new", "opening", "reading", "ended", "failed", "released"}]
  <2>1. scan \in [Scans -> {"new", "opening", "reading", "ended", "failed", "released"}]
    BY DEF SourceInv, SourceType
  <2>2. CASE r = "bound"
    BY <2>1, <2>2 DEF Opened
  <2>3. CASE r # "bound"
    <3>1. r \in Scans /\ scan' = [scan EXCEPT ![r] = "reading"] /\ bound' = bound
      BY <2>3, OpeningReader DEF Opened, SetScan
    <3> QED BY <2>1, <2>3, <3>1
  <2> QED BY <2>2, <2>3
<1>4. Delivered(x) = WantedOf(Requested(r)) /\ TakenType(source, objects, none)
  <2>1. Requested(r) \in Seq(Columns)
    BY OpeningReader DEF SourceInv, SourceType, Requested
  <2>2. Delivered(projection) = WantedOf(Requested(r))
    BY <2>1, ProjectionDelivers
  <2>3. Delivered(x) = Delivered(projection)
    <3> HIDE DEF x, projection
    <3> QED BY <1>2 DEF Delivered
  <2> QED BY <2>2, <2>3, CountedStart
<1> HIDE DEF x, projection, none
<1>5. SourceType'
  <2>1. \A q \in Readers : Fields(reader'[q])
    BY <1>1, <1>2 DEF SourceInv, SourceType
  <2>2. \A s \in Scans : Items(s)' = Items(s)
    BY <1>1 DEF Items, Known, Wanted
  <2> QED BY <1>1, <1>3, <2>1, <2>2 DEF SourceInv, SourceType
<1>6. UsingInv'
  <2>1. "bound" \in Readers
    BY DEF Readers
  <2>2. \A s \in Scans : /\ using[s] \in {s, "bound"}
                         /\ using[s] = "bound" => bound = "none" /\ Wanted(s) = AllColumns
    BY DEF SourceInv, UsingInv
  <2>3. \A s, t \in Scans : using[s] = "bound" /\ using[t] = "bound" => s = t
    BY DEF SourceInv, UsingInv
  <2>4. bound = "held" => /\ reader["bound"].state = "open"
                          /\ reader["bound"].taken = [i \in DOMAIN reader["bound"].objects |-> 0]
    BY DEF SourceInv, UsingInv
  <2>5. r = "bound" => bound = "binding"
    BY OpeningReader
  <2>6. (bound = "held" => /\ reader["bound"].state = "open"
                           /\ reader["bound"].taken = [i \in DOMAIN reader["bound"].objects |-> 0])'
    <3>1. CASE r = "bound"
      BY <1>1, <1>2, <3>1 DEF none
    <3>2. CASE r # "bound"
      BY <1>1, <1>3, <2>1, <2>4, <3>2
    <3> QED BY <3>1, <3>2
  <2>7. \A s \in Scans : using'[s] = "bound" => bound' = "none" /\ Wanted(s)' = AllColumns
    BY <1>1, <1>3, <2>2, <2>5 DEF Wanted
  <2> QED BY <1>1, <2>2, <2>3, <2>6, <2>7 DEF UsingInv
<1>7. ASSUME NEW q \in Readers PROVE OpeningInv(q)' /\ OpenInv(q)'
  <2>0. Requested(q)' = Requested(q)
    BY <1>1 DEF Requested
  <2>1. CASE q = r
    BY <1>1, <1>2, <1>4, <2>0, <2>1 DEF OpeningInv, OpenInv
  <2>2. CASE q # r
    <3>1. OpeningInv(q) /\ OpenInv(q) /\ reader'[q] = reader[q]
      BY <1>1, <2>2 DEF SourceInv, ReadersInv
    <3>2. OpeningInv(q)'
      BY <1>1, <1>3, <2>2, <3>1, OpeningReader DEF OpeningInv, Readers
    <3>4. OpenInv(q)'
      BY <1>1, <2>0, <3>1 DEF OpenInv
    <3> QED BY <3>2, <3>4
  <2> QED BY <2>1, <2>2
<1>8. ASSUME NEW s \in Scans PROVE ScanInv(s)' /\ GotInv(s)'
  <2>1. ScanInv(s) /\ GotInv(s) /\ using[s] \in Readers /\ s \in Readers /\ s # "bound"
    BY NotBound DEF SourceInv, ScansInv, SourceType
  <2>2. CASE using[s] = r
    <3>1. s = r /\ got[s] = <<>> /\ scan'[s] = "reading"
      BY <1>3, <2>1, <2>2, OpeningReader
    <3>2. ScanInv(s)'
      BY <1>1, <1>2, <2>2, <3>1 DEF ScanInv
    <3>3. /\ Counted(source, objects, none, <<>>) /\ Ordered(source, objects, none, <<>>)
      BY CountedStart DEF none
    <3>4. GotInv(s)'
      BY <1>1, <1>2, <2>2, <3>1, <3>3 DEF GotInv, Follows
    <3> QED BY <3>2, <3>4
  <2>3. CASE using[s] # r
    <3>1. reader'[using[s]] = reader[using[s]] /\ scan'[s] = scan[s] /\ s # r
      BY <1>1, <1>3, <2>1, <2>3, OpeningReader
    <3>2. ScanInv(s)'
      BY <1>1, <2>1, <3>1 DEF ScanInv, Finished
    <3>3. InOrder' = InOrder
      BY <1>1 DEF InOrder, IsSegment
    <3>4. GotInv(s)'
      BY <1>1, <2>1, <3>1, <3>3 DEF GotInv, Follows
    <3> QED BY <3>2, <3>4
  <2> QED BY <2>2, <2>3
<1> QED BY <1>5, <1>6, <1>7, <1>8 DEF SourceInv, ReadersInv, ScansInv

-----------------------------------------------------------------------------
LEMMA OpenFailsStep ==
  ASSUME SourceInv, NEW r \in Readers, OpenFails(r)
  PROVE  SourceInv'
BY OpeningOff DEF OpenFails

LEMMA ListShardsStep ==
  ASSUME SourceInv, NEW r \in Readers, ListShards(r)
  PROVE  SourceInv'
<1>1. IsOpening(r) /\ source.kind = "parquet" /\ reader[r].objects = <<>>
  BY DEF ListShards
<1>2. CASE ParquetFiles(source) = <<>>
  BY <1>1, <1>2, OpeningOff DEF ListShards
<1>3. CASE ParquetFiles(source) # <<>>
  <2> DEFINE x == [reader[r] EXCEPT !.objects = ParquetFiles(source)]
  <2>1. reader' = [reader EXCEPT ![r] = x]
        /\ UNCHANGED <<source, bound, scan, request, using, got>>
    BY <1>3 DEF ListShards
  <2>2. Fields(reader[r]) /\ reader[r].state = "opening" /\ OpeningInv(r)
    BY <1>1 DEF SourceInv, SourceType, ReadersInv, IsOpening
  <2>3. /\ x.state = "opening" /\ x.objects = ParquetFiles(source)
        /\ x.loaded = reader[r].loaded /\ Fields(x)
    BY <2>2 DEF Fields
  <2>4. x.loaded = <<>>
    <3>1. reader[r].loaded \in Seq({})
      BY <1>1, <2>2 DEF OpeningInv
    <3> QED BY <2>3, <3>1
  <2> HIDE DEF x
  <2>5. StillOpening(r, x)
    <3>1. <<>> \in Seq(DOMAIN x.objects)
      OBVIOUS
    <3> QED BY <1>1, <2>3, <2>4, <3>1 DEF StillOpening
  <2> QED BY <1>1, <2>1, <2>5, OpeningOn
<1> QED BY <1>2, <1>3

\* A reader with one more footer.
LEMMA LoadedReader ==
  ASSUME NEW r, Fields(r), NEW l
  PROVE  LET x == [r EXCEPT !.loaded = l] IN
           x.state = r.state /\ x.objects = r.objects /\ x.loaded = l /\ Fields(x)
<1> DEFINE x == [r EXCEPT !.loaded = l]
<1>1. PICK a, b, c, d, e, f :
        r = [state |-> a, objects |-> b, loaded |-> c, taken |-> d, roots |-> e, order |-> f]
  BY DEF Fields
<1>2. x = [state |-> a, objects |-> b, loaded |-> l, taken |-> d, roots |-> e, order |-> f]
  BY <1>1
<1>3. r.state = a /\ r.objects = b
  BY <1>1
<1> HIDE DEF x
<1>4. x.state = a /\ x.objects = b /\ x.loaded = l /\ Fields(x)
  BY <1>2 DEF Fields
<1> QED BY <1>3, <1>4 DEF x

LEMMA FetchFooterStep ==
  ASSUME SourceInv, NEW r \in Readers, NEW i \in DOMAIN reader[r].objects, FetchFooter(r, i)
  PROVE  SourceInv'
<1> DEFINE x == [reader[r] EXCEPT !.loaded = Append(reader[r].loaded, i)]
<1>1. IsOpening(r) /\ reader' = [reader EXCEPT ![r] = x]
      /\ UNCHANGED <<source, bound, scan, request, using, got>>
  BY DEF FetchFooter
<1>2. Fields(reader[r]) /\ reader[r].state = "opening" /\ OpeningInv(r)
  BY <1>1 DEF SourceInv, SourceType, ReadersInv, IsOpening
<1>3. Append(reader[r].loaded, i) \in Seq(DOMAIN reader[r].objects)
  <2>1. reader[r].loaded \in Seq(DOMAIN reader[r].objects)
    BY <1>2 DEF OpeningInv
  <2>2. \A D : \A q \in Seq(D) : \A e \in D : Append(q, e) \in Seq(D)
    OBVIOUS
  <2> QED BY <2>1, <2>2, Zenon
<1>4. /\ x.state = "opening" /\ x.objects = reader[r].objects
      /\ x.loaded = Append(reader[r].loaded, i) /\ Fields(x)
  BY <1>2, LoadedReader
<1> HIDE DEF x
<1>5. StillOpening(r, x)
  BY <1>2, <1>3, <1>4 DEF StillOpening, OpeningInv
<1> QED BY <1>1, <1>5, OpeningOn

\* All footers are there when as many files are retained as were listed.
LEMMA AllRetained ==
  ASSUME NEW n \in Nat, NEW loaded \in Seq(1 .. n), Len(Retained(loaded)) = n
  PROVE  Retained(loaded) = [i \in 1 .. n |-> i]
<1> DEFINE S == ToSet(loaded)
<1>1. S \in SUBSET (1 .. n)
  BY DEF ToSet
<1> HIDE DEF S
<1>2. Cardinality(S) \in Nat /\ Ascending(S) \in [1 .. Cardinality(S) -> S]
  BY <1>1, AscendingIs
<1>3. Len(Ascending(S)) = Cardinality(S)
  BY <1>2
<1>4. Cardinality(S) = n
  BY <1>3 DEF Retained, S
<1>5. IsFiniteSet(1 .. n) /\ Cardinality(1 .. n) = n
  <2>1. 1 \in Int /\ n \in Int /\ n - 1 + 1 = n
    OBVIOUS
  <2> QED BY <2>1, FS_Interval
<1>6. S = 1 .. n
  BY <1>1, <1>4, <1>5, FS_Subset
<1> QED BY <1>6, AscendingAll DEF Retained, S

LEMMA FootersLoadedStep ==
  ASSUME ContentsListed, SourceInv, NEW r \in Readers, FootersLoaded(r)
  PROVE  SourceInv'
<1> DEFINE objects  == reader[r].objects
           retained == Retained(reader[r].loaded)
           files    == [i \in DOMAIN retained |-> objects[retained[i]]]
<1>1. /\ IsOpening(r) /\ files # <<>> /\ Len(files) = Len(objects)
      /\ IF SameSchema(files) THEN Opened(r, RowGroups(files)) ELSE NotOpened(r)
  BY DEF FootersLoaded
<1>2. OpeningInv(r) /\ reader[r].state = "opening" /\ source \in Sources
  BY <1>1 DEF SourceInv, SourceType, ReadersInv, IsOpening
<1>3. reader[r].loaded \in Seq(DOMAIN objects)
      /\ (objects # <<>> => source.kind = "parquet" /\ objects = ParquetFiles(source))
  BY <1>2 DEF OpeningInv
<1>4. objects = <<>> \/ objects \in Seq(ToSet(objects))
  BY <1>2, <1>3 DEF ContentsListed
<1>5. DOMAIN objects = 1 .. Len(objects) /\ Len(objects) \in Nat
  <2>1. CASE objects = <<>>
    BY <2>1
  <2>2. CASE objects \in Seq(ToSet(objects))
    <3> HIDE DEF objects
    <3> QED BY <2>2
  <2> QED BY <1>4, <2>1, <2>2
<1>6. DOMAIN retained = 1 .. Len(retained) /\ Len(retained) \in Nat
  <2> DEFINE S == ToSet(reader[r].loaded)
             n == Len(objects)
  <2>1. S \in SUBSET (1 .. n) /\ n \in Nat
    BY <1>3, <1>5 DEF ToSet
  <2> HIDE DEF S, n
  <2>2. Cardinality(S) \in Nat /\ Ascending(S) \in [1 .. Cardinality(S) -> S]
    BY <2>1, AscendingIs
  <2>3. DOMAIN Ascending(S) = 1 .. Len(Ascending(S)) /\ Len(Ascending(S)) \in Nat
    BY <2>2
  <2> QED BY <2>3 DEF Retained, S
<1> HIDE DEF retained, objects
<1>7. DOMAIN files = 1 .. Len(retained) /\ Len(files) = Len(retained)
  BY <1>6
<1>8. Len(retained) = Len(objects)
  BY <1>1, <1>7
<1>9. retained = [i \in 1 .. Len(objects) |-> i]
  BY <1>3, <1>5, <1>8, AllRetained DEF retained
<1>10. files = [i \in 1 .. Len(objects) |-> objects[i]]
  BY <1>9
<1>11. objects # <<>>
  <2>1. CASE objects = <<>>
    <3>1. Len(retained) = 0
      BY <1>8, <2>1
    <3>2. DOMAIN files = {}
      BY <1>7, <3>1
    <3>3. files = <<>>
      BY <3>2
    <3> QED BY <1>1, <3>3
  <2> QED BY <2>1
<1>12. files = objects
  <2>1. objects \in Seq(ToSet(objects))
    BY <1>4, <1>11
  <2> QED BY <1>10, <2>1
<1> HIDE DEF files
<1>13. CASE SameSchema(files)
  <2>1. Consists(source, RowGroups(files))
    BY <1>2, <1>3, <1>11, <1>12, <1>13 DEF ContentsListed
  <2> QED BY <1>1, <1>13, <2>1, OpeningDone
<1>14. CASE ~SameSchema(files)
  BY <1>1, <1>14, OpeningOff
<1> QED BY <1>13, <1>14

LEMMA OpenWarcStep ==
  ASSUME ContentsListed, SourceInv, NEW r \in Readers, OpenWarc(r)
  PROVE  SourceInv'
<1> DEFINE files == SegmentFiles(source.manifests, ParseSegment(source.path))
<1>1. IsOpening(r) /\ source.kind = "warc" /\ source \in Sources
  BY DEF OpenWarc, SourceInv, SourceType
<1>2. CASE NotOpened(r)
  BY <1>1, <1>2, OpeningOff
<1>3. CASE ~NotOpened(r)
  <2>1. CASE ~IsSegment(source)
    <3>1. Opened(r, <<source.path>>)
      BY <1>3, <2>1 DEF OpenWarc
    <3>2. Consists(source, <<source.path>>)
      BY <1>1, <2>1 DEF ContentsListed
    <3> QED BY <1>1, <3>1, <3>2, OpeningDone
  <2>2. CASE IsSegment(source)
    <3>1. ~source.indexed /\ files # <<>> /\ Opened(r, files)
      BY <1>3, <2>2 DEF OpenWarc
    <3>2. Consists(source, files)
      BY <1>1, <2>2, <3>1 DEF ContentsListed
    <3> QED BY <1>1, <3>1, <3>2, OpeningDone
  <2> QED BY <2>1, <2>2
<1> QED BY <1>2, <1>3

LEMMA OpenAtifStep ==
  ASSUME ContentsListed, SourceInv, NEW r \in Readers, OpenAtif(r)
  PROVE  SourceInv'
<1>1. IsOpening(r) /\ source.kind = "atif" /\ source \in Sources /\ Opened(r, <<source.path>>)
  BY DEF OpenAtif, SourceInv, SourceType
<1>2. Consists(source, <<source.path>>)
  BY <1>1 DEF ContentsListed, IsSegment
<1> QED BY <1>1, <1>2, OpeningDone

-----------------------------------------------------------------------------
\* A scan ends, and nothing else changes.
Leaves(s, state) ==
  /\ state \in {"ended", "failed", "released"} /\ scan[s] \in {"new", "reading"}
  /\ state = "ended" =>
       /\ scan[s] = "reading"
       /\ \A i \in DOMAIN reader[using[s]].objects : Finished(reader[using[s]], i)

LEMMA ScanLeaves ==
  ASSUME SourceInv, NEW s \in Scans, NEW state, Leaves(s, state), SetScan(s, state),
         UNCHANGED <<source, bound, request, using, reader, got>>
  PROVE  SourceInv'
<1>1. /\ scan'[s] = state /\ \A t \in Scans : t # s => scan'[t] = scan[t]
      /\ scan' \in [Scans -> {"new", "opening", "reading", "ended", "failed", "released"}]
      /\ scan[s] \in {"new", "reading"} /\ state \in {"ended", "failed", "released"}
  BY DEF SourceInv, SourceType, SetScan, Leaves
<1>2. SourceType'
  <2>1. \A t \in Scans : Items(t)' = Items(t)
    BY DEF Items, Known, Wanted
  <2>2. \A q \in Readers : Fields(reader'[q])
    BY DEF SourceInv, SourceType
  <2> QED BY <1>1, <2>1, <2>2 DEF SourceInv, SourceType
<1>3. UsingInv'
  BY DEF SourceInv, UsingInv, Wanted
<1>4. ASSUME NEW q \in Readers PROVE OpeningInv(q)' /\ OpenInv(q)'
  <2>1. OpeningInv(q) /\ OpenInv(q)
    BY DEF SourceInv, ReadersInv
  <2>2. Requested(q)' = Requested(q)
    BY DEF Requested
  <2>3. OpeningInv(q)'
    BY <1>1, <2>1 DEF OpeningInv, Readers
  <2>4. OpenInv(q)'
    BY <2>1, <2>2 DEF OpenInv
  <2> QED BY <2>3, <2>4
<1>5. ASSUME NEW t \in Scans PROVE ScanInv(t)' /\ GotInv(t)'
  <2>1. ScanInv(t) /\ GotInv(t)
    BY DEF SourceInv, ScansInv
  <2>2. InOrder' = InOrder
    BY DEF InOrder, IsSegment
  <2>3. GotInv(t)'
    BY <2>1, <2>2 DEF GotInv, Follows
  <2>4. ScanInv(t)'
    <3>1. CASE t = s
      BY <1>1, <2>1, <3>1 DEF ScanInv, Leaves, Finished
    <3>2. CASE t # s
      BY <1>1, <2>1, <3>2 DEF ScanInv, Finished
    <3> QED BY <3>1, <3>2
  <2> QED BY <2>3, <2>4
<1> QED BY <1>2, <1>3, <1>4, <1>5 DEF SourceInv, ReadersInv, ScansInv

LEMMA GetStreamStep ==
  ASSUME SourceInv, NEW s \in Scans, NEW columns \in Requests, GetStream(s, columns)
  PROVE  SourceInv'
<1>1. /\ scan[s] = "new" /\ bound \in {"held", "none"}
      /\ request' = [request EXCEPT ![s] = columns] /\ source' = source /\ got' = got
  BY DEF GetStream
<1>2. columns \in Seq(Columns)
  <2>1. columns \in Seq(0 .. NumColumns) /\ 0 \notin ToSet(columns) /\ NumColumns \in Nat
    BY SourceAssumption DEF GetStream
  <2>2. \A i \in DOMAIN columns : columns[i] \in Columns
    <3>1. \A i \in DOMAIN columns : columns[i] \in 0 .. NumColumns /\ columns[i] # 0
      BY <2>1 DEF ToSet
    <3> QED BY <2>1, <3>1 DEF Columns
  <2>3. DOMAIN columns = 1 .. Len(columns) /\ Len(columns) \in Nat
        /\ columns = [i \in 1 .. Len(columns) |-> columns[i]]
    BY <2>1
  <2>4. columns \in [1 .. Len(columns) -> Columns]
    BY <2>2, <2>3
  <2> QED BY <2>3, <2>4
<1>3. /\ request' \in [Scans -> Seq(Columns)] /\ request'[s] = columns
      /\ \A t \in Scans : t # s => request'[t] = request[t]
  BY <1>1, <1>2 DEF SourceInv, SourceType
<1>4. /\ ScanInv(s) /\ GotInv(s) /\ using[s] = s /\ got[s] = <<>> /\ s \in Readers /\ s # "bound"
      /\ reader[s].state # "open" /\ reader[s].state # "opening"
  <2>1. ScanInv(s) /\ GotInv(s) /\ s \in Readers /\ s # "bound" /\ OpeningInv(s)
    BY NotBound DEF SourceInv, ScansInv, ReadersInv
  <2>2. using[s] = s /\ reader[s].state # "open" /\ reader[s].state # "opening"
    BY <1>1, <2>1 DEF ScanInv, OpeningInv
  <2> QED BY <2>1, <2>2 DEF GotInv
<1>5. \A t \in Scans : t # s => Items(t)' = Items(t)
  BY <1>1, <1>3 DEF Items, Known, Wanted
<1>6. \A t \in Scans : got'[t] \in Seq(Items(t)')
  <2> SUFFICES ASSUME NEW t \in Scans PROVE got'[t] \in Seq(Items(t)')
    OBVIOUS
  <2>1. CASE t = s
    <3>1. got'[t] = <<>>
      BY <1>1, <1>4, <2>1
    <3> QED BY <3>1
  <2>2. CASE t # s
    <3>1. got[t] \in Seq(Items(t)) /\ Items(t)' = Items(t)
      BY <1>5, <2>2 DEF SourceInv, SourceType
    <3> QED BY <1>1, <3>1
  <2> QED BY <2>1, <2>2
<1>7. InOrder' = InOrder
  BY <1>1 DEF InOrder, IsSegment
<1>8. \A q \in Readers : q # s => Requested(q)' = Requested(q)
  BY <1>3 DEF Requested, Readers
<1>9. CASE ReadsEveryColumn(columns) /\ bound = "held"
  <2>1. /\ bound' = "none" /\ using' = [using EXCEPT ![s] = "bound"] /\ reader' = reader
        /\ scan' = [scan EXCEPT ![s] = "reading"]
    BY <1>9 DEF GetStream, SetScan
  <2>2. /\ using'[s] = "bound" /\ using' \in [Scans -> Readers] /\ scan'[s] = "reading"
        /\ \A t \in Scans : t # s => using'[t] = using[t] /\ scan'[t] = scan[t]
        /\ scan' \in [Scans -> {"new", "opening", "reading", "ended", "failed", "released"}]
    BY <2>1 DEF SourceInv, SourceType, Readers
  <2>3. /\ reader["bound"].state = "open" /\ "bound" \in Readers
        /\ reader["bound"].taken = [i \in DOMAIN reader["bound"].objects |-> 0]
        /\ \A t \in Scans : using[t] # "bound" /\ using[t] = t
    BY <1>9 DEF SourceInv, UsingInv, Readers
  <2>4. SourceType'
    <3>1. \A q \in Readers : Fields(reader'[q])
      BY <2>1 DEF SourceInv, SourceType
    <3> QED BY <1>1, <1>3, <1>6, <2>1, <2>2, <3>1 DEF SourceInv, SourceType
  <2>5. UsingInv'
    <3>1. Wanted(s)' = AllColumns
      BY <1>3, <1>9 DEF ReadsEveryColumn, Wanted
    <3> QED BY <2>1, <2>2, <2>3, <3>1 DEF UsingInv
  <2>6. ASSUME NEW q \in Readers PROVE OpeningInv(q)' /\ OpenInv(q)'
    <3>1. OpeningInv(q) /\ OpenInv(q)
      BY DEF SourceInv, ReadersInv
    <3>2. CASE q = s
      BY <1>4, <2>1, <3>2 DEF OpeningInv, OpenInv
    <3>3. CASE q # s
      <4>1. OpeningInv(q)'
        BY <1>1, <1>9, <2>1, <2>2, <2>3, <3>1, <3>3 DEF OpeningInv, Readers
      <4>2. OpenInv(q)'
        BY <1>1, <1>8, <2>1, <3>1, <3>3 DEF OpenInv
      <4> QED BY <4>1, <4>2
    <3> QED BY <3>2, <3>3
  <2>7. ASSUME NEW t \in Scans PROVE ScanInv(t)' /\ GotInv(t)'
    <3>1. CASE t = s
      <4>1. ScanInv(t)'
        BY <2>1, <2>2, <2>3, <3>1 DEF ScanInv
      <4>2. OpenInv("bound") /\ Consists(source, reader["bound"].objects)
        BY <2>3 DEF SourceInv, ReadersInv, OpenInv
      <4>3. Follows(<<>>, reader["bound"])
        BY <2>3, <4>2, CountedStart DEF Follows
      <4>4. GotInv(t)'
        BY <1>1, <1>4, <1>7, <2>1, <2>2, <2>3, <3>1, <4>3 DEF GotInv, Follows
      <4> QED BY <4>1, <4>4
    <3>2. CASE t # s
      <4>1. ScanInv(t) /\ GotInv(t)
        BY DEF SourceInv, ScansInv
      <4>2. ScanInv(t)'
        BY <1>1, <2>1, <2>2, <3>2, <4>1 DEF ScanInv, Finished
      <4>3. GotInv(t)'
        BY <1>1, <1>7, <2>1, <2>2, <3>2, <4>1 DEF GotInv, Follows
      <4> QED BY <4>2, <4>3
    <3> QED BY <3>1, <3>2
  <2> QED BY <2>4, <2>5, <2>6, <2>7 DEF SourceInv, ReadersInv, ScansInv
<1>10. CASE ~(ReadsEveryColumn(columns) /\ bound = "held")
  <2>1. /\ bound' = bound /\ using' = using /\ reader' = [reader EXCEPT ![s] = Opening]
        /\ scan' = [scan EXCEPT ![s] = "opening"]
    BY <1>10 DEF GetStream, SetScan
  <2>2. /\ scan'[s] = "opening" /\ \A t \in Scans : t # s => scan'[t] = scan[t]
        /\ scan' \in [Scans -> {"new", "opening", "reading", "ended", "failed", "released"}]
        /\ reader'[s] = Opening /\ \A q \in Readers : q # s => reader'[q] = reader[q]
        /\ reader' = [q \in Readers |-> reader'[q]]
    BY <1>4, <2>1 DEF SourceInv, SourceType
  <2>3. /\ Fields(Opening) /\ Opening.state = "opening"
        /\ Opening.objects = <<>> /\ Opening.loaded = <<>>
    BY DEF Fields, Opening, NoReader
  <2>4. SourceType'
    <3>1. \A q \in Readers : Fields(reader'[q])
      BY <2>2, <2>3 DEF SourceInv, SourceType
    <3> QED BY <1>1, <1>3, <1>6, <2>1, <2>2, <3>1 DEF SourceInv, SourceType
  <2>5. UsingInv'
    <3>1. \A t \in Scans : using[t] = "bound" => t # s /\ Wanted(t)' = Wanted(t)
      BY <1>3, <1>4 DEF Wanted
    <3>2. "bound" \in Readers /\ reader'["bound"] = reader["bound"]
      BY <1>4, <2>2 DEF Readers
    <3> QED BY <2>1, <3>1, <3>2 DEF SourceInv, UsingInv
  <2>6. ASSUME NEW q \in Readers PROVE OpeningInv(q)' /\ OpenInv(q)'
    <3>1. OpeningInv(q) /\ OpenInv(q)
      BY DEF SourceInv, ReadersInv
    <3>2. CASE q = s
      <4>1. <<>> \in Seq(DOMAIN Opening.objects)
        OBVIOUS
      <4> QED BY <1>4, <2>2, <2>3, <3>2, <4>1 DEF OpeningInv, OpenInv
    <3>3. CASE q # s
      <4>1. OpeningInv(q)'
        BY <1>1, <2>1, <2>2, <3>1, <3>3 DEF OpeningInv, Readers
      <4>2. OpenInv(q)'
        BY <1>1, <1>8, <2>2, <3>1, <3>3 DEF OpenInv
      <4> QED BY <4>1, <4>2
    <3> QED BY <3>2, <3>3
  <2>7. ASSUME NEW t \in Scans PROVE ScanInv(t)' /\ GotInv(t)'
    <3>1. CASE t = s
      <4>1. ScanInv(t)'
        BY <1>4, <2>1, <2>2, <2>3, <3>1 DEF ScanInv
      <4>2. GotInv(t)'
        BY <1>1, <1>4, <2>1, <2>2, <2>3, <3>1 DEF GotInv
      <4> QED BY <4>1, <4>2
    <3>2. CASE t # s
      <4>1. ScanInv(t) /\ GotInv(t) /\ using[t] \in {t, "bound"} /\ t \in Readers /\ using[t] \in Readers
        BY NotBound DEF SourceInv, ScansInv, UsingInv, SourceType
      <4>2. reader'[using[t]] = reader[using[t]] /\ reader'[t] = reader[t]
        BY <1>4, <2>2, <3>2, <4>1
      <4>3. ScanInv(t)'
        BY <1>1, <2>1, <2>2, <3>2, <4>1, <4>2 DEF ScanInv, Finished
      <4>4. GotInv(t)'
        BY <1>1, <1>7, <2>1, <3>2, <4>1, <4>2 DEF GotInv, Follows
      <4> QED BY <4>3, <4>4
    <3> QED BY <3>1, <3>2
  <2> QED BY <2>4, <2>5, <2>6, <2>7 DEF SourceInv, ReadersInv, ScansInv
<1> QED BY <1>9, <1>10

LEMMA NextBatchStep ==
  ASSUME SourceInv, NEW s \in Scans, NextBatch(s)
  PROVE  SourceInv'
<1> DEFINE u == using[s]
           r == reader[u]
<1>1. scan[s] = "reading" /\ UNCHANGED <<source, bound, scan, request, using>>
  BY DEF NextBatch
<1>2. PICK i \in DOMAIN r.objects :
        /\ ~Finished(r, i)
        /\ InOrder => \A j \in 1 .. i - 1 : Finished(r, j)
        /\ reader' = [reader EXCEPT ![u].taken[i] = @ + 1]
        /\ got' = [got EXCEPT ![s] =
             Append(@, [unit |-> <<Object(source, r.objects[i]), r.taken[i] + 1>>,
                        columns |-> Delivered(r)])]
  BY DEF NextBatch
<1> DEFINE item == [unit |-> <<Object(source, r.objects[i]), r.taken[i] + 1>>,
                    columns |-> Delivered(r)]
           next == [r.taken EXCEPT ![i] = r.taken[i] + 1]
           x    == [r EXCEPT !.taken = next]
           more == Append(got[s], item)
<1>3. /\ u \in Readers /\ ScanInv(s) /\ GotInv(s) /\ OpenInv(u) /\ OpeningInv(u) /\ Fields(r)
      /\ got[s] \in Seq(Items(s)) /\ u \in {s, "bound"}
  BY DEF SourceInv, SourceType, ReadersInv, ScansInv, UsingInv
<1>4. r.state = "open"
  BY <1>1, <1>3 DEF ScanInv
<1>5. /\ Consists(source, r.objects) /\ TakenType(source, r.objects, r.taken)
      /\ Delivered(r) = WantedOf(Requested(u))
  BY <1>3, <1>4 DEF OpenInv
<1>6. Counted(source, r.objects, r.taken, got[s])
      /\ (InOrder => Ordered(source, r.objects, r.taken, got[s]))
  BY <1>3, <1>4 DEF GotInv, Follows
<1>7. NextOf(source, r.objects, r.taken, i, item)
  BY <1>2 DEF NextOf, Finished
<1>8. /\ TakenType(source, r.objects, next) /\ Counted(source, r.objects, next, more)
      /\ item.unit \in ToSet(Contents[source])
  <2> HIDE DEF item, r
  <2> QED BY <1>3, <1>5, <1>6, <1>7, CountedMore
<1>9. InOrder => Ordered(source, r.objects, next, more)
  <2> SUFFICES ASSUME InOrder PROVE Ordered(source, r.objects, next, more)
    OBVIOUS
  <2>1. \A k \in 1 .. i - 1 : r.taken[k] = Batches(source, r.objects[k])
    BY <1>2 DEF Finished
  <2> HIDE DEF item, r
  <2> QED BY <1>3, <1>5, <1>6, <1>7, <2>1, OrderedMore
<1>10. Delivered(r) = Wanted(s)
  <2>1. CASE u = s
    <3>1. Requested(u) = request[s]
      BY <2>1, NotBound DEF Requested
    <3> QED BY <1>5, <3>1 DEF WantedOf, Wanted
  <2>2. CASE u = "bound"
    <3>1. Requested(u) = <<>> /\ Wanted(s) = AllColumns
      BY <2>2 DEF Requested, SourceInv, UsingInv
    <3> QED BY <1>5, <3>1 DEF WantedOf
  <2> QED BY <1>3, <2>1, <2>2
<1>11. item \in Items(s)
  <2>1. Contents[source] # NoContents
    BY <1>5 DEF Consists
  <2>2. item.unit \in Known
    BY <1>8, <2>1 DEF Known
  <2> QED BY <1>10, <2>2 DEF Items
<1>12. reader' = [reader EXCEPT ![u] = x]
  <2>1. reader' = [reader EXCEPT ![u] = [reader[u] EXCEPT !.taken = [reader[u].taken EXCEPT ![i] = reader[u].taken[i] + 1]]]
    BY <1>2
  <2> QED BY <2>1
<1>13. /\ Fields(x) /\ x.state = "open" /\ x.objects = r.objects /\ x.taken = next
       /\ x.roots = r.roots /\ x.order = r.order
  <2> HIDE DEF r, next
  <2> QED BY <1>3, <1>4 DEF Fields
<1>14. Delivered(x) = Delivered(r)
  <2> HIDE DEF x, r
  <2> QED BY <1>13 DEF Delivered
<1>15. got' = [got EXCEPT ![s] = more]
  BY <1>2
<1> HIDE DEF x, next, item, r, u
<1>16. /\ reader'[u] = x /\ \A q \in Readers : q # u => reader'[q] = reader[q]
       /\ reader' = [q \in Readers |-> reader'[q]]
       /\ got'[s] = more /\ \A t \in Scans : t # s => got'[t] = got[t]
       /\ got' = [t \in Scans |-> got'[t]]
  BY <1>3, <1>12, <1>15 DEF SourceInv, SourceType
<1>17. SourceType'
  <2>1. \A q \in Readers : Fields(reader'[q])
    BY <1>13, <1>16 DEF SourceInv, SourceType
  <2>2. \A t \in Scans : Items(t)' = Items(t)
    BY <1>1 DEF Items, Known, Wanted
  <2>3. \A t \in Scans : got'[t] \in Seq(Items(t))
    <3>1. more \in Seq(Items(s))
      BY <1>3, <1>11
    <3>2. \A t \in Scans : got[t] \in Seq(Items(t))
      BY DEF SourceInv, SourceType
    <3> QED BY <1>16, <3>1, <3>2
  <2> QED BY <1>1, <1>16, <2>1, <2>2, <2>3 DEF SourceInv, SourceType
<1>18. UsingInv'
  <2>1. u = "bound" => bound = "none"
    BY DEF SourceInv, UsingInv, u
  <2>2. "bound" \in Readers
    BY DEF Readers
  <2>3. bound' = "held" => reader'["bound"] = reader["bound"]
    BY <1>1, <1>16, <2>1, <2>2
  <2> QED BY <1>1, <2>3 DEF SourceInv, UsingInv, Wanted
<1>19. ASSUME NEW q \in Readers PROVE OpeningInv(q)' /\ OpenInv(q)'
  <2>0. Requested(q)' = Requested(q) /\ OpeningInv(q) /\ OpenInv(q)
    BY <1>1 DEF Requested, SourceInv, ReadersInv
  <2>1. CASE q = u
    <3>1. reader'[q] = x
      BY <1>16, <2>1
    <3>2. WantedOf(Requested(q)) = Delivered(x)
      BY <1>5, <1>14, <2>1
    <3>3. OpenInv(q)'
      BY <1>1, <1>5, <1>8, <1>13, <2>0, <3>1, <3>2 DEF OpenInv
    <3>4. OpeningInv(q)'
      BY <1>13, <3>1 DEF OpeningInv
    <3> QED BY <3>3, <3>4
  <2>2. CASE q # u
    <3>1. reader'[q] = reader[q]
      BY <1>16, <2>2
    <3>2. OpeningInv(q)'
      BY <1>1, <2>0, <3>1 DEF OpeningInv
    <3>3. OpenInv(q)'
      BY <1>1, <2>0, <3>1 DEF OpenInv
    <3> QED BY <3>2, <3>3
  <2> QED BY <2>1, <2>2
<1>20. InOrder' = InOrder
  BY <1>1 DEF InOrder, IsSegment
<1>21. ASSUME NEW t \in Scans PROVE ScanInv(t)' /\ GotInv(t)'
  <2>0. ScanInv(t) /\ GotInv(t) /\ using[t] \in Readers /\ t \in Readers
    BY NotBound DEF SourceInv, ScansInv, SourceType
  <2>1. CASE t = s
    <3>1. using'[t] = u /\ scan'[t] = "reading" /\ reader'[using'[t]] = x
      BY <1>1, <1>16, <2>1 DEF u
    <3>2. ScanInv(t)'
      BY <1>13, <3>1 DEF ScanInv
    <3>3. Follows(more, x)
      BY <1>8, <1>9, <1>13 DEF Follows
    <3>4. GotInv(t)'
      BY <1>1, <1>13, <1>16, <1>20, <2>1, <3>1, <3>3 DEF GotInv, Follows
    <3> QED BY <3>2, <3>4
  <2>2. CASE t # s
    <3>1. using[t] # u
      BY <2>2, NotBound DEF SourceInv, UsingInv, u
    <3>2. reader'[using[t]] = reader[using[t]] /\ got'[t] = got[t]
      BY <1>16, <2>0, <2>2, <3>1
    <3>3. scan[t] \in {"new", "opening"} => reader'[t] = reader[t]
      BY <2>0, <3>2 DEF ScanInv
    <3>4. ScanInv(t)'
      BY <1>1, <2>0, <3>2, <3>3 DEF ScanInv, Finished
    <3>5. GotInv(t)'
      BY <1>1, <1>20, <2>0, <3>2 DEF GotInv, Follows
    <3> QED BY <3>4, <3>5
  <2> QED BY <2>1, <2>2
<1> QED BY <1>17, <1>18, <1>19, <1>21 DEF SourceInv, ReadersInv, ScansInv

LEMMA SourceStutters ==
  ASSUME SourceInv, UNCHANGED sourceVars
  PROVE  SourceInv'
<1>1. \A s \in Scans : Wanted(s)' = Wanted(s) /\ Items(s)' = Items(s)
  BY DEF sourceVars, Items, Known, Wanted
<1>2. \A q \in Readers : Requested(q)' = Requested(q)
  BY DEF sourceVars, Requested
<1>3. InOrder' = InOrder
  BY DEF sourceVars, InOrder, IsSegment
<1>4. SourceType'
  BY <1>1 DEF SourceInv, SourceType, sourceVars
<1>5. UsingInv'
  BY <1>1 DEF SourceInv, UsingInv, sourceVars
<1>6. ReadersInv'
  BY <1>2 DEF SourceInv, ReadersInv, OpeningInv, OpenInv, sourceVars
<1>7. ScansInv'
  BY <1>3 DEF SourceInv, ScansInv, ScanInv, GotInv, Finished, Follows, sourceVars
<1> QED BY <1>4, <1>5, <1>6, <1>7 DEF SourceInv

LEMMA SourceStep ==
  ASSUME ContentsListed, SourceInv, [SourceNext]_sourceVars
  PROVE  SourceInv'
<1>1. ASSUME NEW r \in Readers,
             \/ OpenFails(r) \/ ListShards(r) \/ FootersLoaded(r) \/ OpenWarc(r) \/ OpenAtif(r)
             \/ \E i \in DOMAIN reader[r].objects : FetchFooter(r, i)
      PROVE  SourceInv'
  BY <1>1, OpenFailsStep, ListShardsStep, FootersLoadedStep, OpenWarcStep, OpenAtifStep,
     FetchFooterStep
<1>2. ASSUME NEW s \in Scans, NEW columns \in Requests, UnknownColumn(s, columns)
      PROVE  SourceInv'
  <2>1. Leaves(s, "failed") /\ SetScan(s, "failed")
        /\ UNCHANGED <<source, bound, request, using, reader, got>>
    BY <1>2 DEF UnknownColumn, Leaves
  <2> QED BY <2>1, ScanLeaves
<1>3. ASSUME NEW s \in Scans, EndScan(s) PROVE SourceInv'
  <2>1. Leaves(s, "ended") /\ SetScan(s, "ended")
        /\ UNCHANGED <<source, bound, request, using, reader, got>>
    BY <1>3 DEF EndScan, Leaves
  <2> QED BY <2>1, ScanLeaves
<1>4. ASSUME NEW s \in Scans, ScanFails(s) PROVE SourceInv'
  <2>1. Leaves(s, "failed") /\ SetScan(s, "failed")
        /\ UNCHANGED <<source, bound, request, using, reader, got>>
    BY <1>4 DEF ScanFails, Leaves
  <2> QED BY <2>1, ScanLeaves
<1>5. ASSUME NEW s \in Scans, ReleaseStream(s) PROVE SourceInv'
  <2>1. Leaves(s, "released") /\ SetScan(s, "released")
        /\ UNCHANGED <<source, bound, request, using, reader, got>>
    BY <1>5 DEF ReleaseStream, Leaves
  <2> QED BY <2>1, ScanLeaves
<1>6. ASSUME NEW s \in Scans,
             \/ \E columns \in Requests : UnknownColumn(s, columns) \/ GetStream(s, columns)
             \/ NextBatch(s) \/ EndScan(s) \/ ScanFails(s) \/ ReleaseStream(s)
      PROVE  SourceInv'
  BY <1>2, <1>3, <1>4, <1>5, <1>6, GetStreamStep, NextBatchStep
<1> QED BY <1>1, <1>6, SourceStutters DEF SourceNext

\* Where Contents is what is listed of each source: every scan gets all of it, in
\* the columns it asked for, the batches of one row group or file in order, and
\* those of all of them where the order is kept (ffi.rs, open_reader;
\* huggingface.rs; parquet.rs; warc.rs; atif.rs).
THEOREM SourceScanDelivers ==
  ASSUME ContentsListed
  PROVE  SourceSpec => []ScanDelivers
<1>1. SourceInit => SourceInv
  BY SourceStart
<1>2. SourceInv /\ [SourceNext]_sourceVars => SourceInv'
  BY SourceStep
<1>3. SourceInv => ScanDelivers
  BY SourceDelivers
<1> QED BY <1>1, <1>2, <1>3, PTL DEF SourceSpec
=============================================================================
