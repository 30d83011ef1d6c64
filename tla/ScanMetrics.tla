----------------------------- MODULE ScanMetrics ----------------------------
(***************************************************************************)
(* The read metrics of one scan: the counters its readers update           *)
(* (rust/src/source/metrics.rs, as a WARC segment uses them) and the       *)
(* deltas DuckDB's threads report of them (src/arrow_source_scan.cpp).     *)
(*                                                                         *)
(* The atomics are relaxed: a load may return an older value, but none     *)
(* older than the same thread has seen of that variable.                   *)
(***************************************************************************)
EXTENDS Naturals, FiniteSets, Functions, Folds

CONSTANTS
  Objects,      \* the files of the segment
  Sizes,        \* their sizes
  Threads,      \* the DuckDB threads of the scan
  MaxReports    \* bound: how often each of them reports

ASSUME MetricsAssumption ==
  /\ IsFiniteSet(Objects) /\ IsFiniteSet(Threads)
  /\ Sizes \in [Objects -> Nat]
  /\ MaxReports \in Nat

VARIABLES
  bytesRead, totalBytes,   \* the two counters
  opened,                  \* what the mutex guards: how many objects, of what size
  object,                  \* each object: "unopened", "adding" or "open"
  estimate,                \* the total its add_object computed
  received,                \* the bytes read of it
  reported,                \* reported_bytes
  thread,                  \* each thread: "idle", "loading", "comparing" or "tracking"
  current,                 \* its snapshot of bytes_read
  previous,                \* what it last saw of reported_bytes
  delta,                   \* what it has yet to tell the profiler
  reports,                 \* how often it reported
  tracked                  \* what the profiler was told in all

readerVars  == <<bytesRead, totalBytes, opened, object, estimate, received>>
threadVars  == <<reported, thread, current, previous, delta, reports, tracked>>
metricsVars == <<readerVars, threadVars>>

SumOver(f, set) == FoldFunctionOnSet(+, 0, f, set)

MetricsInit ==
  /\ bytesRead = 0 /\ totalBytes = 0
  /\ opened = [count |-> 0, size |-> 0]
  /\ object = [o \in Objects |-> "unopened"]
  /\ estimate = [o \in Objects |-> 0]
  /\ received = [o \in Objects |-> 0]
  /\ reported = 0 /\ tracked = 0
  /\ thread = [t \in Threads |-> "idle"]
  /\ current = [t \in Threads |-> 0]
  /\ previous = [t \in Threads |-> 0]
  /\ delta = [t \in Threads |-> 0]
  /\ reports = [t \in Threads |-> 0]
-----------------------------------------------------------------------------
(***************************************************************************)
(* The readers.                                                            *)
(***************************************************************************)
MeanFirst(size, count) == (size \div count) * Cardinality(Objects)    \* mutant
Estimate(size, count)  == (size * Cardinality(Objects)) \div count

\* The mutex is held until the estimate is stored.
Unlocked == TRUE                  \* mutant: it is stored after the unlock
LockFree == \A o \in Objects : object[o] # "adding"

AddObject(o) ==
  /\ object[o] = "unopened" /\ LockFree
  /\ opened' = [count |-> opened.count + 1, size |-> opened.size + Sizes[o]]
  /\ estimate' = [estimate EXCEPT ![o] = Estimate(opened'.size, opened'.count)]
  /\ object' = [object EXCEPT ![o] = "adding"]
  /\ UNCHANGED <<bytesRead, totalBytes, received, threadVars>>

SetTotalBytes(o) ==
  /\ object[o] = "adding"
  /\ totalBytes' = estimate[o]
  /\ object' = [object EXCEPT ![o] = "open"]
  /\ UNCHANGED <<bytesRead, opened, estimate, received, threadVars>>

AddBytesRead(o, bytes) ==
  /\ object[o] = "open" /\ received[o] + bytes <= Sizes[o]
  /\ received' = [received EXCEPT ![o] = @ + bytes]
  /\ bytesRead' = bytesRead + bytes
  /\ UNCHANGED <<totalBytes, opened, object, estimate, threadVars>>
-----------------------------------------------------------------------------
(***************************************************************************)
(* ReportBytes, after each batch and from get_metrics.  The rows reported  *)
(* go through the same TakeDelta.                                          *)
(***************************************************************************)
SetThread(t, state) == thread' = [thread EXCEPT ![t] = state]

Snapshot(t) ==
  /\ thread[t] = "idle" /\ reports[t] < MaxReports
  /\ \E value \in current[t] .. bytesRead : current' = [current EXCEPT ![t] = value]
  /\ reports' = [reports EXCEPT ![t] = @ + 1]
  /\ SetThread(t, "loading")
  /\ UNCHANGED <<readerVars, reported, previous, delta, tracked>>

\* What a load of reported_bytes may return.
SeeReported(t) ==
  \E value \in previous[t] .. reported : previous' = [previous EXCEPT ![t] = value]

Load(t) ==
  /\ thread[t] = "loading"
  /\ SeeReported(t)
  /\ SetThread(t, "comparing")
  /\ UNCHANGED <<readerVars, reported, current, delta, reports, tracked>>

Ahead(t) == current[t] > previous[t]

PlainStore(t) == TRUE             \* mutant: a store in place of the exchange
Unchanged(t)  == reported = previous[t]

Exchange(t) ==
  /\ thread[t] = "comparing" /\ Ahead(t) /\ Unchanged(t)
  /\ reported' = current[t]
  /\ delta' = [delta EXCEPT ![t] = current[t] - previous[t]]
  /\ previous' = [previous EXCEPT ![t] = current[t]]
  /\ SetThread(t, "tracking")
  /\ UNCHANGED <<readerVars, current, reports, tracked>>

\* compare_exchange_weak fails, perhaps for no reason, and loads again.
GiveUp == "idle"                  \* mutant: another thread will report it
Retry  == "comparing"

ExchangeFails(t) ==
  /\ thread[t] = "comparing" /\ Ahead(t)
  /\ SeeReported(t)
  /\ SetThread(t, Retry)
  /\ UNCHANGED <<readerVars, reported, current, delta, reports, tracked>>

NothingNew(t) ==
  /\ thread[t] = "comparing" /\ ~Ahead(t)
  /\ SetThread(t, "idle")
  /\ UNCHANGED <<readerVars, reported, current, previous, delta, reports, tracked>>

TrackBytesRead(t) ==
  /\ thread[t] = "tracking"
  /\ tracked' = tracked + delta[t]
  /\ delta' = [delta EXCEPT ![t] = 0]
  /\ SetThread(t, "idle")
  /\ UNCHANGED <<readerVars, reported, current, previous, reports>>

MetricsNext ==
  \/ \E o \in Objects :
       \/ AddObject(o) \/ SetTotalBytes(o)
       \/ \E bytes \in 1 .. Sizes[o] : AddBytesRead(o, bytes)
  \/ \E t \in Threads :
       \/ Snapshot(t) \/ Load(t) \/ Exchange(t) \/ ExchangeFails(t)
       \/ NothingNew(t) \/ TrackBytesRead(t)

MetricsSpec == MetricsInit /\ [][MetricsNext]_metricsVars
-----------------------------------------------------------------------------
\* A byte is reported once: what the profiler was told, with what some thread
\* is about to tell it, is reported_bytes, and no more than was read
\* (arrow_source_scan.cpp, TakeDelta).
ReportedOnce ==
  /\ tracked + SumOver(delta, Threads) = reported
  /\ reported <= bytesRead

\* No byte stays unreported: when a report returns, what its snapshot counted
\* has been reported, by that thread or by another.
NothingUnreported == \A t \in Threads : thread[t] = "idle" => reported >= current[t]

\* The estimate is exact once every object is opened, as the comment of
\* add_object says, in whatever order they were.
EstimateExact ==
  (\A o \in Objects : object[o] = "open") => totalBytes = SumOver(Sizes, Objects)

\* The estimate never falls below what has been read: the progress of a
\* segment stays within 100 percent without being cut there.
ProgressBounded == bytesRead <= totalBytes
=============================================================================
