------------------------------ MODULE WarcIndex -----------------------------
(***************************************************************************)
(* parse_warc_index and build_index_work_units (rust/src/source/           *)
(* warc_index.rs): the entries of an index become the ranges of the        *)
(* archive that WarcRecords reads as inputs, in archive order.             *)
(***************************************************************************)
EXTENDS Naturals, Sequences, FiniteSets, Functions

CONSTANTS
  Offsets, Lengths,   \* what the lines of an index may say
  MaxU64,             \* u64::MAX
  Parallelisms,       \* the values of max_read_parallelism
  MaxEntries          \* bound: how many lines an index has

ASSUME IndexAssumption ==
  /\ Offsets \subseteq Nat /\ Lengths \subseteq Nat
  /\ MaxU64 \in Nat /\ MaxEntries \in Nat
  /\ Parallelisms \subseteq Nat \ {0}

VARIABLES
  parallelism,
  status,    \* "parsing", "summing", "sorting", "coalescing", "done" or an error
  entries,   \* the entries of the source file
  total,     \* total_length
  target,    \* target_length
  next,      \* the entry a loop is at
  units      \* the work units so far

indexVars == <<parallelism, status, entries, total, target, next, units>>

\* A Range<u64> that is not empty, and the bytes in it.
Ranges   == {r \in [start : Nat, end : Nat] : r.start < r.end}
Bytes(r) == r.start .. (r.end - 1)

IndexInit ==
  /\ parallelism \in Parallelisms
  /\ status = "parsing"
  /\ entries = <<>> /\ total = 0 /\ target = 0 /\ next = 1 /\ units = <<>>
-----------------------------------------------------------------------------
(***************************************************************************)
(* parse_warc_index.  Comments and the entries of other files leave no     *)
(* trace.                                                                  *)
(***************************************************************************)
NeverEmpty(length) == FALSE                     \* mutant: an empty range is accepted
Empty(length)      == length = 0

ParseEntry(offset, length) ==
  /\ status = "parsing" /\ Len(entries) < MaxEntries
  /\ \/ Empty(length) /\ status' = "zero length" /\ UNCHANGED entries
     \/ ~Empty(length) /\ offset + length > MaxU64
        /\ status' = "entry overflows" /\ UNCHANGED entries
     \/ /\ ~Empty(length) /\ offset + length <= MaxU64
        /\ entries' = Append(entries, [start |-> offset, end |-> offset + length])
        /\ UNCHANGED status
  /\ UNCHANGED <<parallelism, total, target, next, units>>

MalformedLine ==
  /\ status = "parsing"
  /\ status' = "malformed"
  /\ UNCHANGED <<parallelism, entries, total, target, next, units>>

EndOfIndex ==
  /\ status = "parsing"
  /\ status' = (IF entries = <<>> THEN "no entries" ELSE "summing")
  /\ UNCHANGED <<parallelism, entries, total, target, next, units>>
-----------------------------------------------------------------------------
(***************************************************************************)
(* build_index_work_units.                                                 *)
(***************************************************************************)
AddLength ==
  /\ status = "summing" /\ next <= Len(entries)
  /\ LET sum == total + (entries[next].end - entries[next].start) IN
       IF sum > MaxU64
       THEN status' = "total overflows" /\ UNCHANGED <<total, next>>
       ELSE total' = sum /\ next' = next + 1 /\ UNCHANGED status
  /\ UNCHANGED <<parallelism, entries, target, units>>

RoundDown(sum, parts) == sum \div parts         \* mutant
DivCeil(sum, parts)   == (sum + parts - 1) \div parts

SetTarget ==
  /\ status = "summing" /\ next > Len(entries)
  /\ target' = DivCeil(total, parallelism)
  /\ next' = 1
  /\ status' = "sorting"
  /\ UNCHANGED <<parallelism, entries, total, units>>

\* sort_unstable_by_key: entries with the same start stay in any order.
InAnyOrder(list) == TRUE                        \* mutant: the index is not sorted
Sorted(list) ==
  \A i, j \in DOMAIN list : i < j => list[i].start <= list[j].start

Sort ==
  /\ status = "sorting"
  /\ \E order \in Bijection(DOMAIN entries, DOMAIN entries) :
       LET list == [i \in 1 .. Len(entries) |-> entries[order[i]]] IN
         Sorted(list) /\ entries' = list
  /\ status' = "coalescing"
  /\ UNCHANGED <<parallelism, total, target, next, units>>

LastUnit == units[Len(units)]

AcrossGaps(entry) ==                            \* mutant: a gap is read too
  units # <<>> /\ LastUnit.end - LastUnit.start < target
Joins(entry) ==
  /\ units # <<>>
  /\ entry.start = LastUnit.end
  /\ LastUnit.end - LastUnit.start < target

Overlaps(entry) == units # <<>> /\ entry.start < LastUnit.end

Coalesce ==
  /\ status = "coalescing" /\ next <= Len(entries)
  /\ LET entry == entries[next] IN
       IF Overlaps(entry)
       THEN status' = "overlap" /\ UNCHANGED <<next, units>>
       ELSE /\ next' = next + 1
            /\ units' = IF Joins(entry)
                        THEN [units EXCEPT ![Len(units)] =
                                [start |-> LastUnit.start, end |-> entry.end]]
                        ELSE Append(units, entry)
            /\ UNCHANGED status
  /\ UNCHANGED <<parallelism, entries, total, target>>

Return ==
  /\ status = "coalescing" /\ next > Len(entries)
  /\ status' = "done"
  /\ UNCHANGED <<parallelism, entries, total, target, next, units>>

IndexNext ==
  \/ \E offset \in Offsets, length \in Lengths : ParseEntry(offset, length)
  \/ MalformedLine \/ EndOfIndex \/ AddLength \/ SetTarget \/ Sort \/ Coalesce \/ Return

IndexSpec == IndexInit /\ [][IndexNext]_indexVars
-----------------------------------------------------------------------------
IndexTypeOK ==
  /\ parallelism \in Parallelisms
  /\ status \in {"parsing", "summing", "sorting", "coalescing", "done", "zero length", "malformed",
                 "entry overflows", "no entries", "total overflows", "overlap"}
  /\ entries \in Seq(Ranges) /\ units \in Seq(Ranges)
  /\ total \in 0 .. MaxU64 /\ target \in Nat
  /\ next \in 1 .. (Len(entries) + 1)

Covered(list, n) == UNION {Bytes(list[i]) : i \in 1 .. n}

\* The work units are in archive order, do not overlap and hold exactly the
\* indexed bytes: no record is skipped, read twice or read out of order, and
\* no byte of a gap is parsed as a record.
UnitsCover ==
  status = "done" =>
    /\ Covered(units, Len(units)) = Covered(entries, Len(entries))
    /\ \A i, j \in DOMAIN units : i < j => units[i].end <= units[j].start

\* An index is rejected for overlapping entries, or for a total beyond u64,
\* only if two of its entries do overlap, and is never accepted if they do.
Overlap ==
  \E i, j \in DOMAIN entries : i # j /\ Bytes(entries[i]) \cap Bytes(entries[j]) # {}
OverlapsRejected ==
  /\ status \in {"overlap", "total overflows"} => Overlap
  /\ status = "done" => ~Overlap

\* The balance the doc of build_index_work_units promises: a unit is below the
\* target without its last entry, and only a gap adds a unit to the
\* max_read_parallelism ones.
Runs == {r \in Range(entries) : \A e \in Range(entries) : e.end # r.start}
UnitsBalanced ==
  status = "done" =>
    /\ \A unit \in Range(units) : \E e \in Range(entries) :
         e.end = unit.end /\ (e.start > unit.start => e.start - unit.start < target)
    /\ Len(units) <= parallelism + Cardinality(Runs) - 1
=============================================================================
