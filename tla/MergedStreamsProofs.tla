------------------------- MODULE MergedStreamsProofs ------------------------
(***************************************************************************)
(* Lemmas about MergedStreams that the proofs of the sources rest on: the  *)
(* invariant of the merge, and that each of its steps preserves it.        *)
(***************************************************************************)
EXTENDS MergedStreams, FoldLemmas

\* The parts whose batches the consumer has begun to receive, when the order
\* is preserved: those that have left the queue.
Begun == pulled - Len(waiting)

\* The order preserved, the queue holds the last parts pulled, in source
\* order, and the part before them is the only one that may be flattened.
Ordered ==
  /\ waiting \in Seq(Streams) /\ Begun \in 0 .. pulled
  /\ \A i \in 1 .. Len(waiting) : waiting[i] = Begun + i
  /\ Len(waiting) <= Parallelism
  /\ merging # {} => merging = {Begun} /\ Len(waiting) < Parallelism

Unordered == waiting = <<>> /\ Cardinality(merging) <= Parallelism

OutputInv ==
  /\ \E B : output \in Seq(Streams \X B)
  /\ \A i \in DOMAIN output : output[i][1] \in 1 .. pulled
  /\ preserve => \A i \in DOMAIN output : output[i][1] <= Begun
  /\ preserve => \A i, j \in DOMAIN output : i < j => output[i][1] <= output[j][1]

MergeInv ==
  /\ MergeTypeOK
  /\ merging \subseteq 1 .. pulled
  /\ IF preserve THEN Ordered ELSE Unordered
  /\ OutputInv
  /\ consumer = "ended" => merging = {} /\ waiting = <<>> /\ pulled = NumStreams

MergeAct ==
  \/ \E s \in Streams : \/ Pull(s) \/ Advance(s) \/ Fail(s) \/ Exhaust(s)
                        \/ \E batch : Emit(s, batch)
  \/ Poll \/ End \/ Release
  \/ UNCHANGED mergeVars

LEMMA MergingFinite ==
  ASSUME MergeInv
  PROVE  /\ IsFiniteSet(merging) /\ Cardinality(merging) \in Nat
         /\ IsFiniteSet(Range(waiting)) /\ IsFiniteSet(InFlight)
<1>1. IsFiniteSet(Streams)
  BY MergeAssumption, FS_Interval DEF Streams
<1>2. merging \in SUBSET Streams /\ Range(waiting) \in SUBSET Streams
  BY DEF MergeInv, MergeTypeOK, Range
<1> QED BY <1>1, <1>2, FS_Subset, FS_CardinalityType, FS_Union DEF InFlight

\* At most Parallelism parts are in flight.
LEMMA MergeBounded ==
  ASSUME MergeInv
  PROVE  Cardinality(InFlight) <= Parallelism
<1> USE MergeAssumption DEF MergeInv, MergeTypeOK
<1>1. CASE ~preserve
  <2>1. InFlight = merging
    BY <1>1 DEF InFlight, Unordered, Range
  <2> QED BY <1>1, <2>1 DEF Unordered
<1>2. CASE preserve
  <2>1. Begun \in Nat /\ Len(waiting) \in Nat /\ Begun + Len(waiting) = pulled
    BY <1>2 DEF Ordered, Begun
  <2>2. Range(waiting) = (Begun + 1) .. pulled
    <3>1. \A i \in 1 .. Len(waiting) : waiting[i] = Begun + i
      BY <1>2 DEF Ordered
    <3>2. DOMAIN waiting = 1 .. Len(waiting)
      OBVIOUS
    <3>3. ASSUME NEW s \in (Begun + 1) .. pulled PROVE s \in Range(waiting)
      <4>1. s - Begun \in 1 .. Len(waiting) /\ waiting[s - Begun] = s
        BY <2>1, <3>1
      <4> QED BY <3>2, <4>1 DEF Range
    <3>4. ASSUME NEW s \in Range(waiting) PROVE s \in (Begun + 1) .. pulled
      BY <2>1, <3>1, <3>2 DEF Range
    <3> QED BY <3>3, <3>4
  <2>3. CASE merging = {}
    <3>1. InFlight = (Begun + 1) .. pulled
      BY <2>2, <2>3 DEF InFlight
    <3>2. Cardinality((Begun + 1) .. pulled) = Len(waiting)
      <4>1. Begun + 1 \in Int /\ pulled \in Int /\ (Begun + 1 > pulled => Len(waiting) = 0)
            /\ pulled - (Begun + 1) + 1 = Len(waiting)
        BY <2>1
      <4> HIDE DEF MergeInv, MergeTypeOK
      <4> QED BY <4>1, FS_Interval
    <3> QED BY <1>2, <3>1, <3>2 DEF Ordered
  <2>4. CASE merging # {}
    <3>1. merging = {Begun} /\ Len(waiting) < Parallelism
      BY <1>2, <2>4 DEF Ordered
    <3>2. InFlight = Begun .. pulled
      BY <2>1, <2>2, <3>1 DEF InFlight
    <3>3. Cardinality(Begun .. pulled) = pulled - Begun + 1
      BY <2>1, FS_Interval
    <3> QED BY <2>1, <3>1, <3>2, <3>3
  <2> QED BY <2>3, <2>4
<1> QED BY <1>1, <1>2
-----------------------------------------------------------------------------
LEMMA PullStep ==
  ASSUME MergeInv, NEW s \in Streams, Pull(s)
  PROVE  MergeInv'
<1> USE MergeAssumption DEF MergeInv, MergeTypeOK
<1>1. /\ consumer = "polling" /\ pulled < NumStreams /\ s = pulled + 1 /\ pulled' = s
      /\ UNCHANGED <<preserve, consumer, output>>
  BY DEF Pull
<1>2. CASE preserve
  <2>1. /\ merging = {} /\ Len(waiting) < Parallelism
        /\ waiting' = Append(waiting, s) /\ merging' = {}
    BY <1>2 DEF Pull, Room
  <2>2. Begun \in Nat /\ Begun <= pulled
    BY <1>2 DEF Ordered
  <2>3. /\ waiting' \in Seq(Streams) /\ Len(waiting') = Len(waiting) + 1
        /\ \A i \in 1 .. Len(waiting) : waiting'[i] = waiting[i]
        /\ waiting'[Len(waiting) + 1] = s
    BY <2>1
  <2>4. Begun' = Begun
    BY <1>1, <2>3 DEF Begun
  <2>5. \A i \in 1 .. Len(waiting') : waiting'[i] = Begun + i
    <3>1. s = Begun + (Len(waiting) + 1)
      BY <1>1 DEF Begun
    <3>2. \A i \in 1 .. Len(waiting) : waiting[i] = Begun + i
      BY <1>2 DEF Ordered
    <3> QED BY <2>3, <3>1, <3>2
  <2>6. Ordered'
    BY <1>1, <2>1, <2>2, <2>3, <2>4, <2>5 DEF Ordered
  <2>7. OutputInv'
    BY <1>1, <2>4 DEF OutputInv
  <2> QED BY <1>1, <1>2, <2>1, <2>3, <2>6, <2>7
<1>3. CASE ~preserve
  <2>1. Cardinality(merging) < Parallelism /\ merging' = merging \cup {s} /\ waiting' = waiting
    BY <1>3 DEF Pull, Room
  <2>2. Cardinality(merging') <= Parallelism
    <3>1. Cardinality(merging \cup {s})
            = IF s \in merging THEN Cardinality(merging) ELSE Cardinality(merging) + 1
      <4> HIDE DEF MergeInv, MergeTypeOK
      <4> QED BY MergingFinite, FS_AddElement
    <3> QED BY <2>1, <3>1, MergingFinite
  <2>3. Unordered'
    BY <1>3, <2>1, <2>2 DEF Unordered
  <2>4. OutputInv'
    BY <1>1, <1>3 DEF OutputInv
  <2> QED BY <1>1, <1>3, <2>1, <2>3, <2>4
<1> QED BY <1>2, <1>3

LEMMA AdvanceStep ==
  ASSUME MergeInv, NEW s \in Streams, Advance(s)
  PROVE  /\ MergeInv' /\ s = Head(waiting) /\ waiting # <<>> /\ waiting' = Tail(waiting)
         /\ InFlight' = InFlight
<1> USE MergeAssumption DEF MergeInv, MergeTypeOK
<1>1. /\ consumer = "polling" /\ preserve /\ merging = {} /\ merging' = {s}
      /\ UNCHANGED <<preserve, pulled, consumer, output>>
  BY DEF Advance
<1>2. 1 \in DOMAIN waiting /\ s = waiting[1] /\ waiting' = RemoveAt(waiting, 1)
  BY DEF Advance, Turn
<1>3. waiting # <<>> /\ Len(waiting) \in Nat \ {0} /\ DOMAIN waiting = 1 .. Len(waiting)
  BY <1>2
<1>4. /\ waiting' \in Seq(Streams) /\ Len(waiting') = Len(waiting) - 1
      /\ \A i \in 1 .. Len(waiting) - 1 : waiting'[i] = waiting[i + 1]
  BY <1>2, <1>3 DEF RemoveAt
<1>5. waiting' = Tail(waiting) /\ s = Head(waiting)
  BY <1>2, <1>3, <1>4
<1>6. Begun \in Nat /\ Begun' = Begun + 1 /\ s = Begun + 1
  <2>1. Begun \in Nat /\ waiting[1] = Begun + 1
    BY <1>1, <1>3 DEF Ordered
  <2>2. Begun' = Begun + 1
    BY <1>1, <1>3, <1>4 DEF Begun
  <2> QED BY <1>2, <2>1, <2>2
<1>7. Ordered'
  <2>1. \A i \in 1 .. Len(waiting') : waiting'[i] = Begun' + i
    BY <1>1, <1>3, <1>4, <1>6 DEF Ordered
  <2>2. Begun' \in 0 .. pulled'
    BY <1>1, <1>3, <1>4, <1>6 DEF Begun
  <2> QED BY <1>1, <1>3, <1>4, <1>6, <2>1, <2>2 DEF Ordered
<1>8. OutputInv'
  <2>1. \A i \in DOMAIN output : output[i][1] <= Begun /\ output[i][1] \in 1 .. pulled
    BY <1>1 DEF OutputInv
  <2>2. \A i \in DOMAIN output : output[i][1] <= Begun'
    BY <1>6, <2>1
  <2> QED BY <1>1, <2>2 DEF OutputInv
<1>9. s \in 1 .. pulled
  BY <1>3, <1>6 DEF Begun
<1>10. InFlight' = InFlight
  <2>1. Range(waiting) = {s} \cup Range(waiting')
    <3>1. DOMAIN waiting' = 1 .. (Len(waiting) - 1)
      BY <1>4
    <3>2. \A i \in DOMAIN waiting \ {1} : i - 1 \in DOMAIN waiting' /\ waiting[i] = waiting'[i - 1]
      BY <1>3, <1>4, <3>1
    <3>3. \A i \in DOMAIN waiting' : i + 1 \in DOMAIN waiting /\ waiting'[i] = waiting[i + 1]
      BY <1>3, <1>4, <3>1
    <3> QED BY <1>2, <3>2, <3>3 DEF Range
  <2> QED BY <1>1, <2>1 DEF InFlight
<1> QED BY <1>1, <1>3, <1>4, <1>5, <1>7, <1>8, <1>9, <1>10

LEMMA EmitStep ==
  ASSUME MergeInv, NEW s \in Streams, NEW batch, Emit(s, batch)
  PROVE  MergeInv'
<1> USE MergeAssumption DEF MergeInv, MergeTypeOK
<1>1. /\ consumer = "polling" /\ s \in merging /\ output' = Append(output, <<s, batch>>)
      /\ consumer' = "idle" /\ UNCHANGED <<preserve, pulled, waiting, merging>>
  BY DEF Emit
<1>2. PICK B : output \in Seq(Streams \X B)
  BY DEF OutputInv
<1>3. /\ output \in Seq(Streams \X (B \cup {batch}))
      /\ <<s, batch>> \in Streams \X (B \cup {batch})
  BY <1>2
<1>4. /\ output' \in Seq(Streams \X (B \cup {batch}))
      /\ DOMAIN output' = DOMAIN output \cup {Len(output) + 1}
      /\ \A i \in DOMAIN output : output'[i] = output[i] /\ i <= Len(output) /\ i \in Nat
      /\ output'[Len(output) + 1] = <<s, batch>> /\ Len(output) \in Nat
  BY <1>1, <1>3
<1>5. s \in 1 .. pulled /\ (preserve => s = Begun)
  BY <1>1 DEF Ordered
<1>6. Begun' = Begun /\ (Ordered => Ordered') /\ (Unordered => Unordered')
  BY <1>1 DEF Begun, Ordered, Unordered
<1>7. \A i \in DOMAIN output' : output'[i][1] \in 1 .. pulled
  BY <1>4, <1>5 DEF OutputInv
<1>8. ASSUME preserve
      PROVE  /\ \A i \in DOMAIN output' : output'[i][1] <= s
             /\ \A i, j \in DOMAIN output' : i < j => output'[i][1] <= output'[j][1]
  <2>1. \A i \in DOMAIN output : output[i][1] <= s
    BY <1>5, <1>8 DEF OutputInv
  <2>2. \A i, j \in DOMAIN output : i < j => output[i][1] <= output[j][1]
    BY <1>8 DEF OutputInv
  <2>3. \A i \in DOMAIN output' : output'[i][1] <= s
    BY <1>4, <1>5, <2>1
  <2>4. ASSUME NEW i \in DOMAIN output', NEW j \in DOMAIN output', i < j
        PROVE  output'[i][1] <= output'[j][1]
    <3>1. CASE j = Len(output) + 1
      BY <1>4, <2>3, <3>1
    <3>2. CASE j \in DOMAIN output
      <4>1. i \in DOMAIN output
        BY <1>4, <2>4, <3>2
      <4> QED BY <1>4, <2>2, <2>4, <3>2, <4>1
    <3> QED BY <1>4, <3>1, <3>2
  <2> QED BY <2>3, <2>4
<1>9. OutputInv'
  BY <1>1, <1>4, <1>5, <1>6, <1>7, <1>8 DEF OutputInv
<1> QED BY <1>1, <1>6, <1>9

LEMMA ExhaustStep ==
  ASSUME MergeInv, NEW s \in Streams, Exhaust(s)
  PROVE  MergeInv'
<1> USE MergeAssumption DEF MergeInv, MergeTypeOK
<1>1. /\ consumer = "polling" /\ s \in merging /\ merging' = merging \ {s}
      /\ UNCHANGED <<preserve, pulled, waiting, consumer, output>>
  BY DEF Exhaust
<1>2. CASE preserve
  <2>1. merging' = {} /\ Begun' = Begun
    BY <1>1, <1>2 DEF Ordered, Begun
  <2> QED BY <1>1, <1>2, <2>1 DEF Ordered, OutputInv
<1>3. CASE ~preserve
  <2>1. Cardinality(merging') = Cardinality(merging) - 1
    <3> HIDE DEF MergeInv, MergeTypeOK
    <3> QED BY <1>1, MergingFinite, FS_RemoveElement
  <2>2. Cardinality(merging') <= Parallelism
    BY <1>3, <2>1, MergingFinite DEF Unordered
  <2> QED BY <1>1, <1>3, <2>2 DEF Unordered, OutputInv
<1> QED BY <1>2, <1>3

\* The steps that only move the consumer.
LEMMA ConsumerStep ==
  ASSUME MergeInv, UNCHANGED <<preserve, pulled, waiting, merging, output>>,
         consumer' \in {"idle", "polling", "ended", "failed", "dropped"},
         consumer' = "ended" => merging = {} /\ waiting = <<>> /\ pulled = NumStreams
  PROVE  MergeInv'
BY DEF MergeInv, MergeTypeOK, Ordered, Unordered, OutputInv, Begun

LEMMA MergeStepInv ==
  ASSUME MergeInv, MergeAct
  PROVE  MergeInv'
<1>1. ASSUME NEW s \in Streams, Fail(s) PROVE MergeInv'
  BY <1>1, ConsumerStep DEF Fail
<1>2. CASE Poll
  BY <1>2, ConsumerStep DEF Poll
<1>3. CASE End
  BY <1>3, ConsumerStep DEF End
<1>4. CASE Release
  BY <1>4, ConsumerStep DEF Release
<1>5. CASE UNCHANGED mergeVars
  BY <1>5, ConsumerStep DEF mergeVars, MergeInv, MergeTypeOK
<1> QED
  BY <1>1, <1>2, <1>3, <1>4, <1>5, PullStep, AdvanceStep, EmitStep, ExhaustStep DEF MergeAct

-----------------------------------------------------------------------------
(***************************************************************************)
(* Which parts are in flight, and what was received, after a step.         *)
(***************************************************************************)
LEMMA RangeOfAppend ==
  ASSUME NEW S, NEW q \in Seq(S), NEW e
  PROVE  Range(Append(q, e)) = Range(q) \cup {e}
<1>1. /\ DOMAIN Append(q, e) = DOMAIN q \cup {Len(q) + 1} /\ DOMAIN q = 1 .. Len(q)
      /\ \A i \in DOMAIN q : Append(q, e)[i] = q[i]
      /\ Append(q, e)[Len(q) + 1] = e
  <2>1. q \in Seq(S \cup {e}) /\ e \in S \cup {e}
    OBVIOUS
  <2> QED BY <2>1
<1> QED BY <1>1 DEF Range

\* Only parts that were pulled are in flight.
LEMMA InFlightPulled ==
  ASSUME MergeInv
  PROVE  \A s \in InFlight : s \in Streams /\ s <= pulled
<1>1. /\ merging \subseteq 1 .. pulled /\ merging \subseteq Streams
      /\ waiting \in Seq(Streams) /\ pulled \in Nat
  BY DEF MergeInv, MergeTypeOK
<1>2. ASSUME NEW s \in Range(waiting) PROVE s \in Streams /\ s <= pulled
  <2>1. PICK i \in 1 .. Len(waiting) : waiting[i] = s
    BY <1>1 DEF Range
  <2>2. s \in Streams
    BY <1>1, <2>1
  <2>3. CASE preserve
    <3>1. s = Begun + i
      BY <2>1, <2>3 DEF MergeInv, Ordered
    <3>2. Begun + Len(waiting) = pulled /\ Begun \in Nat /\ Len(waiting) \in Nat
      BY <1>1, <2>3 DEF Begun, MergeInv, Ordered
    <3> QED BY <2>1, <2>2, <3>1, <3>2
  <2>4. CASE ~preserve
    <3>1. waiting = <<>>
      BY <2>4 DEF MergeInv, Unordered
    <3> QED BY <2>1, <3>1
  <2> QED BY <2>3, <2>4
<1> QED BY <1>1, <1>2 DEF InFlight

LEMMA PullInFlight ==
  ASSUME MergeInv, NEW s \in Streams, Pull(s)
  PROVE  /\ InFlight' = InFlight \cup {s} /\ s = pulled + 1 /\ pulled' = s /\ s \notin InFlight
         /\ consumer = "polling" /\ UNCHANGED <<preserve, consumer, output>>
<1>1. waiting \in Seq(Streams)
  BY DEF MergeInv, MergeTypeOK
<1>2. Range(Append(waiting, s)) = Range(waiting) \cup {s}
  BY <1>1, RangeOfAppend
<1>3. s = pulled + 1 /\ pulled' = s /\ consumer = "polling"
  BY DEF Pull
<1>4. s \notin InFlight
  <2>1. pulled \in Nat /\ \A r \in InFlight : r <= pulled
    BY InFlightPulled DEF MergeInv, MergeTypeOK
  <2> QED BY <1>3, <2>1
<1> QED BY <1>2, <1>3, <1>4 DEF Pull, InFlight

LEMMA ExhaustInFlight ==
  ASSUME MergeInv, NEW s \in Streams, Exhaust(s)
  PROVE  /\ InFlight' = InFlight \ {s} /\ s \in InFlight /\ s \in 1 .. pulled
         /\ consumer = "polling" /\ UNCHANGED <<preserve, pulled, consumer, output>>
<1>1. s \in merging /\ merging' = merging \ {s} /\ waiting' = waiting
  BY DEF Exhaust
<1>2. s \notin Range(waiting)
  <2>1. CASE preserve
    <3>1. s = Begun /\ Begun \in Nat /\ waiting \in Seq(Streams)
          /\ \A i \in 1 .. Len(waiting) : waiting[i] = Begun + i
      BY <1>1, <2>1 DEF MergeInv, MergeTypeOK, Ordered
    <3> QED BY <3>1 DEF Range
  <2>2. CASE ~preserve
    BY <2>2 DEF MergeInv, Unordered, Range
  <2> QED BY <2>1, <2>2
<1>3. s \in 1 .. pulled
  BY <1>1 DEF MergeInv
<1> QED BY <1>1, <1>2, <1>3 DEF InFlight, Exhaust

LEMMA EmitOutput ==
  ASSUME MergeInv, NEW s \in Streams, NEW batch, Emit(s, batch)
  PROVE  /\ Range(output') = Range(output) \cup {<<s, batch>>}
         /\ InFlight' = InFlight /\ s \in InFlight /\ s \in 1 .. pulled
         /\ consumer = "polling" /\ consumer' = "idle" /\ UNCHANGED <<preserve, pulled>>
<1>1. PICK B : output \in Seq(Streams \X B)
  BY DEF MergeInv, OutputInv
<1>2. Range(output') = Range(output) \cup {<<s, batch>>}
  BY <1>1, RangeOfAppend DEF Emit
<1> QED BY <1>2 DEF Emit, InFlight, MergeInv


LEMMA MergeStart ==
  ASSUME MergeInit
  PROVE  MergeInv
<1>1. /\ preserve \in BOOLEAN /\ pulled = 0 /\ waiting = <<>> /\ merging = {}
      /\ consumer = "idle" /\ output = <<>>
  BY DEF MergeInit
<1>2. MergeTypeOK /\ Begun = 0
  <2>1. waiting \in Seq(Streams) /\ Len(waiting) = 0
    BY <1>1
  <2>2. Begun = 0
    <3>1. pulled = 0
      BY <1>1
    <3> QED BY <2>1, <3>1 DEF Begun
  <2>3. pulled \in 0 .. NumStreams
    BY <1>1, MergeAssumption
  <2> QED BY <1>1, <2>1, <2>2, <2>3 DEF MergeTypeOK
<1>3. Ordered /\ Unordered
  BY <1>1, <1>2, MergeAssumption, FS_EmptySet DEF Ordered, Unordered
<1>4. OutputInv
  <2>1. output \in Seq(Streams \X {}) /\ DOMAIN output = {}
    BY <1>1
  <2> QED BY <2>1 DEF OutputInv
<1> QED BY <1>1, <1>2, <1>3, <1>4 DEF MergeInv
=============================================================================
