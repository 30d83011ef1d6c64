----------------------------- MODULE WarcProofs -----------------------------
(***************************************************************************)
(* Theorems about the two modules of the WARC source, which share nothing  *)
(* but this one: WarcRecords, for every number and length of records and   *)
(* inputs, every limit of a batch and every parallelism, and, from         *)
(* Ascending on, WarcIndex, for every index, every max_read_parallelism    *)
(* and every integer width.                                                *)
(***************************************************************************)
EXTENDS WarcRecords, WarcIndex, MergedStreamsProofs, FiniteSetTheorems

ParserStates == {"none", "opening", "parsing", "sending", "sendingLast",
                 "failing", "ended", "panicked", "aborted"}
-----------------------------------------------------------------------------
(***************************************************************************)
(* The bodies of a batch, and what was delivered.                          *)
(***************************************************************************)
Records(s)           == 1 .. Len(Bodies[s])
BodiesOf(s, records) == [i \in DOMAIN records |-> Bodies[s][records[i]]]

LEMMA BodyFacts ==
  ASSUME NEW s \in Streams
  PROVE  /\ Bodies[s] \in Seq(Nat) /\ Len(Bodies[s]) \in Nat /\ s \in Nat \ {0}
         /\ \A r \in Records(s) : Bodies[s][r] \in Nat
<1>1. Bodies[s] \in Seq(Nat)
  BY WarcAssumption
<1>2. s \in Nat \ {0}
  BY MergeAssumption DEF Streams
<1> QED BY <1>1, <1>2 DEF Records

LEMMA BodySumIs ==
  \A s, records : BodySum(s, records) = Total(BodiesOf(s, records), DOMAIN records)
<1> TAKE s, records
<1>1. DOMAIN BodiesOf(s, records) = DOMAIN records
  BY DEF BodiesOf
<1> QED BY <1>1 DEF BodySum, BodiesOf, SumFunction, SumFunctionOnSet, Total

LEMMA BodySumEmpty == \A s : BodySum(s, <<>>) = 0
<1>1. DOMAIN <<>> = {}
  OBVIOUS
<1> QED BY <1>1, BodySumIs, TotalEmpty

LEMMA BodySumAppend ==
  ASSUME NEW s \in Streams, NEW q \in Seq(Records(s)), NEW r \in Records(s)
  PROVE  /\ BodySum(s, q) \in Int
         /\ BodySum(s, Append(q, r)) = BodySum(s, q) + Bodies[s][r]
<1> DEFINE n == Len(q)
           f == BodiesOf(s, q)
           h == BodiesOf(s, Append(q, r))
<1>1. n \in Nat /\ DOMAIN q = 1 .. n /\ DOMAIN Append(q, r) = 1 .. n + 1
  OBVIOUS
<1>2. \A i \in 1 .. n : f[i] = h[i]
  BY DEF BodiesOf
<1>3. h[n + 1] = Bodies[s][r]
  BY DEF BodiesOf
<1>4. \A i \in 1 .. n + 1 : h[i] \in Int
  <2>1. \A i \in 1 .. n + 1 : Append(q, r)[i] \in Records(s)
    OBVIOUS
  <2> QED BY <1>1, <2>1, BodyFacts DEF BodiesOf
<1>5. Total(f, 1 .. n) \in Int /\ Total(h, 1 .. n + 1) = Total(f, 1 .. n) + h[n + 1]
  <2> HIDE DEF f, h, n
  <2> QED BY <1>1, <1>2, <1>4, TotalAppend
<1> QED BY <1>1, <1>3, <1>5, BodySumIs

DeliveredOf(out, s) ==
  [i \in DOMAIN out |-> IF out[i][1] = s THEN out[i][2] ELSE <<>>]

LEMMA DeliveredIs == \A s : Delivered(s) = FlattenSeq(DeliveredOf(output, s))
  BY DEF Delivered, DeliveredOf

LEMMA DeliveredType ==
  ASSUME NEW out \in Seq(Streams \X Seq(Nat)), NEW s
  PROVE  DeliveredOf(out, s) \in Seq(Seq(Nat)) /\ FlattenSeq(DeliveredOf(out, s)) \in Seq(Nat)
<1>1. \A i \in 1 .. Len(out) : out[i][2] \in Seq(Nat)
  <2>1. \A i \in 1 .. Len(out) : out[i] \in Streams \X Seq(Nat)
    OBVIOUS
  <2> QED BY <2>1
<1>2. <<>> \in Seq(Nat)
  OBVIOUS
<1>3. /\ DOMAIN out = 1 .. Len(out) /\ Len(out) \in Nat
      /\ \A i \in 1 .. Len(out) : DeliveredOf(out, s)[i] \in Seq(Nat)
  BY <1>1, <1>2 DEF DeliveredOf
<1>4. DeliveredOf(out, s) \in Seq(Seq(Nat))
  BY <1>3 DEF DeliveredOf
<1> QED BY <1>2, <1>4, FlattenAppend

LEMMA DeliveredAppend ==
  ASSUME NEW out \in Seq(Streams \X Seq(Nat)), NEW s, NEW t \in Streams, NEW r \in Seq(Nat),
         NEW longer, longer = Append(out, <<t, r>>)
  PROVE  /\ t = s => FlattenSeq(DeliveredOf(longer, s)) = FlattenSeq(DeliveredOf(out, s)) \o r
         /\ t # s => FlattenSeq(DeliveredOf(longer, s)) = FlattenSeq(DeliveredOf(out, s))
<1> DEFINE item == <<t, r>>
           e == IF t = s THEN r ELSE <<>>
           q == DeliveredOf(out, s)
<1>1. item \in Streams \X Seq(Nat) /\ item[1] = t /\ item[2] = r
  OBVIOUS
<1>2. e \in Seq(Nat) /\ q \in Seq(Seq(Nat))
  <2>1. <<>> \in Seq(Nat)
    OBVIOUS
  <2> QED BY <2>1, DeliveredType
<1>3. DeliveredOf(Append(out, item), s) = Append(q, e)
  <2>1. /\ Append(out, item) \in Seq(Streams \X Seq(Nat)) /\ Len(out) \in Nat
        /\ DOMAIN Append(out, item) = 1 .. Len(out) + 1 /\ DOMAIN out = 1 .. Len(out)
        /\ \A i \in 1 .. Len(out) : Append(out, item)[i] = out[i]
        /\ Append(out, item)[Len(out) + 1] = item
    <3> HIDE DEF item
    <3> QED BY <1>1
  <2>2. /\ Len(q) = Len(out) /\ DOMAIN Append(q, e) = 1 .. Len(out) + 1
        /\ \A i \in 1 .. Len(out) : Append(q, e)[i] = q[i]
        /\ Append(q, e)[Len(out) + 1] = e
    <3>1. DOMAIN q = 1 .. Len(out)
      BY <2>1 DEF DeliveredOf
    <3> HIDE DEF q, e
    <3>2. Len(q) = Len(out)
      BY <1>2, <2>1, <3>1
    <3> QED BY <1>2, <3>2
  <2>3. \A i \in 1 .. Len(out) + 1 : DeliveredOf(Append(out, item), s)[i] = Append(q, e)[i]
    <3> TAKE i \in 1 .. Len(out) + 1
    <3>1. CASE i = Len(out) + 1
      <4>1. DeliveredOf(Append(out, item), s)[i] = e
        BY <1>1, <2>1, <3>1 DEF DeliveredOf
      <4> QED BY <2>2, <3>1, <4>1
    <3>2. CASE i # Len(out) + 1
      <4>1. i \in 1 .. Len(out)
        BY <2>1, <3>2
      <4>2. DeliveredOf(Append(out, item), s)[i] = q[i]
        <5> HIDE DEF item
        <5> QED BY <2>1, <4>1 DEF DeliveredOf
      <4> QED BY <2>2, <4>1, <4>2
    <3> QED BY <3>1, <3>2
  <2>4. DOMAIN DeliveredOf(Append(out, item), s) = 1 .. Len(out) + 1
    <3> HIDE DEF item
    <3> QED BY <2>1 DEF DeliveredOf
  <2>5. Append(q, e) \in Seq(Seq(Nat))
    <3> HIDE DEF q, e
    <3> QED BY <1>2
  <2>6. Append(q, e) = [i \in 1 .. Len(out) + 1 |-> Append(q, e)[i]]
    <3>1. \A z \in Seq(Seq(Nat)) : z = [i \in DOMAIN z |-> z[i]]
      OBVIOUS
    <3> HIDE DEF q, e
    <3> QED BY <2>2, <2>5, <3>1
  <2>7. DeliveredOf(Append(out, item), s)
          = [i \in 1 .. Len(out) + 1 |-> DeliveredOf(Append(out, item), s)[i]]
    <3> HIDE DEF item
    <3> QED BY <2>4 DEF DeliveredOf
  <2> HIDE DEF q, e, item
  <2> QED BY <2>3, <2>6, <2>7
<1>4. FlattenSeq(Append(q, e)) = FlattenSeq(q) \o e /\ FlattenSeq(q) \in Seq(Nat)
  <2> HIDE DEF q, e
  <2> QED BY <1>2, FlattenAppend
<1>5. FlattenSeq(DeliveredOf(longer, s)) = FlattenSeq(q) \o e
  <2> HIDE DEF q, e
  <2> QED BY <1>3, <1>4 DEF item
<1>6. \A z \in Seq(Nat) : z \o <<>> = z
  OBVIOUS
<1> HIDE DEF q
<1> QED BY <1>4, <1>5, <1>6 DEF q

\* The first n records, and one more at the end of a batch.
FirstRecords(n) == [i \in 1 .. n |-> i]

LEMMA NumbersAppend ==
  \A x, y \in Seq(Nat) : \A e \in Nat : x \o Append(y, e) = Append(x \o y, e)
BY AppendLast

LEMMA OneMoreRecord ==
  ASSUME NEW d \in Seq(Nat), NEW q \in Seq(Nat), NEW b \in Seq(Nat), NEW n \in Nat,
         d \o q \o b = FirstRecords(n)
  PROVE  d \o q \o Append(b, n + 1) = FirstRecords(n + 1)
<1>1. d \o q \in Seq(Nat) /\ n + 1 \in Nat
  OBVIOUS
<1>2. (d \o q) \o Append(b, n + 1) = Append((d \o q) \o b, n + 1)
  BY <1>1, NumbersAppend, Zenon
<1>3. Append(FirstRecords(n), n + 1) = FirstRecords(n + 1)
  BY DEF FirstRecords
<1> QED BY <1>1, <1>2, <1>3

LEMMA ConcatEmpty ==
  \A q \in Seq(Nat) : q \o <<>> = q /\ <<>> \o q = q
  OBVIOUS

-----------------------------------------------------------------------------
(***************************************************************************)
(* The invariant of an input.                                              *)
(***************************************************************************)
WarcBase ==
  /\ kind \in {"file", "segment", "index"} /\ includeBody \in BOOLEAN
  /\ preserve = (kind = "index")
  /\ parser \in [Streams -> ParserStates]
  /\ read \in [Streams -> Nat] /\ bodyBytes \in [Streams -> Nat]
  /\ batch \in [Streams -> Seq(Nat)]
  /\ channel \in [Streams -> Seq(Seq(Nat))]
  /\ output \in Seq(Streams \X Seq(Nat))

OutputWithin == \A i \in DOMAIN output : WithinLimits(output[i][1], output[i][2])

\* The batch being built holds records of the input and its body bytes are
\* counted; the parser goes on only with room for a record more.
BatchInv(s) ==
  /\ read[s] \in 0 .. Len(Bodies[s])
  /\ batch[s] \in Seq(Records(s))
  /\ bodyBytes[s] = IF includeBody THEN BodySum(s, batch[s]) ELSE 0
  /\ WithinLimits(s, batch[s])
  /\ parser[s] = "parsing" => Len(batch[s]) < BatchSize
  /\ parser[s] \in {"sending", "sendingLast"} => batch[s] # <<>>
  /\ parser[s] = "sendingLast" => read[s] = Len(Bodies[s])

\* At most one item is queued: a batch, or the error.
Failing(s) == channel[s] # <<>> /\ Head(channel[s]) = Error

ChannelInv(s) ==
  channel[s] # <<>> =>
    /\ channel[s] = <<Head(channel[s])>>
    /\ Head(channel[s]) \in Seq(Records(s))
    /\ WithinLimits(s, Head(channel[s]))

KeptInv(s) ==
  Delivered(s) \o QueuedRecords(s) \o batch[s] = [i \in 1 .. read[s] |-> i]

\* A parser that ended without an error put every record into a batch and sent
\* it; an input leaves the merge only when its batches were taken as well.
Finished(s) == parser[s] = "ended" /\ read[s] = Len(Bodies[s]) /\ batch[s] = <<>>

StageInv(s) ==
  /\ parser[s] # "aborted"
  /\ pulled < s => parser[s] = "none"
  /\ parser[s] \in {"none", "opening"} => channel[s] = <<>> /\ batch[s] = <<>> /\ read[s] = 0
  /\ Failing(s) => parser[s] = "ended"
  /\ consumer # "failed" /\ parser[s] = "ended" /\ ~Failing(s) => Finished(s)
  /\ consumer # "failed" /\ s \in Inputs \ InFlight /\ s <= pulled =>
       Finished(s) /\ channel[s] = <<>>

HeldInv(s) == ChannelInv(s) /\ KeptInv(s) /\ StageInv(s)

PartInv(s) ==
  /\ BatchInv(s)
  /\ IF consumer = "dropped" THEN channel[s] = <<>> ELSE HeldInv(s)

WarcInv ==
  /\ MergeInv /\ WarcBase /\ OutputWithin
  /\ \A s \in Streams : PartInv(s)

LEMMA WarcFacts ==
  ASSUME WarcInv
  PROVE  /\ pulled \in Nat /\ includeBody \in BOOLEAN /\ output \in Seq(Streams \X Seq(Nat))
         /\ \A s \in Streams :
              /\ parser[s] \in ParserStates /\ read[s] \in Nat /\ bodyBytes[s] \in Nat
              /\ batch[s] \in Seq(Nat) /\ channel[s] \in Seq(Seq(Nat))
              /\ Len(batch[s]) \in Nat /\ Len(channel[s]) \in Nat
              /\ Delivered(s) \in Seq(Nat) /\ BatchInv(s) /\ PartInv(s)
<1>1. pulled \in Nat /\ includeBody \in BOOLEAN /\ output \in Seq(Streams \X Seq(Nat))
  BY MergeAssumption DEF WarcInv, WarcBase, MergeInv, MergeTypeOK
<1>2. ASSUME NEW s \in Streams
      PROVE  /\ parser[s] \in ParserStates /\ read[s] \in Nat /\ bodyBytes[s] \in Nat
             /\ batch[s] \in Seq(Nat) /\ channel[s] \in Seq(Seq(Nat))
  BY DEF WarcInv, WarcBase
<1>3. ASSUME NEW s \in Streams PROVE Delivered(s) \in Seq(Nat)
  BY <1>1, DeliveredIs, DeliveredType
<1>4. ASSUME NEW s \in Streams PROVE PartInv(s) /\ BatchInv(s)
  BY DEF WarcInv, PartInv
<1>5. ASSUME NEW s \in Streams PROVE Len(batch[s]) \in Nat /\ Len(channel[s]) \in Nat
  BY <1>2
<1> QED BY <1>1, <1>2, <1>3, <1>4, <1>5

\* What is queued at an input.
LEMMA QueuedNone ==
  ASSUME NEW s, channel[s] = <<>>
  PROVE  QueuedRecords(s) = <<>>
BY FlattenEmpty DEF QueuedRecords

LEMMA QueuedIs ==
  \A s : QueuedRecords(s) = FlattenSeq(channel[s])
  BY DEF QueuedRecords

\* A step that leaves an input alone.
LEMMA PartFrame ==
  ASSUME NEW h \in Streams, PartInv(h), consumer # "dropped", consumer' # "dropped",
         UNCHANGED <<kind, includeBody, parser[h], read[h], batch[h], bodyBytes[h], channel[h]>>,
         (h \in InFlight') = (h \in InFlight),
         (h <= pulled') = (h <= pulled), (pulled' < h) = (pulled < h),
         Delivered(h)' = Delivered(h),
         consumer = "failed" => consumer' = "failed"
  PROVE  PartInv(h)'
<1>1. BatchInv(h)'
  BY DEF PartInv, BatchInv, WithinLimits
<1>2. ChannelInv(h)'
  BY DEF PartInv, HeldInv, ChannelInv, WithinLimits
<1>3. QueuedRecords(h)' = QueuedRecords(h)
  BY DEF QueuedRecords
<1>4. KeptInv(h)'
  BY <1>3 DEF PartInv, HeldInv, KeptInv
<1>5. /\ Failing(h)' = Failing(h) /\ Finished(h)' = Finished(h)
      /\ (h \in Inputs') = (h \in Inputs)
  BY DEF Failing, Finished, Inputs
<1>6. StageInv(h)'
  BY <1>5 DEF PartInv, HeldInv, StageInv
<1> QED BY <1>1, <1>2, <1>4, <1>6 DEF PartInv, HeldInv

\* What is left to show of a step of the parser of input s.
LEMMA ParserFrame ==
  ASSUME WarcInv, WarcBase', NEW s \in Streams,
         UNCHANGED <<mergeVars, kind, includeBody>>,
         \A h \in Streams \ {s} :
           UNCHANGED <<parser[h], read[h], batch[h], bodyBytes[h], channel[h]>>,
         BatchInv(s)',
         consumer # "dropped" => HeldInv(s)',
         consumer = "dropped" => channel'[s] = channel[s]
  PROVE  WarcInv'
<1>1. MergeInv'
  BY MergeStepInv DEF WarcInv, MergeAct
<1>2. OutputWithin'
  BY DEF WarcInv, OutputWithin, WithinLimits, mergeVars
<1>3. InFlight' = InFlight /\ UNCHANGED <<pulled, output, consumer, kind, includeBody>>
  BY DEF InFlight, mergeVars
<1>4. ASSUME NEW h \in Streams PROVE PartInv(h)'
  <2>0. PartInv(h)
    BY DEF WarcInv
  <2>1. CASE h = s
    BY <1>3, <2>0, <2>1 DEF PartInv
  <2>2. CASE h # s /\ consumer = "dropped"
    <3>1. UNCHANGED <<parser[h], read[h], batch[h], bodyBytes[h], channel[h]>>
      BY <2>2
    <3>2. BatchInv(h)'
      BY <1>3, <2>0, <3>1 DEF PartInv, BatchInv, WithinLimits
    <3> QED BY <1>3, <2>0, <2>2, <3>1, <3>2 DEF PartInv
  <2>3. CASE h # s /\ consumer # "dropped"
    <3>1. UNCHANGED <<parser[h], read[h], batch[h], bodyBytes[h], channel[h]>>
      BY <2>3
    <3>2. Delivered(h)' = Delivered(h)
      BY <1>3 DEF Delivered
    <3> QED BY <1>3, <2>0, <2>3, <3>1, <3>2, PartFrame
  <2> QED BY <2>1, <2>2, <2>3
<1> QED BY <1>1, <1>2, <1>4 DEF WarcInv

\* An input whose parser runs while the stream is held.
LEMMA ParserState ==
  ASSUME WarcInv, NEW s \in Streams, consumer # "dropped", Running(s)
  PROVE  /\ HeldInv(s) /\ BatchInv(s) /\ ~Failing(s) /\ ~(pulled < s)
         /\ ~(consumer # "failed" /\ s \in Inputs \ InFlight /\ s <= pulled)
<1>1. HeldInv(s) /\ BatchInv(s) /\ StageInv(s)
  BY DEF WarcInv, PartInv, HeldInv
<1> QED BY <1>1 DEF StageInv, Finished, Running

\* The parser moves without sending.
LEMMA ParserMoves ==
  ASSUME WarcInv, NEW s \in Streams, Running(s), NEW state \in ParserStates,
         parser' = [parser EXCEPT ![s] = state],
         UNCHANGED <<mergeVars, kind, includeBody, channel>>, WarcBase',
         \A h \in Streams \ {s} : UNCHANGED <<read[h], batch[h], bodyBytes[h]>>,
         BatchInv(s)', KeptInv(s) => KeptInv(s)',
         state \notin {"none", "opening"},
         consumer # "dropped" => state # "aborted" /\ (state = "ended" => Finished(s)')
  PROVE  WarcInv'
<1>1. parser'[s] = state /\ \A h \in Streams \ {s} : parser'[h] = parser[h]
  BY DEF WarcInv, WarcBase
<1>2. ASSUME consumer # "dropped" PROVE HeldInv(s)'
  <2>1. /\ HeldInv(s) /\ ~Failing(s) /\ ~(pulled < s)
        /\ ~(consumer # "failed" /\ s \in Inputs \ InFlight /\ s <= pulled)
    BY <1>2, ParserState
  <2>2. ChannelInv(s)'
    BY <2>1 DEF HeldInv, ChannelInv, WithinLimits
  <2>3. KeptInv(s)'
    BY <2>1 DEF HeldInv
  <2>4. StageInv(s)'
    <3>1. UNCHANGED <<pulled, consumer>> /\ InFlight' = InFlight /\ Inputs' = Inputs
      BY DEF mergeVars, InFlight, Inputs
    <3>2. ~Failing(s)'
      BY <2>1 DEF Failing
    <3>3. ~(consumer # "failed" /\ s \in Inputs \ InFlight /\ s <= pulled)'
      BY <2>1, <3>1
    <3> QED BY <1>1, <1>2, <2>1, <3>1, <3>2, <3>3 DEF StageInv
  <2> QED BY <2>2, <2>3, <2>4 DEF HeldInv
<1> QED BY <1>1, <1>2, ParserFrame

-----------------------------------------------------------------------------
(***************************************************************************)
(* The steps of a parser.                                                  *)
(***************************************************************************)
\* The parser changes state and nothing else does.
LEMMA StateOnly ==
  ASSUME WarcInv, NEW s \in Streams, parser[s] = "parsing",
         NEW state \in {"sending", "sendingLast", "failing", "ended", "panicked"},
         parser' = [parser EXCEPT ![s] = state],
         state \in {"sending", "sendingLast"} => batch[s] # <<>>,
         state = "sendingLast" => read[s] = Len(Bodies[s]),
         state = "ended" => read[s] = Len(Bodies[s]) /\ batch[s] = <<>>,
         UNCHANGED <<mergeVars, kind, includeBody, read, batch, bodyBytes, channel>>
  PROVE  WarcInv'
<1>1. WarcBase'
  BY DEF WarcInv, WarcBase, ParserStates, mergeVars
<1>2. parser'[s] = state
  BY DEF WarcInv, WarcBase
<1>3. BatchInv(s)'
  BY <1>2, WarcFacts DEF BatchInv, WithinLimits
<1>4. KeptInv(s) => KeptInv(s)'
  BY DEF KeptInv, Delivered, QueuedRecords, mergeVars
<1>5. state = "ended" => Finished(s)'
  BY <1>2 DEF Finished
<1>6. Running(s) /\ state \in ParserStates /\ state \notin {"none", "opening", "aborted"}
  BY DEF Running, ParserStates
<1> QED BY <1>1, <1>3, <1>4, <1>5, <1>6, ParserMoves

LEMMA CutStep ==
  ASSUME WarcInv, NEW s \in Streams, Cut(s)
  PROVE  WarcInv'
BY StateOnly DEF Cut, SetParser

LEMMA RecordErrorStep ==
  ASSUME WarcInv, NEW s \in Streams, RecordError(s)
  PROVE  WarcInv'
BY StateOnly DEF RecordError, SetParser

LEMMA PanicStep ==
  ASSUME WarcInv, NEW s \in Streams, Panic(s)
  PROVE  WarcInv'
BY StateOnly DEF Panic, SetParser

LEMMA EndOfInputStep ==
  ASSUME WarcInv, NEW s \in Streams, EndOfInput(s)
  PROVE  WarcInv'
<1>1. read[s] = Len(Bodies[s])
  BY WarcFacts, BodyFacts DEF EndOfInput, More, BatchInv
<1>2. LastStep(s) \in {"ended", "sendingLast"}
      /\ (LastStep(s) = "ended" => batch[s] = <<>>)
      /\ (LastStep(s) = "sendingLast" => batch[s] # <<>>)
  BY DEF LastStep
<1> QED BY <1>1, <1>2, StateOnly DEF EndOfInput, SetParser

LEMMA AbortStep ==
  ASSUME WarcInv, NEW s \in Streams, Abort(s)
  PROVE  WarcInv'
<1>1. /\ consumer = "dropped" /\ parser' = [parser EXCEPT ![s] = "aborted"]
      /\ UNCHANGED <<mergeVars, kind, includeBody, read, batch, bodyBytes, channel>>
  BY DEF Abort, SetParser
<1>2. WarcBase'
  BY <1>1 DEF WarcInv, WarcBase, ParserStates, mergeVars
<1>3. parser'[s] = "aborted" /\ \A h \in Streams \ {s} : parser'[h] = parser[h]
  BY <1>1 DEF WarcInv, WarcBase
<1>4. BatchInv(s)'
  BY <1>1, <1>3, WarcFacts DEF BatchInv, WithinLimits
<1> QED BY <1>1, <1>2, <1>3, <1>4, ParserFrame

\* A record that fits goes into the batch.
LEMMA AppendStep ==
  ASSUME WarcInv, NEW s \in Streams, AppendRecord(s)
  PROVE  WarcInv'
<1> DEFINE r == read[s] + 1
<1>1. /\ parser[s] = "parsing" /\ read[s] < Len(Bodies[s])
      /\ batch[s] = <<>> \/ ~WouldExceedBodyLimit(s)
      /\ read' = [read EXCEPT ![s] = @ + 1]
      /\ batch' = [batch EXCEPT ![s] = Append(@, r)]
      /\ bodyBytes' = [bodyBytes EXCEPT ![s] = @ + BodyLen(s)]
      /\ UNCHANGED <<mergeVars, kind, includeBody, channel>>
  BY DEF AppendRecord, More
<1>2. /\ read[s] \in Nat /\ bodyBytes[s] \in Nat /\ batch[s] \in Seq(Nat) /\ Len(Bodies[s]) \in Nat
      /\ batch[s] \in Seq(Records(s)) /\ Len(batch[s]) \in Nat /\ Len(batch[s]) < BatchSize
      /\ bodyBytes[s] = (IF includeBody THEN BodySum(s, batch[s]) ELSE 0)
  BY <1>1, WarcFacts, BodyFacts DEF BatchInv
<1>3. r \in Records(s) /\ r \in Nat
  BY <1>1, <1>2 DEF Records
<1>4. BodyLen(s) = (IF includeBody THEN Bodies[s][r] ELSE 0) /\ BodyLen(s) \in Nat
  <2>1. Bodies[s][r] \in Nat
    BY <1>3, BodyFacts
  <2> QED BY <2>1 DEF BodyLen
<1> HIDE DEF r
<1>5. /\ read'[s] = r /\ batch'[s] = Append(batch[s], r)
      /\ bodyBytes'[s] = bodyBytes[s] + BodyLen(s) /\ r = read[s] + 1
      /\ \A h \in Streams \ {s} : UNCHANGED <<read[h], batch[h], bodyBytes[h]>>
  BY <1>1 DEF WarcInv, WarcBase, r
<1>6. PICK state \in {"parsing", "sending"} :
        /\ parser' = [parser EXCEPT ![s] = state]
        /\ state = "parsing" => ~Full(Len(batch'[s]), bodyBytes'[s])
  <2>1. CASE Full(Len(batch'[s]), bodyBytes'[s])
    BY <2>1 DEF AppendRecord, SetParser
  <2>2. CASE ~Full(Len(batch'[s]), bodyBytes'[s])
    <3>1. parser' = parser
      BY <2>2 DEF AppendRecord
    <3>2. parser' = [parser EXCEPT ![s] = "parsing"]
      BY <1>1, <3>1 DEF WarcInv, WarcBase
    <3> QED BY <2>2, <3>2
  <2> QED BY <2>1, <2>2
<1>7. parser'[s] = state
  BY <1>6 DEF WarcInv, WarcBase
<1>8. /\ batch'[s] \in Seq(Records(s)) /\ batch'[s] \in Seq(Nat) /\ batch'[s] # <<>>
      /\ Len(batch'[s]) = Len(batch[s]) + 1
  <2>1. /\ Append(batch[s], r) \in Seq(Records(s)) /\ Append(batch[s], r) # <<>>
        /\ Len(Append(batch[s], r)) = Len(batch[s]) + 1
    BY <1>2, <1>3, AppendFacts
  <2>2. Append(batch[s], r) \in Seq(Nat)
    BY <1>2, <1>3, AppendFacts
  <2> QED BY <1>5, <2>1, <2>2
<1>9. WarcBase'
  <2>1. Append(batch[s], r) \in Seq(Nat) /\ bodyBytes[s] + BodyLen(s) \in Nat /\ read[s] + 1 \in Nat
    BY <1>2, <1>3, <1>4
  <2>2. parser' \in [Streams -> ParserStates]
    BY <1>6 DEF WarcInv, WarcBase, ParserStates
  <2>3. batch' \in [Streams -> Seq(Nat)]
    BY <1>1, <2>1 DEF WarcInv, WarcBase, r
  <2>4. bodyBytes' \in [Streams -> Nat] /\ read' \in [Streams -> Nat]
    BY <1>1, <2>1 DEF WarcInv, WarcBase
  <2> QED BY <1>1, <2>2, <2>3, <2>4 DEF WarcInv, WarcBase, mergeVars
<1>10. includeBody => BodySum(s, batch'[s]) = BodySum(s, batch[s]) + BodyLen(s)
  BY <1>2, <1>3, <1>4, <1>5, BodySumAppend
<1>11. bodyBytes'[s] = (IF includeBody THEN BodySum(s, batch'[s]) ELSE 0)
  BY <1>2, <1>4, <1>5, <1>10
<1>12. WithinLimits(s, batch[s])' /\ (state = "parsing" => Len(batch'[s]) < BatchSize)
  <2>1. Len(batch'[s]) <= BatchSize
    BY <1>2, <1>8, WarcAssumption
  <2>2. state = "parsing" => Len(batch'[s]) < BatchSize
    BY <1>2, <1>6, <1>8, <2>1, WarcAssumption DEF Full
  <2>3. ASSUME includeBody PROVE BodySum(s, batch'[s]) <= MaxBatchBody \/ Len(batch'[s]) = 1
    <3>1. CASE batch[s] = <<>>
      <4>1. Len(batch[s]) = 0
        BY <3>1
      <4> QED BY <1>8, <4>1
    <3>2. CASE ~WouldExceedBodyLimit(s)
      <4>1. bodyBytes[s] + BodyLen(s) <= MaxBatchBody
        BY <1>2, <1>4, <2>3, <3>2, WarcAssumption DEF WouldExceedBodyLimit
      <4> QED BY <1>5, <1>11, <2>3, <4>1
    <3> QED BY <1>1, <3>1, <3>2
  <2>4. includeBody' = includeBody
    BY <1>1
  <2> QED BY <2>1, <2>2, <2>3, <2>4 DEF WithinLimits
<1>13. BatchInv(s)'
  <2>1. read'[s] \in 0 .. Len(Bodies[s])
    BY <1>1, <1>2, <1>5
  <2>2. includeBody' = includeBody
    BY <1>1
  <2> QED BY <1>7, <1>8, <1>11, <1>12, <2>1, <2>2 DEF BatchInv
<1>14. KeptInv(s) => KeptInv(s)'
  <2>2. Delivered(s)' = Delivered(s) /\ QueuedRecords(s)' = QueuedRecords(s)
    BY <1>1 DEF Delivered, QueuedRecords, mergeVars
  <2>3. Delivered(s) \in Seq(Nat) /\ QueuedRecords(s) \in Seq(Nat)
    <3>1. channel[s] \in Seq(Seq(Nat)) /\ Delivered(s) \in Seq(Nat) /\ <<>> \in Seq(Nat)
      BY WarcFacts
    <3> QED BY <3>1, FlattenAppend, QueuedIs
  <2>4. ASSUME KeptInv(s) PROVE KeptInv(s)'
    <3>1. Delivered(s) \o QueuedRecords(s) \o batch[s] = FirstRecords(read[s])
      BY <2>4 DEF KeptInv, FirstRecords
    <3> DEFINE d == Delivered(s)
               q == QueuedRecords(s)
               b == batch[s]
               n == read[s]
    <3>2. d \o q \o Append(b, n + 1) = FirstRecords(n + 1)
      <4>1. d \in Seq(Nat) /\ q \in Seq(Nat) /\ b \in Seq(Nat) /\ n \in Nat
        BY <1>2, <2>3
      <4>2. d \o q \o b = FirstRecords(n)
        BY <3>1
      <4> HIDE DEF d, q, b, n
      <4> QED BY <4>1, <4>2, OneMoreRecord
    <3> QED BY <1>5, <2>2, <3>2 DEF KeptInv, FirstRecords
  <2> QED BY <2>4
<1>15. Running(s) /\ state \in ParserStates /\ state \notin {"none", "opening", "aborted", "ended"}
  BY <1>1 DEF Running, ParserStates
<1> QED BY <1>1, <1>5, <1>6, <1>9, <1>13, <1>14, <1>15, ParserMoves

\* An item goes into the empty channel.
LEMMA QueueOne ==
  ASSUME WarcInv, NEW s \in Streams, Len(channel[s]) < ChannelCapacity, NEW item \in Seq(Nat),
         channel' = [channel EXCEPT ![s] = Append(@, item)]
  PROVE  /\ channel[s] = <<>> /\ channel'[s] = <<item>> /\ Head(channel'[s]) = item
         /\ channel'[s] # <<>> /\ channel' \in [Streams -> Seq(Seq(Nat))]
         /\ QueuedRecords(s) = <<>> /\ QueuedRecords(s)' = item
         /\ \A h \in Streams \ {s} : channel'[h] = channel[h]
<1>1. channel \in [Streams -> Seq(Seq(Nat))] /\ channel[s] \in Seq(Seq(Nat))
  BY DEF WarcInv, WarcBase
<1>2. channel[s] = <<>>
  BY <1>1 DEF ChannelCapacity
<1>3. /\ channel'[s] = <<item>> /\ <<item>> \in Seq(Seq(Nat))
      /\ Append(channel[s], item) = <<item>>
  <2>1. Append(<<>>, item) = <<item>> /\ <<item>> \in Seq(Seq(Nat))
    OBVIOUS
  <2> QED BY <1>1, <1>2, <2>1
<1>4. channel' \in [Streams -> Seq(Seq(Nat))]
  BY <1>1, <1>3
<1>5. QueuedRecords(s)' = item
  <2>1. QueuedRecords(s)' = FlattenSeq(channel'[s])
    BY DEF QueuedRecords
  <2> QED BY <1>3, <2>1, FlattenOne
<1> QED BY <1>1, <1>2, <1>3, <1>4, <1>5, QueuedNone

LEMMA SendBatchStep ==
  ASSUME WarcInv, NEW s \in Streams, SendBatch(s)
  PROVE  WarcInv'
<1>1. /\ parser[s] \in {"sending", "sendingLast"} /\ Running(s)
      /\ batch' = [batch EXCEPT ![s] = <<>>] /\ bodyBytes' = [bodyBytes EXCEPT ![s] = 0]
      /\ UNCHANGED <<mergeVars, kind, includeBody, read>>
  BY DEF SendBatch, Running
<1>2. PICK state \in {"ended", "parsing"} :
        /\ parser' = [parser EXCEPT ![s] = state]
        /\ consumer # "dropped" /\ state = "ended" => parser[s] = "sendingLast"
  BY DEF SendBatch, SetParser
<1>3. /\ parser'[s] = state /\ batch'[s] = <<>> /\ bodyBytes'[s] = 0 /\ read'[s] = read[s]
      /\ \A h \in Streams \ {s} : UNCHANGED <<parser[h], read[h], batch[h], bodyBytes[h]>>
  BY <1>1, <1>2 DEF WarcInv, WarcBase
<1>4. BatchInv(s) /\ batch[s] \in Seq(Nat)
  BY WarcFacts
<1>5. WithinLimits(s, <<>>) /\ <<>> \in Seq(Records(s)) /\ Len(<<>>) = 0 /\ <<>> \in Seq(Nat)
  BY BodySumEmpty, WarcAssumption DEF WithinLimits
<1>6. BatchInv(s)'
  <2>1. (IF includeBody THEN BodySum(s, <<>>) ELSE 0) = 0
    BY BodySumEmpty
  <2>2. 0 < BatchSize
    BY WarcAssumption
  <2>3. includeBody' = includeBody /\ WithinLimits(s, batch[s])'
    BY <1>1, <1>3, <1>5 DEF WithinLimits
  <2> QED BY <1>3, <1>4, <1>5, <2>1, <2>2, <2>3 DEF BatchInv
<1>7. /\ parser' \in [Streams -> ParserStates] /\ batch' \in [Streams -> Seq(Nat)]
      /\ bodyBytes' \in [Streams -> Nat]
  BY <1>1, <1>2, <1>5 DEF WarcInv, WarcBase, ParserStates
<1>8. CASE consumer = "dropped"
  <2>1. channel' = channel
    BY <1>8 DEF SendBatch
  <2>2. WarcBase'
    BY <1>1, <1>7, <2>1 DEF WarcInv, WarcBase, mergeVars
  <2> QED BY <1>1, <1>3, <1>6, <1>8, <2>1, <2>2, ParserFrame
<1>9. CASE consumer # "dropped"
  <2>1. Len(channel[s]) < ChannelCapacity /\ channel' = [channel EXCEPT ![s] = Append(@, batch[s])]
    BY <1>9 DEF SendBatch
  <2>2. /\ channel[s] = <<>> /\ channel'[s] = <<batch[s]>> /\ Head(channel'[s]) = batch[s]
        /\ channel'[s] # <<>> /\ channel' \in [Streams -> Seq(Seq(Nat))]
        /\ QueuedRecords(s) = <<>> /\ QueuedRecords(s)' = batch[s]
        /\ \A h \in Streams \ {s} : channel'[h] = channel[h]
    BY <1>4, <2>1, QueueOne
  <2>3. WarcBase'
    BY <1>1, <1>7, <2>2 DEF WarcInv, WarcBase, mergeVars
  <2>4. /\ HeldInv(s) /\ ~(pulled < s)
        /\ ~(consumer # "failed" /\ s \in Inputs \ InFlight /\ s <= pulled)
    BY <1>1, <1>9, ParserState
  <2>5. ChannelInv(s)'
    BY <1>1, <1>4, <2>2 DEF ChannelInv, BatchInv, WithinLimits
  <2>6. KeptInv(s)'
    <3>1. Delivered(s)' = Delivered(s) /\ Delivered(s) \in Seq(Nat)
      BY <1>1, WarcFacts DEF Delivered, mergeVars
    <3>2. Delivered(s) \o batch[s] = [i \in 1 .. read[s] |-> i]
      <4>1. Delivered(s) \o <<>> = Delivered(s)
        BY <3>1, ConcatEmpty
      <4> QED BY <2>2, <2>4, <4>1 DEF HeldInv, KeptInv
    <3>3. (Delivered(s) \o batch[s]) \o <<>> = Delivered(s) \o batch[s]
      <4>1. Delivered(s) \o batch[s] \in Seq(Nat)
        BY <1>4, <3>1
      <4> QED BY <4>1, ConcatEmpty
    <3> QED BY <1>3, <2>2, <3>1, <3>2, <3>3 DEF KeptInv
  <2>7. StageInv(s)'
    <3>1. UNCHANGED <<pulled, consumer>> /\ InFlight' = InFlight /\ Inputs' = Inputs
      BY <1>1 DEF mergeVars, InFlight, Inputs
    <3>2. ~Failing(s)'
      BY <1>1, <1>4, <2>2 DEF Failing, Error, BatchInv
    <3>3. ~(consumer # "failed" /\ s \in Inputs \ InFlight /\ s <= pulled)'
      BY <2>4, <3>1
    <3>4. state = "ended" => Finished(s)'
      BY <1>2, <1>3, <1>4, <1>9 DEF Finished, BatchInv
    <3> QED BY <1>2, <1>3, <2>4, <3>1, <3>2, <3>3, <3>4 DEF StageInv
  <2> QED BY <1>1, <1>3, <1>6, <1>9, <2>2, <2>3, <2>5, <2>6, <2>7, ParserFrame DEF HeldInv
<1> QED BY <1>8, <1>9

LEMMA SendErrorStep ==
  ASSUME WarcInv, NEW s \in Streams, SendError(s)
  PROVE  WarcInv'
<1>1. /\ parser[s] = "failing" /\ Running(s) /\ parser' = [parser EXCEPT ![s] = "ended"]
      /\ UNCHANGED <<mergeVars, kind, includeBody, read, batch, bodyBytes>>
  BY DEF SendError, SetParser, Running
<1>2. /\ parser'[s] = "ended" /\ \A h \in Streams \ {s} : parser'[h] = parser[h]
      /\ parser' \in [Streams -> ParserStates]
  BY <1>1 DEF WarcInv, WarcBase, ParserStates
<1>3. BatchInv(s)'
  BY <1>1, <1>2, WarcFacts DEF BatchInv, WithinLimits
<1>4. CASE consumer = "dropped"
  <2>1. channel' = channel
    BY <1>4 DEF SendError
  <2>2. WarcBase'
    BY <1>1, <1>2, <2>1 DEF WarcInv, WarcBase, mergeVars
  <2> QED BY <1>1, <1>2, <1>3, <1>4, <2>1, <2>2, ParserFrame
<1>5. CASE consumer # "dropped"
  <2>1. Len(channel[s]) < ChannelCapacity /\ channel' = [channel EXCEPT ![s] = Append(@, Error)]
        /\ Error \in Seq(Nat)
    BY <1>5 DEF SendError, Error
  <2>2. /\ channel[s] = <<>> /\ channel'[s] = <<Error>> /\ Head(channel'[s]) = Error
        /\ channel'[s] # <<>> /\ channel' \in [Streams -> Seq(Seq(Nat))]
        /\ QueuedRecords(s) = <<>> /\ QueuedRecords(s)' = Error
        /\ \A h \in Streams \ {s} : channel'[h] = channel[h]
    BY <2>1, QueueOne
  <2>3. WarcBase'
    BY <1>1, <1>2, <2>2 DEF WarcInv, WarcBase, mergeVars
  <2>4. /\ HeldInv(s) /\ ~(pulled < s)
        /\ ~(consumer # "failed" /\ s \in Inputs \ InFlight /\ s <= pulled)
    BY <1>1, <1>5, ParserState
  <2>5. ChannelInv(s)'
    <3>1. WithinLimits(s, <<>>) /\ <<>> \in Seq(Records(s))
      BY BodySumEmpty, WarcAssumption DEF WithinLimits
    <3> QED BY <1>1, <2>2, <3>1 DEF ChannelInv, WithinLimits, Error
  <2>6. KeptInv(s)'
    <3>1. Delivered(s)' = Delivered(s)
      BY <1>1 DEF Delivered, mergeVars
    <3> QED BY <1>1, <2>2, <2>4, <3>1 DEF HeldInv, KeptInv, Error
  <2>7. StageInv(s)'
    <3>1. UNCHANGED <<pulled, consumer>> /\ InFlight' = InFlight /\ Inputs' = Inputs
      BY <1>1 DEF mergeVars, InFlight, Inputs
    <3>2. Failing(s)'
      BY <2>2 DEF Failing
    <3>3. ~(consumer # "failed" /\ s \in Inputs \ InFlight /\ s <= pulled)'
      BY <2>4, <3>1
    <3> QED BY <1>2, <2>4, <3>1, <3>2, <3>3 DEF StageInv
  <2> QED BY <1>1, <1>2, <1>3, <1>5, <2>2, <2>3, <2>5, <2>6, <2>7, ParserFrame DEF HeldInv
<1> QED BY <1>4, <1>5

-----------------------------------------------------------------------------
(***************************************************************************)
(* The steps of the merge.                                                 *)
(***************************************************************************)
\* What is left to show of a step of the merge on input s.
LEMMA MergeFrame ==
  ASSUME WarcInv, MergeInv', WarcBase', OutputWithin', NEW s \in Streams,
         consumer # "dropped", consumer # "failed", consumer' # "dropped",
         UNCHANGED <<kind, includeBody>>,
         \A h \in Streams \ {s} :
           /\ UNCHANGED <<parser[h], read[h], batch[h], bodyBytes[h], channel[h]>>
           /\ (h \in InFlight') = (h \in InFlight)
           /\ (h <= pulled') = (h <= pulled) /\ (pulled' < h) = (pulled < h)
           /\ Delivered(h)' = Delivered(h),
         BatchInv(s)', HeldInv(s)'
  PROVE  WarcInv'
<1>1. ASSUME NEW h \in Streams PROVE PartInv(h)'
  <2>1. CASE h = s
    BY <2>1 DEF PartInv
  <2>2. CASE h # s
    BY <2>2, PartFrame DEF WarcInv
  <2> QED BY <2>1, <2>2
<1> QED BY <1>1 DEF WarcInv

\* The consumer moves and no input does.
LEMMA ConsumerFrame ==
  ASSUME WarcInv, consumer # "dropped", consumer' # "dropped", consumer # "failed", MergeInv',
         UNCHANGED <<preserve, pulled, output, kind, includeBody, taskVars>>, InFlight' = InFlight
  PROVE  WarcInv'
<1>1. ASSUME NEW h \in Streams PROVE PartInv(h)'
  <2>1. Delivered(h)' = Delivered(h)
    BY DEF Delivered
  <2>2. UNCHANGED <<parser[h], read[h], batch[h], bodyBytes[h], channel[h]>> /\ PartInv(h)
    BY DEF taskVars, WarcInv
  <2> QED BY <2>1, <2>2, PartFrame
<1>2. WarcBase' /\ OutputWithin'
  BY DEF WarcInv, WarcBase, taskVars, OutputWithin, WithinLimits
<1> QED BY <1>1, <1>2 DEF WarcInv

LEMMA AdvanceInputStep ==
  ASSUME WarcInv, NEW s \in Streams, AdvanceInput(s)
  PROVE  WarcInv'
<1>1. MergeInv' /\ InFlight' = InFlight
  BY AdvanceStep DEF WarcInv, AdvanceInput
<1> QED BY <1>1, ConsumerFrame DEF AdvanceInput, Advance

LEMMA PollStep ==
  ASSUME WarcInv, Poll \/ End, UNCHANGED <<kind, includeBody, taskVars>>
  PROVE  WarcInv'
<1>1. MergeInv'
  BY MergeStepInv DEF WarcInv, MergeAct
<1>2. InFlight' = InFlight
  BY DEF Poll, End, InFlight
<1> QED BY <1>1, <1>2, ConsumerFrame DEF Poll, End

LEMMA PullInputStep ==
  ASSUME WarcInv, NEW s \in Streams, PullInput(s)
  PROVE  WarcInv'
<1>1. /\ InFlight' = InFlight \cup {s} /\ s = pulled + 1 /\ pulled' = s
      /\ consumer = "polling" /\ UNCHANGED <<preserve, consumer, output>>
  BY PullInFlight DEF WarcInv, PullInput
<1>2. MergeInv'
  BY PullStep DEF WarcInv, PullInput
<1>3. /\ parser' = [parser EXCEPT ![s] = "opening"]
      /\ UNCHANGED <<kind, includeBody, read, batch, bodyBytes, channel>>
  BY DEF PullInput, SetParser
<1>4. WarcBase' /\ OutputWithin'
  BY <1>1, <1>3 DEF WarcInv, WarcBase, ParserStates, OutputWithin, WithinLimits
<1>5. parser'[s] = "opening" /\ \A h \in Streams \ {s} : parser'[h] = parser[h]
  BY <1>3 DEF WarcInv, WarcBase
<1>6. HeldInv(s) /\ BatchInv(s) /\ pulled \in Nat
  BY <1>1, WarcFacts DEF PartInv
<1>7. BatchInv(s)'
  BY <1>3, <1>5, <1>6 DEF BatchInv, WithinLimits
<1>8. HeldInv(s)'
  <2>1. channel[s] = <<>> /\ batch[s] = <<>> /\ read[s] = 0
    BY <1>1, <1>6 DEF HeldInv, StageInv
  <2>2. ChannelInv(s)'
    BY <1>3, <2>1 DEF ChannelInv
  <2>3. KeptInv(s)'
    BY <1>1, <1>3, <1>6 DEF HeldInv, KeptInv, Delivered, QueuedRecords
  <2>4. StageInv(s)'
    BY <1>1, <1>3, <1>5, <1>6, <2>1 DEF StageInv, Failing
  <2> QED BY <2>2, <2>3, <2>4 DEF HeldInv
<1>9. ASSUME NEW h \in Streams \ {s}
      PROVE  /\ (h \in InFlight') = (h \in InFlight)
             /\ (h <= pulled') = (h <= pulled) /\ (pulled' < h) = (pulled < h)
             /\ Delivered(h)' = Delivered(h)
  <2>1. h \in Nat /\ h # pulled + 1
    BY <1>1, BodyFacts
  <2>2. Delivered(h)' = Delivered(h)
    BY <1>1 DEF Delivered
  <2> QED BY <1>1, <1>6, <2>1, <2>2
<1> QED BY <1>1, <1>2, <1>3, <1>4, <1>5, <1>7, <1>8, <1>9, MergeFrame

\* An input opens, or the error of opening it takes its place.
LEMMA OpenInputStep ==
  ASSUME WarcInv, NEW s \in Streams, OpenInput(s)
  PROVE  WarcInv'
<1>1. /\ consumer = "polling" /\ parser[s] = "opening"
      /\ UNCHANGED <<mergeVars, kind, includeBody, read, batch, bodyBytes>>
  BY DEF OpenInput, Opening
<1>2. HeldInv(s) /\ StageInv(s) /\ BatchInv(s) /\ pulled \in Nat
  BY <1>1, WarcFacts DEF PartInv, HeldInv
<1>3. /\ channel[s] = <<>> /\ batch[s] = <<>> /\ read[s] = 0 /\ ~(pulled < s)
      /\ ~(consumer # "failed" /\ s \in Inputs \ InFlight /\ s <= pulled)
  BY <1>1, <1>2 DEF StageInv, Finished
<1>4. PICK state \in {"parsing", "ended"} :
        /\ parser' = [parser EXCEPT ![s] = state]
        /\ state = "parsing" => channel' = channel
        /\ state = "ended" => channel' = [channel EXCEPT ![s] = <<Error>>]
  BY DEF OpenInput, SetParser
<1>5. /\ parser'[s] = state /\ \A h \in Streams \ {s} : UNCHANGED <<parser[h], channel[h]>>
      /\ channel'[s] = IF state = "ended" THEN <<Error>> ELSE <<>>
  BY <1>3, <1>4 DEF WarcInv, WarcBase
<1>6. WarcBase'
  <2>1. <<Error>> \in Seq(Seq(Nat))
    BY DEF Error
  <2>2. channel' \in [Streams -> Seq(Seq(Nat))] /\ parser' \in [Streams -> ParserStates]
    BY <1>4, <2>1 DEF WarcInv, WarcBase, ParserStates
  <2> QED BY <1>1, <2>2 DEF WarcInv, WarcBase, mergeVars
<1>7. BatchInv(s)'
  <2>1. Len(batch[s]) < BatchSize
    <3>1. Len(<<>>) = 0
      OBVIOUS
    <3> QED BY <1>3, <3>1, WarcAssumption
  <2> QED BY <1>1, <1>2, <1>5, <2>1 DEF BatchInv, WithinLimits
<1>8. ChannelInv(s)'
  <2>1. WithinLimits(s, <<>>) /\ <<>> \in Seq(Records(s)) /\ Head(<<Error>>) = Error
    BY BodySumEmpty, WarcAssumption DEF WithinLimits
  <2>2. CASE state = "ended"
    BY <1>1, <1>5, <2>1, <2>2 DEF ChannelInv, WithinLimits, Error
  <2>3. CASE state = "parsing"
    BY <1>5, <2>3 DEF ChannelInv
  <2> QED BY <2>2, <2>3
<1>9. KeptInv(s)'
  <2>1. QueuedRecords(s)' = QueuedRecords(s)
    <3>1. QueuedRecords(s)' = FlattenSeq(channel'[s]) /\ QueuedRecords(s) = <<>>
      BY <1>3, QueuedNone DEF QueuedRecords
    <3>2. FlattenSeq(<<Error>>) = <<>>
      <4>1. Error \in Seq(Nat) /\ Error = <<>>
        BY DEF Error
      <4> QED BY <4>1, FlattenOne
    <3> QED BY <1>5, <3>1, <3>2, FlattenEmpty
  <2>2. Delivered(s)' = Delivered(s)
    BY <1>1 DEF Delivered, mergeVars
  <2> QED BY <1>1, <1>2, <2>1, <2>2 DEF HeldInv, KeptInv
<1>10. StageInv(s)'
  <2>1. UNCHANGED <<pulled, consumer>> /\ InFlight' = InFlight /\ Inputs' = Inputs
    BY <1>1 DEF mergeVars, InFlight, Inputs
  <2>2. Failing(s)' <=> state = "ended"
    <3>1. <<Error>> # <<>> /\ Head(<<Error>>) = Error
      OBVIOUS
    <3> QED BY <1>5, <3>1 DEF Failing
  <2>3. ~(consumer # "failed" /\ s \in Inputs \ InFlight /\ s <= pulled)'
    BY <1>3, <2>1
  <2> QED BY <1>3, <1>5, <2>1, <2>2, <2>3 DEF StageInv
<1> QED BY <1>1, <1>5, <1>6, <1>7, <1>8, <1>9, <1>10, ParserFrame DEF HeldInv


\* The queue of one item is taken.
LEMMA TakeOne ==
  ASSUME WarcInv, NEW s \in Streams, ChannelInv(s), channel[s] # <<>>,
         channel' = [channel EXCEPT ![s] = Tail(@)]
  PROVE  /\ channel'[s] = <<>> /\ channel' \in [Streams -> Seq(Seq(Nat))]
         /\ Head(channel[s]) \in Seq(Nat)
         /\ QueuedRecords(s) = Head(channel[s]) /\ QueuedRecords(s)' = <<>>
         /\ \A h \in Streams \ {s} : channel'[h] = channel[h]
<1> DEFINE r == Head(channel[s])
<1>1. channel \in [Streams -> Seq(Seq(Nat))] /\ channel[s] = <<r>> /\ r \in Seq(Nat)
  <2>1. channel \in [Streams -> Seq(Seq(Nat))] /\ channel[s] \in Seq(Seq(Nat))
    BY DEF WarcInv, WarcBase
  <2>2. r \in Seq(Nat)
    BY <2>1
  <2> QED BY <2>1, <2>2 DEF ChannelInv
<1> HIDE DEF r
<1>2. Tail(channel[s]) = <<>>
  <2>1. Tail(<<r>>) = <<>>
    OBVIOUS
  <2> QED BY <1>1, <2>1
<1>3. channel'[s] = <<>> /\ channel' \in [Streams -> Seq(Seq(Nat))]
      /\ \A h \in Streams \ {s} : channel'[h] = channel[h]
  <2>1. <<>> \in Seq(Seq(Nat))
    OBVIOUS
  <2> QED BY <1>1, <1>2, <2>1
<1>4. QueuedRecords(s)' = <<>>
  <2>1. QueuedRecords(s)' = FlattenSeq(channel'[s])
    BY DEF QueuedRecords
  <2> QED BY <1>3, <2>1, FlattenEmpty
<1>5. QueuedRecords(s) = r
  BY <1>1, FlattenOne, QueuedIs
<1> QED BY <1>1, <1>3, <1>4, <1>5 DEF r

LEMMA TakeBatchStep ==
  ASSUME WarcInv, NEW s \in Streams, Take(s), Head(channel[s]) # Error
  PROVE  WarcInv'
<1> DEFINE r == Head(channel[s])
<1>1. /\ channel[s] # <<>> /\ Emit(s, r) /\ channel' = [channel EXCEPT ![s] = Tail(@)]
      /\ UNCHANGED <<kind, includeBody, parser, read, batch, bodyBytes>>
  BY DEF Take
<1>2. /\ consumer = "polling" /\ consumer' = "idle" /\ s \in InFlight /\ InFlight' = InFlight
      /\ s \in 1 .. pulled /\ output' = Append(output, <<s, r>>) /\ UNCHANGED <<preserve, pulled>>
  BY <1>1, EmitOutput DEF WarcInv, Emit
<1>3. HeldInv(s) /\ BatchInv(s) /\ ChannelInv(s) /\ KeptInv(s) /\ StageInv(s)
  BY <1>2, WarcFacts DEF PartInv, HeldInv
<1>4. /\ channel'[s] = <<>> /\ channel' \in [Streams -> Seq(Seq(Nat))] /\ r \in Seq(Nat)
      /\ QueuedRecords(s) = r /\ QueuedRecords(s)' = <<>>
      /\ \A h \in Streams \ {s} : channel'[h] = channel[h]
  BY <1>1, <1>3, TakeOne
<1>5. WithinLimits(s, r)
  BY <1>1, <1>3 DEF ChannelInv
<1>6. MergeInv'
  BY <1>1, EmitStep DEF WarcInv
<1> HIDE DEF r
<1>7. /\ output \in Seq(Streams \X Seq(Nat)) /\ output' \in Seq(Streams \X Seq(Nat))
      /\ \A i \in DOMAIN output' :
           output'[i] = (IF i = Len(output) + 1 THEN <<s, r>> ELSE output[i])
      /\ DOMAIN output' = 1 .. Len(output) + 1 /\ DOMAIN output = 1 .. Len(output)
      /\ Len(output) \in Nat
  <2> DEFINE item == <<s, r>>
  <2>1. item \in Streams \X Seq(Nat) /\ output \in Seq(Streams \X Seq(Nat))
    BY <1>4, WarcFacts
  <2>2. output' = Append(output, item)
    BY <1>2
  <2> HIDE DEF item
  <2>3. /\ output' \in Seq(Streams \X Seq(Nat))
        /\ \A i \in DOMAIN output' :
             output'[i] = (IF i = Len(output) + 1 THEN item ELSE output[i])
        /\ DOMAIN output' = 1 .. Len(output) + 1 /\ DOMAIN output = 1 .. Len(output)
        /\ Len(output) \in Nat
    BY <2>1, <2>2
  <2> QED BY <2>1, <2>3 DEF item
<1>8. WarcBase'
  BY <1>1, <1>2, <1>4, <1>7 DEF WarcInv, WarcBase
<1>9. OutputWithin'
  <2> SUFFICES ASSUME NEW i \in DOMAIN output'
               PROVE  WithinLimits(output'[i][1], output'[i][2])
    BY <1>1 DEF OutputWithin, WithinLimits
  <2>2. CASE i = Len(output) + 1
    <3>1. output'[i] = <<s, r>>
      BY <1>7, <2>2
    <3> QED BY <1>5, <3>1
  <2>3. CASE i # Len(output) + 1
    <3>1. i \in DOMAIN output /\ output'[i] = output[i]
      BY <1>7, <2>3
    <3> QED BY <3>1 DEF WarcInv, OutputWithin
  <2> QED BY <2>2, <2>3
<1>10. \A h : Delivered(h)' = IF s = h THEN Delivered(h) \o r ELSE Delivered(h)
  <2> TAKE h
  <2>1. Delivered(h)' = FlattenSeq(DeliveredOf(output', h))
    BY DEF Delivered, DeliveredOf
  <2>2. /\ s = h => FlattenSeq(DeliveredOf(output', h)) = FlattenSeq(DeliveredOf(output, h)) \o r
        /\ s # h => FlattenSeq(DeliveredOf(output', h)) = FlattenSeq(DeliveredOf(output, h))
    <3>1. /\ output \in Seq(Streams \X Seq(Nat)) /\ r \in Seq(Nat)
          /\ output' = Append(output, <<s, r>>)
      BY <1>2, <1>4, <1>7
    <3>2. \A longer : longer = Append(output, <<s, r>>) =>
            /\ s = h => FlattenSeq(DeliveredOf(longer, h)) = FlattenSeq(DeliveredOf(output, h)) \o r
            /\ s # h => FlattenSeq(DeliveredOf(longer, h)) = FlattenSeq(DeliveredOf(output, h))
      BY <3>1, DeliveredAppend
    <3> QED BY <3>1, <3>2
  <2> QED BY <2>1, <2>2, DeliveredIs
<1>11. \A h \in Streams : Delivered(h) \in Seq(Nat)
  BY WarcFacts
<1>12. BatchInv(s)'
  BY <1>1, <1>3 DEF BatchInv, WithinLimits
<1>13. HeldInv(s)'
  <2>1. ChannelInv(s)'
    BY <1>4 DEF ChannelInv
  <2>2. KeptInv(s)'
    <3>1. Delivered(s) \o r \o batch[s] = [i \in 1 .. read[s] |-> i]
      BY <1>3, <1>4 DEF KeptInv
    <3>2. Delivered(s)' = Delivered(s) \o r
      BY <1>10
    <3>3. (Delivered(s) \o r) \o <<>> = Delivered(s) \o r
      <4>1. Delivered(s) \o r \in Seq(Nat)
        BY <1>4, <1>11
      <4> QED BY <4>1, ConcatEmpty
    <3> QED BY <1>1, <1>4, <3>1, <3>2, <3>3 DEF KeptInv
  <2>3. StageInv(s)'
    <3>1. Inputs' = Inputs /\ ~Failing(s)' /\ ~Failing(s)
      BY <1>1, <1>2, <1>4 DEF Inputs, Failing, r
    <3>2. ~(pulled < s)
      BY <1>1, <1>2, <1>4, BodyFacts, WarcFacts
    <3> QED BY <1>1, <1>2, <1>3, <1>4, <3>1, <3>2 DEF StageInv, Finished
  <2> QED BY <2>1, <2>2, <2>3 DEF HeldInv
<1>14. \A h \in Streams \ {s} : Delivered(h)' = Delivered(h)
  BY <1>10
<1> QED BY <1>1, <1>2, <1>4, <1>6, <1>8, <1>9, <1>12, <1>13, <1>14, MergeFrame

LEMMA TakeErrorStep ==
  ASSUME WarcInv, NEW s \in Streams, Take(s), Head(channel[s]) = Error
  PROVE  WarcInv'
<1>1. /\ channel[s] # <<>> /\ Fail(s) /\ channel' = [channel EXCEPT ![s] = Tail(@)]
      /\ UNCHANGED <<kind, includeBody, parser, read, batch, bodyBytes>>
  BY DEF Take
<1>2. /\ consumer = "polling" /\ consumer' = "failed" /\ InFlight' = InFlight
      /\ UNCHANGED <<preserve, pulled, output>>
  BY <1>1 DEF Fail, InFlight
<1>3. HeldInv(s) /\ BatchInv(s) /\ ChannelInv(s) /\ KeptInv(s) /\ StageInv(s)
  BY <1>2, WarcFacts DEF PartInv, HeldInv
<1>4. /\ channel'[s] = <<>> /\ channel' \in [Streams -> Seq(Seq(Nat))]
      /\ QueuedRecords(s) = Error /\ QueuedRecords(s)' = <<>>
      /\ \A h \in Streams \ {s} : channel'[h] = channel[h]
  BY <1>1, <1>3, TakeOne
<1>5. MergeInv'
  BY <1>1, MergeStepInv DEF WarcInv, MergeAct
<1>6. WarcBase' /\ OutputWithin'
  BY <1>1, <1>2, <1>4 DEF WarcInv, WarcBase, OutputWithin, WithinLimits
<1>7. BatchInv(s)'
  BY <1>1, <1>3 DEF BatchInv, WithinLimits
<1>8. \A h : Delivered(h)' = Delivered(h)
  BY <1>2 DEF Delivered
<1>9. HeldInv(s)'
  <2>1. ChannelInv(s)'
    BY <1>4 DEF ChannelInv
  <2>2. KeptInv(s)'
    BY <1>1, <1>3, <1>4, <1>8 DEF KeptInv, Error
  <2>3. StageInv(s)'
    <3>1. ~Failing(s)'
      BY <1>4 DEF Failing
    <3> QED BY <1>1, <1>2, <1>3, <1>4, <3>1 DEF StageInv
  <2> QED BY <2>1, <2>2, <2>3 DEF HeldInv
<1> QED BY <1>1, <1>2, <1>4, <1>5, <1>6, <1>7, <1>8, <1>9, MergeFrame

LEMMA CompleteStep ==
  ASSUME WarcInv, NEW s \in Streams, Complete(s)
  PROVE  WarcInv'
<1>1. channel[s] = <<>> /\ Closed(s) /\ UNCHANGED <<kind, includeBody, taskVars>>
  BY DEF Complete
<1>2. CASE Fail(s)
  <2>1. /\ InFlight' = InFlight /\ UNCHANGED <<preserve, pulled, output>>
        /\ consumer = "polling" /\ consumer' = "failed"
    BY <1>2 DEF Fail, InFlight
  <2>2. MergeInv'
    BY <1>2, MergeStepInv DEF WarcInv, MergeAct
  <2> QED BY <1>1, <2>1, <2>2, ConsumerFrame
<1>3. CASE Exhaust(s) /\ ~TaskFailed(s)
  <2>1. /\ InFlight' = InFlight \ {s} /\ s \in InFlight /\ s \in 1 .. pulled
        /\ consumer = "polling" /\ UNCHANGED <<preserve, pulled, consumer, output>>
    BY <1>3, ExhaustInFlight DEF WarcInv
  <2>2. MergeInv'
    BY <1>3, ExhaustStep DEF WarcInv
  <2>3. UNCHANGED <<parser, read, batch, bodyBytes, channel>>
    BY <1>1 DEF taskVars
  <2>4. WarcBase' /\ OutputWithin'
    BY <1>1, <2>1, <2>3 DEF WarcInv, WarcBase, OutputWithin, WithinLimits
  <2>5. HeldInv(s) /\ BatchInv(s) /\ StageInv(s)
    BY <2>1, WarcFacts DEF PartInv, HeldInv
  <2>6. ~Failing(s) /\ Finished(s)
    <3>1. ~Failing(s) /\ parser[s] = "ended"
      BY <1>1, <1>3 DEF Failing, Closed, TaskFailed
    <3> QED BY <2>1, <2>5, <3>1 DEF StageInv
  <2>7. BatchInv(s)'
    BY <1>1, <2>3, <2>5 DEF BatchInv, WithinLimits
  <2>8. \A h : Delivered(h)' = Delivered(h) /\ QueuedRecords(h)' = QueuedRecords(h)
    BY <2>1, <2>3 DEF Delivered, QueuedRecords
  <2>9. HeldInv(s)'
    <3>1. ChannelInv(s)'
      BY <1>1, <2>3 DEF ChannelInv
    <3>2. KeptInv(s)'
      BY <2>3, <2>5, <2>8 DEF HeldInv, KeptInv
    <3>3. StageInv(s)'
      <4>1. Failing(s)' = Failing(s) /\ Finished(s)' = Finished(s)
        BY <2>3 DEF Failing, Finished
      <4>2. parser[s] = "ended"
        BY <2>6 DEF Finished
      <4>3. ~(pulled < s)
        BY <2>1, WarcFacts, BodyFacts
      <4> QED BY <1>1, <2>1, <2>3, <2>5, <2>6, <4>1, <4>2, <4>3 DEF StageInv
    <3> QED BY <3>1, <3>2, <3>3 DEF HeldInv
  <2> QED BY <1>1, <2>1, <2>2, <2>3, <2>4, <2>7, <2>8, <2>9, MergeFrame
<1> QED BY <1>2, <1>3 DEF Complete

LEMMA DropStep ==
  ASSUME WarcInv, DropStream
  PROVE  WarcInv'
<1>1. /\ consumer' = "dropped" /\ Release /\ UNCHANGED <<preserve, output>>
      /\ channel' = [s \in Streams |-> <<>>]
      /\ parser' = [s \in Streams |-> IF parser[s] = "opening" THEN "none" ELSE parser[s]]
      /\ UNCHANGED <<kind, includeBody, read, batch, bodyBytes>>
  BY DEF DropStream, Release
<1>2. MergeInv'
  BY <1>1, MergeStepInv DEF WarcInv, MergeAct
<1>3. WarcBase' /\ OutputWithin'
  <2>1. <<>> \in Seq(Seq(Nat))
    OBVIOUS
  <2>2. channel' \in [Streams -> Seq(Seq(Nat))] /\ parser' \in [Streams -> ParserStates]
    BY <1>1, <2>1 DEF WarcInv, WarcBase, ParserStates
  <2> QED BY <1>1, <2>2 DEF WarcInv, WarcBase, OutputWithin, WithinLimits
<1>4. ASSUME NEW h \in Streams PROVE PartInv(h)'
  <2>1. channel'[h] = <<>> /\ parser'[h] = IF parser[h] = "opening" THEN "none" ELSE parser[h]
    BY <1>1
  <2>2. BatchInv(h)'
    BY <1>1, <2>1, WarcFacts DEF BatchInv, WithinLimits
  <2> QED BY <1>1, <2>1, <2>2 DEF PartInv
<1> QED BY <1>2, <1>3, <1>4 DEF WarcInv


LEMMA WarcStep ==
  ASSUME WarcInv, [WarcNext]_warcVars
  PROVE  WarcInv'
<1>1. CASE MergeStep
  <2>1. ASSUME NEW s \in Streams, Take(s) PROVE WarcInv'
    BY <2>1, TakeBatchStep, TakeErrorStep
  <2>2. CASE (Poll \/ End) /\ UNCHANGED <<kind, includeBody, taskVars>>
    BY <2>2, PollStep
  <2> QED
    BY <1>1, <2>1, <2>2, PullInputStep, OpenInputStep, AdvanceInputStep, CompleteStep DEF MergeStep
<1>2. ASSUME NEW s \in Streams, ParserStep(s) \/ RecordError(s) \/ Panic(s) \/ Abort(s)
      PROVE  WarcInv'
  BY <1>2, CutStep, AppendStep, EndOfInputStep, SendBatchStep, SendErrorStep, RecordErrorStep,
     PanicStep, AbortStep DEF ParserStep
<1>3. CASE DropStream
  BY <1>3, DropStep
<1>4. CASE UNCHANGED warcVars
  <2>1. /\ UNCHANGED <<mergeVars, kind, includeBody, taskVars>>
        /\ UNCHANGED <<pulled, output, consumer>> /\ InFlight' = InFlight
    BY <1>4 DEF warcVars, mergeVars, taskVars, InFlight
  <2>2. MergeInv' /\ WarcBase' /\ OutputWithin'
    BY <2>1, MergeStepInv DEF WarcInv, MergeAct, WarcBase, mergeVars, taskVars, OutputWithin, WithinLimits
  <2>3. ASSUME NEW h \in Streams PROVE PartInv(h)'
    <3>1. UNCHANGED <<parser[h], read[h], batch[h], bodyBytes[h], channel[h]>> /\ PartInv(h)
          /\ Delivered(h)' = Delivered(h)
      BY <2>1 DEF taskVars, WarcInv, Delivered
    <3>2. CASE consumer = "dropped"
      <4>1. BatchInv(h)'
        BY <2>1, <3>1 DEF PartInv, BatchInv, WithinLimits
      <4> QED BY <2>1, <3>1, <3>2, <4>1 DEF PartInv
    <3>3. CASE consumer # "dropped"
      BY <2>1, <3>1, <3>3, PartFrame
    <3> QED BY <3>2, <3>3
  <2> QED BY <2>2, <2>3 DEF WarcInv
<1> QED BY <1>1, <1>2, <1>3, <1>4 DEF WarcNext

LEMMA WarcStart ==
  ASSUME WarcInit
  PROVE  WarcInv
<1>1. /\ kind \in {"file", "segment", "index"} /\ includeBody \in BOOLEAN
      /\ preserve = (kind = "index")
      /\ pulled = (IF kind = "file" THEN NumStreams ELSE 0)
      /\ merging = (IF kind = "file" THEN {1} ELSE {})
      /\ waiting = <<>> /\ consumer = "idle" /\ output = <<>>
      /\ parser = [s \in Streams |-> IF kind = "file" /\ s = 1 THEN "parsing" ELSE "none"]
      /\ read = [s \in Streams |-> 0] /\ batch = [s \in Streams |-> <<>>]
      /\ bodyBytes = [s \in Streams |-> 0] /\ channel = [s \in Streams |-> <<>>]
  BY DEF WarcInit
<1>2. /\ waiting \in Seq(Streams) /\ Len(waiting) = 0 /\ Range(waiting) = {}
      /\ output \in Seq(Streams \X Seq(Nat)) /\ DOMAIN output = {}
  <2>1. Range(<<>>) = {}
    BY DEF Range
  <2> QED BY <1>1, <2>1
<1>3. 1 \in Streams /\ NumStreams \in Nat /\ NumStreams >= 1
  BY MergeAssumption, WarcAssumption DEF Streams
<1>4. MergeInv
  <2>1. pulled \in 0 .. NumStreams /\ merging \subseteq Streams /\ merging \subseteq 1 .. pulled
    BY <1>1, <1>3
  <2>2. MergeTypeOK
    BY <1>1, <1>2, <2>1 DEF MergeTypeOK
  <2>3. Begun = pulled
    <3>1. pulled \in Int /\ Len(waiting) = 0
      BY <1>2, <2>1
    <3> QED BY <3>1 DEF Begun
  <2>4. CASE preserve
    <3>1. pulled = 0 /\ merging = {}
      BY <1>1, <2>4
    <3>2. Ordered
      BY <1>2, <2>3, <3>1, MergeAssumption DEF Ordered
    <3> QED BY <1>1, <1>2, <2>1, <2>2, <2>4, <3>2 DEF MergeInv, OutputInv
  <2>5. CASE ~preserve
    <3>1. Cardinality({1}) = 1 /\ Cardinality({}) = 0
      BY FS_Singleton, FS_EmptySet
    <3>2. Cardinality(merging) <= Parallelism
      BY <1>1, <3>1, MergeAssumption
    <3> QED BY <1>1, <1>2, <2>1, <2>2, <2>5, <3>2 DEF MergeInv, OutputInv, Unordered
  <2> QED BY <2>4, <2>5
<1>5. WarcBase /\ OutputWithin
  <2>1. <<>> \in Seq(Nat) /\ <<>> \in Seq(Seq(Nat))
    OBVIOUS
  <2>2. /\ parser \in [Streams -> ParserStates] /\ read \in [Streams -> Nat]
        /\ bodyBytes \in [Streams -> Nat] /\ batch \in [Streams -> Seq(Nat)]
        /\ channel \in [Streams -> Seq(Seq(Nat))]
    BY <1>1, <2>1 DEF ParserStates
  <2> QED BY <1>1, <1>2, <2>2 DEF WarcBase, OutputWithin
<1>6. ASSUME NEW s \in Streams PROVE PartInv(s)
  <2>1. /\ read[s] = 0 /\ batch[s] = <<>> /\ bodyBytes[s] = 0 /\ channel[s] = <<>>
        /\ parser[s] = (IF kind = "file" /\ s = 1 THEN "parsing" ELSE "none")
    BY <1>1
  <2>2. s \in Nat \ {0} /\ Len(Bodies[s]) \in Nat /\ <<>> \in Seq(Records(s)) /\ Len(<<>>) = 0
    BY BodyFacts
  <2>3. BatchInv(s)
    <3>1. WithinLimits(s, <<>>) /\ 0 < BatchSize
      BY <2>2, BodySumEmpty, WarcAssumption DEF WithinLimits
    <3>2. bodyBytes[s] = IF includeBody THEN BodySum(s, batch[s]) ELSE 0
      BY <2>1, BodySumEmpty
    <3>3. read[s] \in 0 .. Len(Bodies[s])
      BY <2>1, <2>2
    <3> QED BY <2>1, <2>2, <3>1, <3>2, <3>3 DEF BatchInv
  <2>4. KeptInv(s)
    <3>1. Delivered(s) = <<>>
      <4>1. DeliveredOf(output, s) = <<>>
        BY <1>1 DEF DeliveredOf
      <4> QED BY <4>1, DeliveredIs, FlattenEmpty
    <3>2. QueuedRecords(s) = <<>>
      BY <2>1, QueuedNone
    <3>3. [i \in 1 .. 0 |-> i] = <<>> /\ <<>> \o <<>> \o <<>> = <<>>
      OBVIOUS
    <3> QED BY <2>1, <3>1, <3>2, <3>3 DEF KeptInv
  <2>5. StageInv(s)
    <3>1. ~Failing(s)
      BY <2>1 DEF Failing
    <3>2. pulled < s => parser[s] = "none"
      <4>1. s <= NumStreams
        BY <1>3 DEF Streams
      <4> QED BY <1>1, <1>3, <2>1, <2>2, <4>1
    <3>3. ~(s \in Inputs \ InFlight /\ s <= pulled)
      BY <1>1, <2>2 DEF Inputs, InFlight
    <3> QED BY <2>1, <3>1, <3>2, <3>3 DEF StageInv
  <2>6. ChannelInv(s)
    BY <2>1 DEF ChannelInv
  <2> QED BY <1>1, <2>3, <2>4, <2>5, <2>6 DEF PartInv, HeldInv
<1> QED BY <1>4, <1>5, <1>6 DEF WarcInv

LEMMA WarcAlways == WarcSpec => []WarcInv
<1>1. WarcInit => WarcInv
  BY WarcStart
<1>2. WarcInv /\ [WarcNext]_warcVars => WarcInv'
  BY WarcStep
<1> QED BY <1>1, <1>2, PTL DEF WarcSpec
-----------------------------------------------------------------------------
(***************************************************************************)
(* What the invariant says of a scan.                                      *)
(***************************************************************************)
\* Every batch built, queued or delivered keeps to batch_size and, unless it
\* is one record, to MAX_BATCH_BODY_BYTES.
THEOREM BatchesWithinLimits == WarcSpec => []BatchLimits
<1>1. WarcInv => BatchLimits
  <2> SUFFICES ASSUME WarcInv PROVE BatchLimits
    OBVIOUS
  <2>1. ASSUME NEW s \in Streams
        PROVE  /\ WithinLimits(s, batch[s])
               /\ \A i \in DOMAIN channel[s] : WithinLimits(s, channel[s][i])
    <3>1. WithinLimits(s, batch[s]) /\ PartInv(s) /\ channel[s] \in Seq(Seq(Nat))
      BY WarcFacts DEF BatchInv
    <3>2. CASE channel[s] = <<>>
      BY <3>1, <3>2
    <3>3. CASE channel[s] # <<>>
      <4> DEFINE r == Head(channel[s])
      <4>1. channel[s] = <<r>> /\ WithinLimits(s, r)
        BY <3>1, <3>3 DEF PartInv, HeldInv, ChannelInv
      <4> HIDE DEF r
      <4>2. DOMAIN <<r>> = {1} /\ <<r>>[1] = r
        OBVIOUS
      <4> QED BY <3>1, <4>1, <4>2
    <3> QED BY <3>2, <3>3
  <2> QED BY <2>1 DEF WarcInv, OutputWithin, BatchLimits
<1> QED BY <1>1, WarcAlways, PTL

\* No record is lost, repeated or out of order between the parser and the
\* consumer.
THEOREM EveryRecordKept == WarcSpec => []RecordsKept
<1>1. WarcInv => RecordsKept
  <2>1. Inputs \subseteq Streams
    BY MergeAssumption, WarcAssumption DEF Inputs, Streams
  <2> QED BY <2>1 DEF WarcInv, PartInv, HeldInv, KeptInv, RecordsKept
<1> QED BY <1>1, WarcAlways, PTL

\* A scan that ends without an error delivered every record of every input,
\* and the ranges of an index in archive order.
THEOREM ScansComplete == WarcSpec => []ScanComplete
<1>1. WarcInv => ScanComplete
  <2> SUFFICES ASSUME WarcInv PROVE ScanComplete
    OBVIOUS
  <2>1. ASSUME consumer = "ended", NEW s \in Inputs
        PROVE  Len(Delivered(s)) = Len(Bodies[s])
    <3>1. s \in Streams
      BY MergeAssumption, WarcAssumption DEF Inputs, Streams
    <3>2. InFlight = {} /\ s <= pulled
      <4>1. merging = {} /\ waiting = <<>> /\ pulled = NumStreams
        BY <2>1 DEF WarcInv, MergeInv
      <4> QED BY <3>1, <4>1, MergeAssumption DEF InFlight, Range, Streams
    <3>3. KeptInv(s) /\ StageInv(s)
      BY <2>1, <3>1 DEF WarcInv, PartInv, HeldInv
    <3>4. read[s] = Len(Bodies[s]) /\ batch[s] = <<>> /\ channel[s] = <<>>
      BY <2>1, <3>1, <3>2, <3>3 DEF StageInv, Finished
    <3>5. Delivered(s) = FirstRecords(Len(Bodies[s]))
      <4>1. Delivered(s) \in Seq(Nat) /\ QueuedRecords(s) = <<>>
        BY <3>1, <3>4, WarcFacts, QueuedNone
      <4>2. Delivered(s) \o <<>> \o <<>> = Delivered(s)
        BY <4>1, ConcatEmpty
      <4> QED BY <3>3, <3>4, <4>1, <4>2 DEF KeptInv, FirstRecords
    <3>6. Len(Bodies[s]) \in Nat
      BY <3>1, BodyFacts
    <3>7. \A n \in Nat : Len(FirstRecords(n)) = n
      BY DEF FirstRecords
    <3> QED BY <3>5, <3>6, <3>7
  <2>2. kind = "index" =>
          \A i, j \in DOMAIN output : i < j => output[i][1] <= output[j][1]
    BY DEF WarcInv, WarcBase, MergeInv, OutputInv
  <2> QED BY <2>1, <2>2 DEF ScanComplete
<1> QED BY <1>1, WarcAlways, PTL
-----------------------------------------------------------------------------
(***************************************************************************)
(* WarcIndex: the work units cover the indexed bytes exactly, only         *)
(* overlapping entries are rejected, and the units are balanced.           *)
(***************************************************************************)
\* The loop invariant: the units are in order and cover the entries that the
\* loop has passed.
Ascending(list) ==
  \A i, j \in DOMAIN list : i < j => list[i].end <= list[j].start

LoopInv ==
  /\ status \in {"parsing", "summing", "sorting"} => units = <<>>
  /\ status \in {"parsing", "sorting"} => next = 1
  /\ status \in {"coalescing", "done"} =>
       /\ units = <<>> => next = 1
       /\ Ascending(units)
       /\ Covered(units, Len(units)) = Covered(entries, next - 1)
  /\ status = "done" => next = Len(entries) + 1

IndexInv == IndexTypeOK /\ LoopInv

\* What a unit covers when an adjacent entry is joined to it.
LEMMA JoinedBytes ==
  ASSUME NEW a \in Nat, NEW b \in Nat, NEW c \in Nat, a < b, b < c
  PROVE  a .. (c - 1) = (a .. (b - 1)) \cup (b .. (c - 1))
OBVIOUS

\* What a list covers with one entry more.
LEMMA CoveredNext ==
  ASSUME NEW list, NEW n \in Nat
  PROVE  Covered(list, n + 1) = Covered(list, n) \cup Bytes(list[n + 1])
<1>1. 1 .. (n + 1) = (1 .. n) \cup {n + 1}
  OBVIOUS
<1>2. QED
  BY <1>1 DEF Covered

\* What a list covers is decided by the entries it counts.
LEMMA CoveredSame ==
  ASSUME NEW list, NEW other, NEW n \in Nat,
         \A i \in 1 .. n : list[i] = other[i]
  PROVE  Covered(list, n) = Covered(other, n)
BY DEF Covered

LEMMA InitInv == IndexInit => IndexInv
<1> SUFFICES ASSUME IndexInit PROVE IndexInv
  OBVIOUS
<1>1. IndexTypeOK
  <2>1. entries \in Seq(Ranges) /\ units \in Seq(Ranges) /\ Len(entries) = 0
    BY DEF IndexInit
  <2>2. total \in 0 .. MaxU64 /\ target \in Nat /\ next \in 1 .. (Len(entries) + 1)
    BY <2>1, IndexAssumption DEF IndexInit
  <2> QED
    BY <2>1, <2>2 DEF IndexInit, IndexTypeOK
<1>2. LoopInv
  BY DEF IndexInit, LoopInv
<1> QED
  BY <1>1, <1>2 DEF IndexInv

LEMMA ParseEntryInv ==
  ASSUME IndexInv, NEW offset \in Offsets, NEW length \in Lengths, ParseEntry(offset, length)
  PROVE  IndexInv'
<1>1. offset \in Nat /\ length \in Nat
  BY IndexAssumption
<1>2. CASE ~Empty(length) /\ entries' = Append(entries, [start |-> offset, end |-> offset + length])
           /\ UNCHANGED status
  <2>1. [start |-> offset, end |-> offset + length] \in Ranges
    BY <1>1, <1>2 DEF Empty, Ranges
  <2>2. IndexTypeOK'
    BY <1>2, <2>1 DEF IndexInv, IndexTypeOK, ParseEntry
  <2>3. LoopInv'
    BY <1>2 DEF IndexInv, LoopInv, ParseEntry
  <2> QED
    BY <2>2, <2>3 DEF IndexInv
<1>3. CASE status' \in {"zero length", "entry overflows"} /\ UNCHANGED entries
  BY <1>3 DEF IndexInv, IndexTypeOK, LoopInv, ParseEntry
<1> QED
  BY <1>2, <1>3 DEF ParseEntry

LEMMA AddLengthInv ==
  ASSUME IndexInv, AddLength
  PROVE  IndexInv'
<1> DEFINE entry == entries[next]
           sum   == total + (entry.end - entry.start)
<1>1. /\ entries \in Seq(Ranges) /\ total \in 0 .. MaxU64 /\ MaxU64 \in Nat
      /\ next \in 1 .. (Len(entries) + 1) /\ next <= Len(entries)
  BY IndexAssumption DEF IndexInv, IndexTypeOK, AddLength
<1>2. IndexTypeOK'
  <2>1. entry \in Ranges
    BY <1>1
  <2>2. sum \in Nat
    BY <1>1, <2>1 DEF Ranges
  <2> HIDE DEF sum
  <2>3. total' \in 0 .. MaxU64
    <3>1. (total' = total) \/ (~(sum > MaxU64) /\ total' = sum)
      BY DEF AddLength, sum
    <3> QED
      BY <1>1, <2>2, <3>1
  <2>4. next' \in 1 .. (Len(entries) + 1)
    <3>1. next' = next \/ next' = next + 1
      BY DEF AddLength
    <3>2. Len(entries) \in Nat
      BY <1>1
    <3> QED
      BY <1>1, <3>1, <3>2
  <2>5. status' \in {"summing", "total overflows"}
    BY DEF AddLength
  <2> QED
    BY <2>3, <2>4, <2>5 DEF IndexInv, IndexTypeOK, AddLength
<1>3. LoopInv'
  BY DEF IndexInv, LoopInv, AddLength
<1> QED
  BY <1>2, <1>3 DEF IndexInv

LEMMA SetTargetInv ==
  ASSUME IndexInv, SetTarget
  PROVE  IndexInv'
<1>1. parallelism \in Nat \ {0} /\ total \in Nat
  <2>1. parallelism \in Parallelisms /\ total \in 0 .. MaxU64
    BY DEF IndexInv, IndexTypeOK
  <2> QED
    BY <2>1, IndexAssumption
<1>2. DivCeil(total, parallelism) \in Nat
  <2>1. parallelism \in Nat /\ parallelism > 0 /\ total + parallelism - 1 \in Nat
    BY <1>1
  <2> QED
    BY <2>1 DEF DivCeil
<1>3. IndexTypeOK'
  BY <1>2 DEF IndexInv, IndexTypeOK, SetTarget
<1>4. LoopInv'
  BY DEF IndexInv, LoopInv, SetTarget
<1> QED
  BY <1>3, <1>4 DEF IndexInv

\* Sorting permutes the entries.
LEMMA SortInv ==
  ASSUME IndexInv, Sort
  PROVE  IndexInv'
<1>1. PICK order \in Bijection(DOMAIN entries, DOMAIN entries) :
        entries' = [i \in 1 .. Len(entries) |-> entries[order[i]]]
  BY DEF Sort
<1>2. entries \in Seq(Ranges)
  BY DEF IndexInv, IndexTypeOK
<1>3. DOMAIN entries = 1 .. Len(entries) /\ Len(entries) \in Nat
  BY <1>2
<1>4. \A i \in 1 .. Len(entries) : order[i] \in 1 .. Len(entries)
  BY <1>3 DEF Bijection, Injection
<1>5. \A i \in 1 .. Len(entries) : entries[order[i]] \in Ranges
  BY <1>2, <1>3, <1>4
<1>6. entries' \in Seq(Ranges) /\ Len(entries') = Len(entries)
  BY <1>1, <1>3, <1>5
<1>7. IndexTypeOK'
  BY <1>6 DEF Sort, IndexInv, IndexTypeOK
<1>8. LoopInv'
  BY DEF Sort, IndexInv, LoopInv, Ascending, Covered
<1> QED
  BY <1>7, <1>8 DEF IndexInv

\* The loop of build_index_work_units.
LEMMA CoalesceInv ==
  ASSUME IndexInv, Coalesce
  PROVE  IndexInv'
<1> DEFINE entry == entries[next]
           n     == Len(units)
<1>1. /\ entries \in Seq(Ranges) /\ units \in Seq(Ranges)
      /\ status = "coalescing" /\ next \in 1 .. (Len(entries) + 1) /\ next <= Len(entries)
      /\ entries' = entries
  BY DEF IndexInv, IndexTypeOK, Coalesce
<1>2. entry \in Ranges /\ n \in Nat /\ DOMAIN units = 1 .. n /\ next \in Nat \ {0}
  BY <1>1
<1>3. Ascending(units) /\ Covered(units, n) = Covered(entries, next - 1)
  BY <1>1 DEF IndexInv, LoopInv
<1>4. Covered(entries, next) = Covered(entries, next - 1) \cup Bytes(entry)
  <2>1. next - 1 \in Nat /\ (next - 1) + 1 = next
    BY <1>2
  <2> QED
    BY <2>1, CoveredNext
<1>5. CASE Overlaps(entry)
  BY <1>5 DEF Coalesce, IndexInv, IndexTypeOK, LoopInv
<1>6. CASE ~Overlaps(entry) /\ ~Joins(entry)
  <2>1. units' = Append(units, entry) /\ next' = next + 1 /\ status' = status
    BY <1>6 DEF Coalesce
  <2>2. units' \in Seq(Ranges) /\ Len(units') = n + 1 /\ units'[n + 1] = entry
        /\ \A i \in 1 .. n : units'[i] = units[i]
    <3> HIDE DEF entry
    <3> QED
      BY <1>1, <1>2, <2>1, AppendFacts
  <2>3. IndexTypeOK'
    BY <1>1, <2>1, <2>2 DEF IndexInv, IndexTypeOK, Coalesce
  <2>4. Covered(units', n + 1) = Covered(units, n) \cup Bytes(entry)
    <3>1. Covered(units', n) = Covered(units, n)
      BY <1>2, <2>2, CoveredSame
    <3> QED
      BY <1>2, <2>2, <3>1, CoveredNext
  <2>5. Ascending(units')
    <3> SUFFICES ASSUME NEW i \in 1 .. (n + 1), NEW j \in 1 .. (n + 1), i < j
                 PROVE  units'[i].end <= units'[j].start
      BY <2>2 DEF Ascending
    <3>1. CASE j <= n
      <4>1. i \in 1 .. n /\ j \in 1 .. n
        BY <1>2, <3>1
      <4>2. units[i].end <= units[j].start
        BY <1>2, <1>3, <4>1 DEF Ascending
      <4> QED
        BY <2>2, <4>1, <4>2
    <3>2. CASE j = n + 1
      <4>1. units[n].end <= entry.start
        <5>1. units # <<>> /\ units[n] \in Ranges
          BY <1>1, <1>2, <3>2
        <5>2. ~(entry.start < units[n].end)
          BY <1>6, <5>1 DEF Overlaps, LastUnit
        <5>3. entry.start \in Nat /\ units[n].end \in Nat
          BY <1>2, <5>1 DEF Ranges
        <5> QED
          BY <5>2, <5>3
      <4>2. units[i].end <= units[n].end
        <5>1. units[n] \in Ranges /\ units[i] \in Ranges /\ i \in 1 .. n /\ n \in 1 .. n
          BY <1>1, <1>2, <3>2
        <5>2. i # n => units[i].end <= units[n].start
          BY <1>1, <1>3, <5>1 DEF Ascending
        <5> QED
          BY <5>1, <5>2 DEF Ranges
      <4>3. units[i] \in Ranges /\ units[n] \in Ranges /\ units'[i] = units[i]
        BY <1>1, <1>2, <2>2, <3>2
      <4>4. units[i].end \in Nat /\ units[n].end \in Nat /\ entry.start \in Nat
        BY <1>2, <4>3 DEF Ranges
      <4>5. units[i].end <= entry.start
        BY <4>1, <4>2, <4>4
      <4>6. units'[j] = entry
        BY <2>2, <3>2
      <4> QED
        BY <4>3, <4>5, <4>6
    <3> QED
      BY <1>2, <3>1, <3>2
  <2>6. LoopInv'
    <3>1. units' # <<>>
      BY <1>2, <2>2
    <3>2. Covered(units', Len(units')) = Covered(entries', next' - 1)
      <4>1. next' - 1 = next
        BY <1>2, <2>1
      <4> QED
        BY <1>1, <1>3, <1>4, <2>2, <2>4, <4>1
    <3> QED
      BY <1>1, <2>1, <2>5, <3>1, <3>2 DEF LoopInv
  <2> QED
    BY <2>3, <2>6 DEF IndexInv
<1>7. CASE ~Overlaps(entry) /\ Joins(entry)
  <2> DEFINE joined == [start |-> units[n].start, end |-> entry.end]
  <2>1. units # <<>> /\ units[n] \in Ranges /\ n \in 1 .. n /\ entry.start = units[n].end
    BY <1>1, <1>7 DEF Joins, LastUnit
  <2>2. units' = [units EXCEPT ![n] = joined] /\ next' = next + 1 /\ status' = status
    BY <1>7 DEF Coalesce, LastUnit
  <2>3. joined \in Ranges
    BY <1>2, <2>1 DEF Ranges
  <2>4. units' \in Seq(Ranges) /\ Len(units') = n /\ units'[n] = joined
        /\ \A i \in 1 .. n : i # n => units'[i] = units[i]
    <3> HIDE DEF joined, entry
    <3>1. units \in Seq(Ranges) /\ DOMAIN units = 1 .. n /\ Len(units) = n /\ n \in Nat
      BY <1>1, <1>2
    <3> HIDE DEF n
    <3> QED
      BY <2>1, <2>2, <2>3, <3>1, ExceptSeq
  <2>5. IndexTypeOK'
    <3>1. next' \in 1 .. (Len(entries') + 1)
      BY <1>1, <1>2, <2>2
    <3> QED
      BY <2>2, <2>4, <3>1 DEF IndexInv, IndexTypeOK, Coalesce
  <2>6. Bytes(joined) = Bytes(units[n]) \cup Bytes(entry)
    <3>1. /\ units[n].start \in Nat /\ units[n].end \in Nat /\ entry.end \in Nat
          /\ units[n].start < units[n].end /\ units[n].end < entry.end
      BY <1>2, <2>1 DEF Ranges
    <3>2. /\ Bytes(joined) = units[n].start .. (entry.end - 1)
          /\ Bytes(units[n]) = units[n].start .. (units[n].end - 1)
          /\ Bytes(entry) = units[n].end .. (entry.end - 1)
      BY <2>1 DEF Bytes
    <3> QED
      BY <3>1, <3>2, JoinedBytes
  <2>7. Covered(units', n) = Covered(units, n) \cup Bytes(entry)
    <3>1. n - 1 \in Nat /\ (n - 1) + 1 = n
      BY <1>2, <2>1
    <3>2. Covered(units, n) = Covered(units, n - 1) \cup Bytes(units[n])
      BY <3>1, CoveredNext
    <3>3. Covered(units', n) = Covered(units', n - 1) \cup Bytes(joined)
      BY <2>4, <3>1, CoveredNext
    <3>4. Covered(units', n - 1) = Covered(units, n - 1)
      BY <2>4, <3>1, CoveredSame
    <3> QED
      BY <2>6, <3>2, <3>3, <3>4
  <2>8. Ascending(units')
    <3> SUFFICES ASSUME NEW i \in 1 .. n, NEW j \in 1 .. n, i < j
                 PROVE  units'[i].end <= units'[j].start
      BY <2>4 DEF Ascending
    <3>1. units[i].end <= units[j].start
      BY <1>2, <1>3 DEF Ascending
    <3>2. i # n
      <4>1. n \in Nat
        BY <1>2
      <4> HIDE DEF n
      <4> QED
        BY <4>1
    <3>3. units'[i] = units[i] /\ units'[j].start = units[j].start
      BY <2>4, <3>2
    <3> QED
      BY <3>1, <3>3
  <2>9. LoopInv'
    <3>1. units' # <<>>
      BY <2>1, <2>4
    <3>2. Covered(units', Len(units')) = Covered(entries', next' - 1)
      <4>1. next' - 1 = next
        BY <1>2, <2>2
      <4> QED
        BY <1>1, <1>3, <1>4, <2>4, <2>7, <4>1
    <3> QED
      BY <1>1, <2>2, <2>8, <3>1, <3>2 DEF LoopInv
  <2> QED
    BY <2>5, <2>9 DEF IndexInv
<1> QED
  BY <1>5, <1>6, <1>7

LEMMA StepInv ==
  ASSUME IndexInv, [IndexNext]_indexVars
  PROVE  IndexInv'
<1>1. CASE \E offset \in Offsets, length \in Lengths : ParseEntry(offset, length)
  BY <1>1, ParseEntryInv
<1>2. CASE MalformedLine \/ EndOfIndex
  BY <1>2 DEF MalformedLine, EndOfIndex, IndexInv, IndexTypeOK, LoopInv
<1>3. CASE Return
  BY <1>3 DEF Return, IndexInv, IndexTypeOK, LoopInv, Ascending
<1>4. CASE UNCHANGED indexVars
  BY <1>4 DEF indexVars, IndexInv, IndexTypeOK, LoopInv, Ascending
<1> QED
  BY <1>1, <1>2, <1>3, <1>4, AddLengthInv, SetTargetInv, SortInv, CoalesceInv DEF IndexNext

\* The types of WarcIndex; total_length never exceeds a u64.
THEOREM IndexTypeCorrect == IndexSpec => []IndexTypeOK
<1>1. IndexInv => IndexTypeOK
  BY DEF IndexInv
<1> QED
  BY InitInv, StepInv, <1>1, PTL DEF IndexSpec

\* The work units of build_index_work_units are in archive order, do not
\* overlap and cover exactly the bytes of the index's entries.
THEOREM WorkUnitsCover == IndexSpec => []UnitsCover
<1>1. IndexInv => UnitsCover
  <2> SUFFICES ASSUME IndexInv, status = "done" PROVE UnitsCover
    BY DEF UnitsCover
  <2>1. next - 1 = Len(entries)
    BY DEF IndexInv, LoopInv, IndexTypeOK
  <2> QED
    BY <2>1 DEF UnitsCover, IndexInv, LoopInv, Ascending
<1> QED
  BY InitInv, StepInv, <1>1, PTL DEF IndexSpec
-----------------------------------------------------------------------------
(***************************************************************************)
(* That overlapping entries are rejected and no others, and that the units *)
(* are balanced.  The total is counted as the size of a set of bytes, which *)
(* it is unless two entries overlap.                                       *)
(***************************************************************************)
Overlapping(list) ==
  \E i, j \in DOMAIN list : i # j /\ Bytes(list[i]) \cap Bytes(list[j]) # {}

\* What the loop of the lengths has counted.
SumInv ==
  /\ \A i \in DOMAIN entries : entries[i].end <= MaxU64
  /\ status \in {"summing", "sorting", "coalescing", "done"} => entries # <<>>
  /\ status = "parsing" => total = 0
  /\ status = "summing" =>
       \/ Overlapping(entries)
       \/ total = Cardinality(Covered(entries, next - 1))
  /\ status \in {"sorting", "coalescing", "done"} =>
       /\ Overlapping(entries) \/ total = Cardinality(Covered(entries, Len(entries)))
       /\ total <= parallelism * target
  /\ status = "total overflows" => Overlapping(entries)

\* The first n entries are in order and do not overlap.
InOrder(list, n) == \A i, j \in 1 .. n : i < j => list[i].end <= list[j].start

\* Those of them that start a run of adjacent entries.
RunStarts(list, n) == {i \in 1 .. n : i = 1 \/ list[i - 1].end # list[i].start}

\* A unit is below the target without its last entry.
EndsBalanced(unit) ==
  \E i \in DOMAIN entries :
    /\ entries[i].end = unit.end
    /\ entries[i].start > unit.start => entries[i].start - unit.start < target

\* Every unit but the last of a run holds the target.
FullUnits(full) ==
  /\ Len(units) = full + Cardinality(RunStarts(entries, next - 1))
  /\ full * target + (LastUnit.end - LastUnit.start) <= Cardinality(Covered(entries, next - 1))

CoalescedInv ==
  /\ status \in {"coalescing", "done"} =>
       /\ Sorted(entries) /\ InOrder(entries, next - 1)
       /\ next = 1 => units = <<>>
       /\ next > 1 => /\ units # <<>> /\ LastUnit.end = entries[next - 1].end
                      /\ \E full \in Nat : FullUnits(full)
       /\ \A u \in DOMAIN units : EndsBalanced(units[u])
  /\ status = "overlap" => Overlapping(entries)

BalanceInv == SumInv /\ CoalescedInv
\* The bytes of a range, and those of two ranges in order.
LEMMA BytesSize ==
  ASSUME NEW r \in Ranges
  PROVE  IsFiniteSet(Bytes(r)) /\ Cardinality(Bytes(r)) = r.end - r.start
<1>1. r.start \in Int /\ r.end - 1 \in Int /\ ~(r.start > r.end - 1)
  BY DEF Ranges
<1>2. IsFiniteSet(r.start .. (r.end - 1))
      /\ Cardinality(r.start .. (r.end - 1)) = (r.end - 1) - r.start + 1
  BY <1>1, FS_Interval
<1> QED
  BY <1>1, <1>2 DEF Bytes, Ranges

LEMMA ApartBytes ==
  ASSUME NEW r \in Ranges, NEW s \in Ranges, r.end <= s.start
  PROVE  Bytes(r) \cap Bytes(s) = {}
BY DEF Bytes, Ranges

\* A list whose ranges end by m covers at most m bytes.
LEMMA CoveredBounded ==
  ASSUME NEW list \in Seq(Ranges), NEW n \in 0 .. Len(list), NEW m \in Nat,
         \A i \in DOMAIN list : list[i].end <= m
  PROVE  /\ IsFiniteSet(Covered(list, n))
         /\ Cardinality(Covered(list, n)) \in Nat /\ Cardinality(Covered(list, n)) <= m
<1>1. Covered(list, n) \subseteq 0 .. (m - 1)
  <2> SUFFICES ASSUME NEW i \in 1 .. n, NEW b \in Bytes(list[i]) PROVE b \in 0 .. (m - 1)
    BY DEF Covered
  <2>1. i \in DOMAIN list /\ list[i] \in Ranges
    OBVIOUS
  <2>2. list[i].end <= m /\ list[i].end \in Nat /\ list[i].start \in Nat
    BY <2>1 DEF Ranges
  <2>3. b \in list[i].start .. (list[i].end - 1)
    BY DEF Bytes
  <2> QED
    BY <2>2, <2>3
<1>2. IsFiniteSet(0 .. (m - 1)) /\ Cardinality(0 .. (m - 1)) = m
  <2>1. 0 \in Int /\ m - 1 \in Int
    OBVIOUS
  <2>2. IsFiniteSet(0 .. (m - 1))
        /\ Cardinality(0 .. (m - 1)) = IF 0 > m - 1 THEN 0 ELSE (m - 1) - 0 + 1
    BY <2>1, FS_Interval
  <2> QED
    BY <2>2
<1>3. IsFiniteSet(Covered(list, n)) /\ Cardinality(Covered(list, n)) <= m
  BY <1>1, <1>2, FS_Subset
<1> QED
  BY <1>3, FS_CardinalityType

\* What one entry more adds when it overlaps none before it.
LEMMA CoveredGrows ==
  ASSUME NEW list \in Seq(Ranges), NEW n \in Nat, n < Len(list), IsFiniteSet(Covered(list, n)),
         \A i \in 1 .. n : Bytes(list[i]) \cap Bytes(list[n + 1]) = {}
  PROVE  Cardinality(Covered(list, n + 1))
           = Cardinality(Covered(list, n)) + (list[n + 1].end - list[n + 1].start)
<1>1. list[n + 1] \in Ranges
  OBVIOUS
<1>2. Covered(list, n) \cap Bytes(list[n + 1]) = {}
  BY DEF Covered
<1>3. Cardinality(Covered(list, n)) \in Nat /\ Cardinality({}) = 0
  BY FS_CardinalityType, FS_EmptySet
<1>4. Covered(list, n + 1) = Covered(list, n) \cup Bytes(list[n + 1])
  BY CoveredNext
<1>5. IsFiniteSet(Bytes(list[n + 1]))
      /\ Cardinality(Bytes(list[n + 1])) = list[n + 1].end - list[n + 1].start
  BY <1>1, BytesSize
<1>6. Cardinality(Covered(list, n) \cup Bytes(list[n + 1]))
        = Cardinality(Covered(list, n)) + Cardinality(Bytes(list[n + 1]))
          - Cardinality(Covered(list, n) \cap Bytes(list[n + 1]))
  BY <1>5, FS_Union
<1>7. list[n + 1].end - list[n + 1].start \in Int
  BY <1>1 DEF Ranges
<1>8. Cardinality(Covered(list, n) \cap Bytes(list[n + 1])) = 0
  BY <1>2, <1>3
<1> DEFINE c == Cardinality(Covered(list, n))
           l == list[n + 1].end - list[n + 1].start
<1>11. c \in Int /\ l \in Int
  BY <1>3, <1>7
<1>9. Cardinality(Covered(list, n + 1)) = c + l - 0
  <2>1. Cardinality(Covered(list, n + 1)) = Cardinality(Covered(list, n) \cup Bytes(list[n + 1]))
    BY <1>4
  <2>2. Cardinality(Bytes(list[n + 1])) = l
    BY <1>5
  <2> HIDE DEF c, l
  <2> QED
    BY <1>6, <1>8, <2>1, <2>2 DEF c
<1> HIDE DEF c, l
<1>10. Cardinality(Covered(list, n + 1)) = c + l
  BY <1>9, <1>11
<1> QED
  BY <1>10 DEF c, l

LEMMA CoveredNothing == \A list : Covered(list, 0) = {}
BY DEF Covered

\* A larger share than a rounded one covers the whole.
LEMMA DivCeilCovers ==
  ASSUME NEW sum \in Nat, NEW parts \in Nat, parts > 0
  PROVE  sum <= parts * DivCeil(sum, parts)
<1> DEFINE d == sum + parts - 1
<1>1. d \in Nat
  OBVIOUS
<1>2. d \div parts \in Nat /\ d = parts * (d \div parts) + (d % parts) /\ (d % parts) \in 0 .. (parts - 1)
  BY <1>1
<1>3. DivCeil(sum, parts) = d \div parts
  BY DEF DivCeil
<1>4. parts * (d \div parts) \in Int
  BY <1>2
<1> DEFINE p == parts * (d \div parts)
           r == d % parts
<1>5. p \in Int /\ r \in 0 .. (parts - 1) /\ sum + parts - 1 = p + r
  BY <1>2, <1>4
<1> HIDE DEF p, r
<1>6. sum <= p
  BY <1>5
<1> QED
  BY <1>3, <1>6 DEF p
-----------------------------------------------------------------------------
\* A sorted list covers the same bytes, and overlaps if the list does.
LEMMA SortedCovers ==
  ASSUME NEW list \in Seq(Ranges), NEW order \in Bijection(DOMAIN list, DOMAIN list), NEW other,
         other = [i \in 1 .. Len(list) |-> list[order[i]]]
  PROVE  /\ Covered(other, Len(list)) = Covered(list, Len(list))
         /\ Overlapping(list) => Overlapping(other)
<1> DEFINE n == Len(list)
<1>1. n \in Nat /\ DOMAIN list = 1 .. n /\ DOMAIN other = 1 .. n
  OBVIOUS
<1>2. \A i \in 1 .. n : order[i] \in 1 .. n /\ other[i] = list[order[i]]
  BY <1>1 DEF Bijection, Injection
<1>3. \A j \in 1 .. n : \E i \in 1 .. n : order[i] = j
  BY <1>1 DEF Bijection, Surjection
<1> HIDE DEF n
<1>4. ASSUME NEW b
      PROVE  (\E i \in 1 .. n : b \in Bytes(other[i])) <=> (\E j \in 1 .. n : b \in Bytes(list[j]))
  <2>1. ASSUME NEW i \in 1 .. n, b \in Bytes(other[i]) PROVE \E j \in 1 .. n : b \in Bytes(list[j])
    BY <1>2, <2>1
  <2>2. ASSUME NEW j \in 1 .. n, b \in Bytes(list[j]) PROVE \E i \in 1 .. n : b \in Bytes(other[i])
    <3>1. PICK i \in 1 .. n : order[i] = j
      BY <1>3
    <3>2. b \in Bytes(other[i])
      BY <1>2, <2>2, <3>1
    <3> QED
      BY <3>2
  <2> QED
    BY <2>1, <2>2
<1>5. Covered(other, n) = Covered(list, n)
  BY <1>4 DEF Covered
<1>6. ASSUME Overlapping(list) PROVE Overlapping(other)
  <2>1. PICK j \in 1 .. n, k \in 1 .. n : j # k /\ Bytes(list[j]) \cap Bytes(list[k]) # {}
    BY <1>1, <1>6 DEF Overlapping
  <2>2. PICK i \in 1 .. n : order[i] = j
    BY <1>3
  <2>3. PICK h \in 1 .. n : order[h] = k
    BY <1>3
  <2>4. i # h /\ Bytes(other[i]) \cap Bytes(other[h]) # {}
    BY <1>2, <2>1, <2>2, <2>3
  <2> QED
    BY <1>1, <2>4 DEF Overlapping
<1> QED
  BY <1>5, <1>6 DEF n

LEMMA ParseEntrySum ==
  ASSUME IndexInv, SumInv, NEW offset \in Offsets, NEW length \in Lengths, ParseEntry(offset, length)
  PROVE  SumInv'
<1> DEFINE item == [start |-> offset, end |-> offset + length]
<1>1. /\ status = "parsing" /\ total = 0 /\ entries \in Seq(Ranges)
      /\ total' = total /\ target' = target /\ parallelism' = parallelism
      /\ \A i \in DOMAIN entries : entries[i].end <= MaxU64
  BY DEF ParseEntry, SumInv, IndexInv, IndexTypeOK
<1>2. CASE entries' = Append(entries, item) /\ status' = status /\ offset + length <= MaxU64
  <2>1. item.end <= MaxU64
    BY <1>2
  <2> HIDE DEF item
  <2>2. \A i \in DOMAIN entries' : entries'[i].end <= MaxU64
    BY <1>1, <1>2, <2>1
  <2> QED
    BY <1>1, <1>2, <2>2 DEF SumInv
<1>3. CASE entries' = entries /\ status' \in {"zero length", "entry overflows"}
  BY <1>1, <1>3 DEF SumInv
<1> QED
  BY <1>2, <1>3 DEF ParseEntry

\* A sum beyond u64 needs an overlap: without one it counts bytes, which all
\* have an offset in a u64.
LEMMA AddLengthSum ==
  ASSUME IndexInv, SumInv, AddLength
  PROVE  SumInv'
<1> DEFINE n     == next - 1
           entry == entries[next]
           sum   == total + (entry.end - entry.start)
<1>1. /\ status = "summing" /\ entries \in Seq(Ranges) /\ entries # <<>>
      /\ n \in 0 .. Len(entries) /\ n < Len(entries) /\ n + 1 = next /\ MaxU64 \in Nat
      /\ entries' = entries
      /\ \A i \in DOMAIN entries : entries[i].end <= MaxU64
  <2>1. /\ status = "summing" /\ entries \in Seq(Ranges) /\ entries # <<>>
        /\ next \in 1 .. (Len(entries) + 1) /\ next <= Len(entries) /\ entries' = entries
    BY DEF AddLength, SumInv, IndexInv, IndexTypeOK
  <2>2. n \in 0 .. Len(entries) /\ n < Len(entries) /\ n + 1 = next
    BY <2>1
  <2>3. \A i \in DOMAIN entries : entries[i].end <= MaxU64
    BY DEF SumInv
  <2> HIDE DEF n
  <2> QED
    BY <2>1, <2>2, <2>3, IndexAssumption
<1>2. ASSUME ~Overlapping(entries)
      PROVE  sum = Cardinality(Covered(entries, next)) /\ sum <= MaxU64
  <2>1. total = Cardinality(Covered(entries, n))
    BY <1>1, <1>2 DEF SumInv
  <2> HIDE DEF n
  <2>2. ASSUME NEW i \in 1 .. n PROVE Bytes(entries[i]) \cap Bytes(entries[n + 1]) = {}
    <3>1. i \in DOMAIN entries /\ n + 1 \in DOMAIN entries /\ i # n + 1
      BY <1>1
    <3> HIDE DEF entry, sum
    <3> QED
      BY <1>2, <3>1 DEF Overlapping
  <2>3. IsFiniteSet(Covered(entries, n)) /\ n \in Nat
    <3>1. n \in 0 .. Len(entries) /\ entries \in Seq(Ranges) /\ MaxU64 \in Nat
          /\ \A i \in DOMAIN entries : entries[i].end <= MaxU64
      BY <1>1
    <3>2. n \in Nat
      BY <3>1
    <3> QED
      BY <3>1, <3>2, CoveredBounded
  <2>4. Cardinality(Covered(entries, n + 1))
          = Cardinality(Covered(entries, n)) + (entries[n + 1].end - entries[n + 1].start)
    BY <1>1, <2>2, <2>3, CoveredGrows
  <2>5. sum = Cardinality(Covered(entries, n + 1))
    BY <1>1, <2>1, <2>4
  <2>6. n + 1 \in 0 .. Len(entries)
    BY <1>1
  <2>7. Cardinality(Covered(entries, n + 1)) <= MaxU64
    BY <1>1, <2>6, CoveredBounded
  <2> QED
    BY <1>1, <2>5, <2>7
<1>3. CASE sum > MaxU64
  <2>1. status' = "total overflows"
    BY <1>3 DEF AddLength
  <2>2. Overlapping(entries)
    <3>1. sum \in Int
      <4>1. total \in Nat /\ entry \in Ranges
        BY <1>1, IndexAssumption DEF IndexInv, IndexTypeOK
      <4> QED
        BY <4>1 DEF Ranges
    <3> HIDE DEF sum
    <3> QED
      BY <1>1, <1>2, <1>3, <3>1
  <2> QED
    BY <1>1, <2>1, <2>2 DEF SumInv
<1>4. CASE ~(sum > MaxU64)
  <2>1. total' = sum /\ next' = next + 1 /\ status' = "summing"
    BY <1>1, <1>4 DEF AddLength
  <2>2. next' - 1 = next
    BY <1>1, <2>1
  <2> HIDE DEF sum
  <2>3. Overlapping(entries') \/ total' = Cardinality(Covered(entries', next' - 1))
    BY <1>1, <1>2, <2>1, <2>2
  <2> QED
    BY <1>1, <2>1, <2>3 DEF SumInv
<1> QED
  BY <1>3, <1>4

LEMMA SetTargetSum ==
  ASSUME IndexInv, SumInv, SetTarget
  PROVE  SumInv'
<1>1. /\ status = "summing" /\ status' = "sorting" /\ entries' = entries /\ entries # <<>>
      /\ total' = total /\ target' = DivCeil(total, parallelism) /\ parallelism' = parallelism
      /\ \A i \in DOMAIN entries : entries[i].end <= MaxU64
  BY DEF SetTarget, SumInv
<1>2. next - 1 = Len(entries)
  BY DEF SetTarget, IndexInv, IndexTypeOK
<1>3. Overlapping(entries) \/ total = Cardinality(Covered(entries, Len(entries)))
  BY <1>1, <1>2 DEF SumInv
<1>4. total <= parallelism * DivCeil(total, parallelism)
  <2>1. total \in Nat /\ parallelism \in Nat /\ parallelism > 0
    <3>1. parallelism \in Parallelisms /\ total \in 0 .. MaxU64
      BY DEF IndexInv, IndexTypeOK
    <3> QED
      BY <3>1, IndexAssumption
  <2> QED
    BY <2>1, DivCeilCovers
<1>5. total' <= parallelism' * target'
  BY <1>1, <1>4
<1> QED
  BY <1>1, <1>3, <1>5 DEF SumInv

LEMMA SortSum ==
  ASSUME IndexInv, SumInv, Sort
  PROVE  SumInv'
<1>1. PICK order \in Bijection(DOMAIN entries, DOMAIN entries) :
        entries' = [i \in 1 .. Len(entries) |-> entries[order[i]]]
  BY DEF Sort
<1>2. /\ entries \in Seq(Ranges) /\ status = "sorting" /\ status' = "coalescing"
      /\ total' = total /\ target' = target /\ parallelism' = parallelism
      /\ \A i \in DOMAIN entries : entries[i].end <= MaxU64
      /\ entries # <<>> /\ total <= parallelism * target
  BY DEF Sort, SumInv, IndexInv, IndexTypeOK
<1>3. Len(entries') = Len(entries) /\ DOMAIN entries' = DOMAIN entries
  BY <1>1, <1>2
<1>4. /\ Covered(entries', Len(entries)) = Covered(entries, Len(entries))
      /\ Overlapping(entries) => Overlapping(entries')
  BY <1>1, <1>2, SortedCovers
<1>5. \A i \in DOMAIN entries' : entries'[i].end <= MaxU64
  <2>1. \A i \in DOMAIN entries : order[i] \in DOMAIN entries
    BY DEF Bijection, Injection
  <2>2. DOMAIN entries = 1 .. Len(entries)
    BY <1>2
  <2> QED
    BY <1>1, <1>2, <1>3, <2>1, <2>2
<1>6. entries' # <<>>
  BY <1>2, <1>3
<1>7. Overlapping(entries) \/ total = Cardinality(Covered(entries, Len(entries)))
  BY <1>2 DEF SumInv
<1>8. Overlapping(entries') \/ total' = Cardinality(Covered(entries', Len(entries')))
  BY <1>2, <1>3, <1>4, <1>7
<1> QED
  BY <1>2, <1>5, <1>6, <1>8 DEF SumInv

LEMMA SumStep ==
  ASSUME IndexInv, SumInv, [IndexNext]_indexVars
  PROVE  SumInv'
<1>1. CASE \E offset \in Offsets, length \in Lengths : ParseEntry(offset, length)
  BY <1>1, ParseEntrySum
<1>2. CASE EndOfIndex
  <2>1. next = 1 /\ total = 0 /\ total' = total /\ next' = next /\ entries' = entries
    BY <1>2 DEF EndOfIndex, IndexInv, LoopInv, SumInv
  <2>2. Covered(entries', next' - 1) = {}
    BY <2>1, CoveredNothing
  <2>3. total' = Cardinality(Covered(entries', next' - 1))
    BY <2>1, <2>2, FS_EmptySet
  <2>4. status' = "no entries" \/ (status' = "summing" /\ entries' # <<>>)
    BY <1>2 DEF EndOfIndex
  <2> QED
    BY <2>1, <2>3, <2>4 DEF SumInv
<1>3. CASE MalformedLine \/ Coalesce \/ Return \/ UNCHANGED indexVars
  <2>1. /\ entries' = entries /\ total' = total /\ target' = target /\ parallelism' = parallelism
        /\ \/ status' = status /\ (status = "coalescing" \/ next' = next)
           \/ status' \in {"malformed", "overlap"}
           \/ status = "coalescing" /\ status' = "done"
    BY <1>3 DEF MalformedLine, Coalesce, Return, indexVars
  <2> QED
    BY <2>1 DEF SumInv
<1> QED
  BY <1>1, <1>2, <1>3, AddLengthSum, SetTargetSum, SortSum DEF IndexNext
-----------------------------------------------------------------------------
\* One entry more starts a run or continues one.
LEMMA RunStartsNext ==
  ASSUME NEW list, NEW n \in Nat
  PROVE  /\ Cardinality(RunStarts(list, n)) \in Nat
         /\ Cardinality(RunStarts(list, n + 1)) =
              IF n = 0 \/ list[n].end # list[n + 1].start
              THEN Cardinality(RunStarts(list, n)) + 1 ELSE Cardinality(RunStarts(list, n))
<1> DEFINE starts == n = 0 \/ list[n].end # list[n + 1].start
<1>1. IsFiniteSet(1 .. n)
  BY FS_Interval
<1>2. IsFiniteSet(RunStarts(list, n))
  <2>1. RunStarts(list, n) \in SUBSET (1 .. n)
    BY DEF RunStarts
  <2> QED
    BY <1>1, <2>1, FS_Subset
<1>3. n + 1 \notin RunStarts(list, n)
  BY DEF RunStarts
<1>4. \A i : i \in 1 .. (n + 1) <=> i \in 1 .. n \/ i = n + 1
  OBVIOUS
<1>5. (n + 1) - 1 = n /\ (n + 1 = 1 <=> n = 0)
  OBVIOUS
<1>6. CASE starts
  <2>1. RunStarts(list, n + 1) = RunStarts(list, n) \cup {n + 1}
    BY <1>4, <1>5, <1>6 DEF RunStarts
  <2>2. Cardinality(RunStarts(list, n) \cup {n + 1}) = Cardinality(RunStarts(list, n)) + 1
    BY <1>2, <1>3, FS_AddElement
  <2> QED
    BY <1>2, <1>6, <2>1, <2>2, FS_CardinalityType
<1>7. CASE ~starts
  <2>1. RunStarts(list, n + 1) = RunStarts(list, n)
    BY <1>4, <1>5, <1>7 DEF RunStarts
  <2> QED
    BY <1>2, <1>7, <2>1, FS_CardinalityType
<1> QED
  BY <1>6, <1>7

\* The loop invariant where the loop is at an entry.
LEMMA CoalesceFacts ==
  ASSUME IndexInv, SumInv, CoalescedInv, Coalesce
  PROVE  /\ status = "coalescing" /\ entries' = entries /\ target' = target
         /\ entries \in Seq(Ranges) /\ units \in Seq(Ranges) /\ target \in Nat
         /\ next \in 1 .. Len(entries) /\ Sorted(entries) /\ InOrder(entries, next - 1)
         /\ next = 1 => units = <<>>
         /\ next > 1 => units # <<>> /\ LastUnit.end = entries[next - 1].end
         /\ \A i \in DOMAIN entries : entries[i].end <= MaxU64
<1>1. status = "coalescing" /\ entries' = entries /\ target' = target /\ next <= Len(entries)
  BY DEF Coalesce
<1>2. /\ entries \in Seq(Ranges) /\ units \in Seq(Ranges) /\ target \in Nat
      /\ next \in 1 .. (Len(entries) + 1)
  BY DEF IndexInv, IndexTypeOK
<1>3. next \in 1 .. Len(entries)
  BY <1>1, <1>2
<1> QED
  BY <1>1, <1>2, <1>3 DEF SumInv, CoalescedInv

\* An entry that starts before the end of the last unit shares its first byte
\* with the entry before it.
LEMMA RejectedOverlaps ==
  ASSUME IndexInv, SumInv, CoalescedInv, Coalesce, Overlaps(entries[next])
  PROVE  Overlapping(entries)
<1> DEFINE last  == entries[next - 1]
           entry == entries[next]
<1>1. next > 1 /\ entry.start < last.end
  <2>1. units # <<>> /\ entry.start < LastUnit.end
    BY DEF Overlaps
  <2>2. next # 1 /\ next \in 1 .. Len(entries)
    BY <2>1, CoalesceFacts
  <2>3. next > 1
    BY <2>2
  <2> QED
    BY <2>1, <2>3, CoalesceFacts
<1>2. entries \in Seq(Ranges) /\ next \in DOMAIN entries /\ next - 1 \in DOMAIN entries
      /\ next - 1 < next
  <2>1. entries \in Seq(Ranges) /\ next \in 1 .. Len(entries)
    BY CoalesceFacts
  <2> QED
    BY <1>1, <2>1
<1>3. last.start <= entry.start
  BY <1>2, CoalesceFacts DEF Sorted
<1>4. last \in Ranges /\ entry \in Ranges
  BY <1>2
<1> HIDE DEF last, entry
<1>5. entry.start \in Bytes(last) \cap Bytes(entry)
  BY <1>1, <1>3, <1>4 DEF Bytes, Ranges
<1> QED
  BY <1>2, <1>5 DEF Overlapping, last, entry

\* Any other starts at or after the end of every entry before it.
LEMMA AcceptedInOrder ==
  ASSUME IndexInv, SumInv, CoalescedInv, Coalesce, ~Overlaps(entries[next])
  PROVE  InOrder(entries, next)
<1> DEFINE entry == entries[next]
<1>1. /\ entries \in Seq(Ranges) /\ next \in 1 .. Len(entries) /\ InOrder(entries, next - 1)
      /\ units \in Seq(Ranges)
  BY CoalesceFacts
<1>2. ASSUME NEW i \in 1 .. (next - 1) PROVE entries[i].end <= entry.start
  <2> DEFINE last == entries[next - 1]
  <2>1. next > 1 /\ next - 1 \in 1 .. (next - 1) /\ next - 1 \in DOMAIN entries
        /\ i \in DOMAIN entries /\ next \in DOMAIN entries
    BY <1>1
  <2>2. entries[i] \in Ranges /\ last \in Ranges /\ entry \in Ranges
    BY <1>1, <2>1
  <2>3. last.end <= entry.start
    <3>1. units # <<>> /\ LastUnit.end = last.end
      BY <2>1, CoalesceFacts
    <3>2. ~(entry.start < last.end)
      BY <3>1 DEF Overlaps
    <3> QED
      BY <2>2, <3>2 DEF Ranges
  <2>4. CASE i = next - 1
    BY <2>3, <2>4
  <2>5. CASE i # next - 1
    <3>1. i < next - 1
      BY <1>1, <2>5
    <3>2. entries[i].end <= last.start
      BY <1>1, <2>1, <3>1 DEF InOrder
    <3> HIDE DEF last, entry
    <3>3. last.start < last.end /\ last.start \in Nat /\ last.end \in Nat /\ entries[i].end \in Nat
          /\ entry.start \in Nat
      BY <2>2 DEF Ranges
    <3> QED
      BY <2>3, <3>2, <3>3
  <2> QED
    BY <2>4, <2>5
<1> SUFFICES ASSUME NEW i \in 1 .. next, NEW j \in 1 .. next, i < j
             PROVE  entries[i].end <= entries[j].start
  BY DEF InOrder
<1>3. CASE j = next
  <2>1. i \in 1 .. (next - 1)
    BY <1>1, <1>3
  <2> QED
    BY <1>2, <1>3, <2>1
<1>4. CASE j # next
  <2>1. i \in 1 .. (next - 1) /\ j \in 1 .. (next - 1)
    BY <1>1, <1>4
  <2> QED
    BY <1>1, <2>1 DEF InOrder
<1> QED
  BY <1>3, <1>4

\* So it adds its length to the bytes covered.
LEMMA AcceptedCovers ==
  ASSUME IndexInv, SumInv, CoalescedInv, Coalesce, ~Overlaps(entries[next])
  PROVE  /\ Cardinality(Covered(entries, next - 1)) \in Nat
         /\ Cardinality(Covered(entries, next)) =
              Cardinality(Covered(entries, next - 1)) + (entries[next].end - entries[next].start)
<1> DEFINE n == next - 1
<1>1. /\ entries \in Seq(Ranges) /\ next \in 1 .. Len(entries)
      /\ \A i \in DOMAIN entries : entries[i].end <= MaxU64
  BY CoalesceFacts
<1>2. n \in Nat /\ n + 1 = next /\ n < Len(entries) /\ n \in 0 .. Len(entries)
  BY <1>1
<1>3. \A i \in 1 .. n : Bytes(entries[i]) \cap Bytes(entries[n + 1]) = {}
  <2> SUFFICES ASSUME NEW i \in 1 .. n PROVE Bytes(entries[i]) \cap Bytes(entries[next]) = {}
    BY <1>2
  <2>1. i \in 1 .. next /\ next \in 1 .. next /\ i < next
    BY <1>1
  <2>2. entries[i].end <= entries[next].start
    BY <2>1, AcceptedInOrder DEF InOrder
  <2>3. entries[i] \in Ranges /\ entries[next] \in Ranges
    BY <1>1
  <2> QED
    BY <2>2, <2>3, ApartBytes
<1> HIDE DEF n
<1>4. IsFiniteSet(Covered(entries, n)) /\ Cardinality(Covered(entries, n)) \in Nat
  BY <1>1, <1>2, CoveredBounded, IndexAssumption
<1>5. Cardinality(Covered(entries, n + 1)) =
        Cardinality(Covered(entries, n)) + (entries[n + 1].end - entries[n + 1].start)
  BY <1>1, <1>2, <1>3, <1>4, CoveredGrows
<1> QED
  BY <1>2, <1>4, <1>5 DEF n

LEMMA AcceptedStep ==
  ASSUME IndexInv, SumInv, CoalescedInv, Coalesce, ~Overlaps(entries[next])
  PROVE  CoalescedInv'
<1> DEFINE entry  == entries[next]
           n      == Len(units)
           len    == entry.end - entry.start
           covers == Cardinality(Covered(entries, next - 1))
           starts == Cardinality(RunStarts(entries, next - 1))
           joined == [start |-> units[n].start, end |-> entry.end]
<1>1. /\ status = "coalescing" /\ entries' = entries /\ target' = target
      /\ entries \in Seq(Ranges) /\ units \in Seq(Ranges) /\ target \in Nat
      /\ next \in 1 .. Len(entries) /\ Sorted(entries)
      /\ next = 1 => units = <<>>
      /\ next > 1 => units # <<>> /\ units[n].end = entries[next - 1].end
  BY CoalesceFacts DEF LastUnit
<1>2. /\ status' = status /\ next' = next + 1
      /\ units' = IF Joins(entry) THEN [units EXCEPT ![n] = joined] ELSE Append(units, entry)
  BY DEF Coalesce, LastUnit
<1>3. next' - 1 = next /\ next' > 1 /\ next' # 1 /\ next \in DOMAIN entries /\ next - 1 \in Nat
      /\ (next - 1) + 1 = next /\ (next - 1 = 0 <=> next = 1)
  <2>1. next' = next + 1 /\ next \in Nat \ {0} /\ next \in DOMAIN entries
    BY <1>1, <1>2
  <2> QED
    BY <2>1
<1>4. entry \in Ranges /\ n \in Nat /\ DOMAIN units = 1 .. n
  BY <1>1, <1>3
<1>5. entry.start \in Nat /\ entry.end \in Nat /\ len \in Nat
  BY <1>4 DEF Ranges
<1>6. InOrder(entries, next)
  BY AcceptedInOrder
<1>7. covers \in Nat /\ Cardinality(Covered(entries, next)) = covers + len
  BY AcceptedCovers
<1>8. /\ starts \in Nat
      /\ Cardinality(RunStarts(entries, next)) =
           IF next = 1 \/ entries[next - 1].end # entry.start THEN starts + 1 ELSE starts
  BY <1>3, RunStartsNext
<1>9. \A u \in DOMAIN units : EndsBalanced(units[u])
  BY <1>1 DEF CoalescedInv
<1>10. units # <<>> => n \in 1 .. n /\ units[n] \in Ranges
  BY <1>1, <1>4
<1>11. SUFFICES /\ units' # <<>> /\ units'[Len(units')].end = entry.end
                /\ \E full \in Nat :
                     /\ Len(units') = full + Cardinality(RunStarts(entries, next))
                     /\ full * target + (units'[Len(units')].end - units'[Len(units')].start)
                          <= covers + len
                /\ \A u \in DOMAIN units' : EndsBalanced(units'[u])
  <2>1. ASSUME NEW full,
               /\ Len(units') = full + Cardinality(RunStarts(entries, next))
               /\ full * target + (units'[Len(units')].end - units'[Len(units')].start)
                    <= covers + len
        PROVE  FullUnits(full)'
    BY <1>1, <1>3, <1>7, <2>1 DEF FullUnits, LastUnit
  <2>2. (\A u \in DOMAIN units' : EndsBalanced(units'[u]))
          => (\A u \in DOMAIN units : EndsBalanced(units[u]))'
    BY <1>1 DEF EndsBalanced
  <2>3. InOrder(entries, next - 1)' /\ Sorted(entries)'
    BY <1>1, <1>3, <1>6
  <2>4. (units'[Len(units')].end = entry.end) => (LastUnit.end = entries[next - 1].end)'
    BY <1>1, <1>3 DEF LastUnit
  <2>5. status' = "coalescing"
    BY <1>1, <1>2
  <2> HIDE DEF entry, n, len, covers, starts, joined
  <2> QED
    BY <1>3, <2>1, <2>2, <2>3, <2>4, <2>5 DEF CoalescedInv
<1>12. CASE Joins(entry)
  <2>1. units # <<>> /\ entry.start = units[n].end /\ units[n].end - units[n].start < target
    BY <1>12 DEF Joins, LastUnit
  <2>2. n \in 1 .. n /\ units[n] \in Ranges /\ next # 1 /\ next > 1
    BY <1>1, <1>10, <2>1
  <2>3. units' = [units EXCEPT ![n] = joined]
    BY <1>2, <1>12
  <2>4. /\ Len(units') = n /\ DOMAIN units' = 1 .. n /\ units' # <<>> /\ units'[n] = joined
        /\ \A u \in 1 .. n : u # n => units'[u] = units[u]
    BY <1>1, <1>4, <2>2, <2>3
  <2>5. Cardinality(RunStarts(entries, next)) = starts
    BY <1>1, <1>8, <2>1, <2>2
  <2>6. PICK full \in Nat : FullUnits(full)
    BY <1>1, <2>2 DEF CoalescedInv
  <2>7. n = full + starts /\ full * target + (units[n].end - units[n].start) <= covers
    BY <2>6 DEF FullUnits, LastUnit
  <2>8. full * target + (joined.end - joined.start) <= covers + len
    <3> DEFINE p == full * target
    <3>1. p \in Nat /\ units[n].start \in Nat /\ units[n].end \in Nat
      BY <1>1, <2>2, <2>6 DEF Ranges
    <3>2. joined.end - joined.start = (units[n].end - units[n].start) + len
      BY <1>5, <2>1, <3>1
    <3>3. len \in Int /\ covers \in Int
      BY <1>5, <1>7
    <3>4. p + (units[n].end - units[n].start) <= covers
      BY <2>7
    <3> DEFINE old == units[n].end - units[n].start
               new == joined.end - joined.start
    <3>5. old \in Int /\ new = old + len /\ p \in Int /\ p + old <= covers
      BY <3>1, <3>2, <3>4
    <3> HIDE DEF p, covers, len, old, new
    <3>6. p + new <= covers + len
      BY <3>3, <3>5
    <3> HIDE DEF joined
    <3> QED
      BY <3>6, Zenon DEF p, new
  <2>9. EndsBalanced(joined)
    <3>1. entries[next].end = joined.end /\ joined.start = units[n].start
      OBVIOUS
    <3>2. entries[next].start = units[n].end /\ units[n].end - units[n].start < target
      BY <2>1, Zenon
    <3> HIDE DEF joined, n, entry, len, covers, starts
    <3>3. entries[next].start - joined.start = units[n].end - units[n].start
      BY <3>1, <3>2, Zenon
    <3>4. entries[next].start - joined.start < target
      <4>1. units[n].end \in Nat /\ units[n].start \in Nat
        BY <2>2 DEF Ranges
      <4>2. target \in Nat
        BY DEF IndexInv, IndexTypeOK
      <4> QED
        BY <3>2, <3>3, <4>1, <4>2
    <3> QED
      BY <1>3, <3>1, <3>4, Zenon DEF EndsBalanced
  <2>10. \A u \in DOMAIN units' : EndsBalanced(units'[u])
    BY <1>4, <1>9, <2>4, <2>9
  <2> HIDE DEF covers, starts, len
  <2> QED
    BY <2>4, <2>5, <2>6, <2>7, <2>8, <2>10
<1>13. CASE ~Joins(entry)
  <2>1. units' = Append(units, entry)
    BY <1>2, <1>13
  <2>2. /\ Len(units') = n + 1 /\ DOMAIN units' = 1 .. (n + 1) /\ units' # <<>>
        /\ units'[n + 1] = entry /\ \A u \in 1 .. n : units'[u] = units[u]
    <3> HIDE DEF entry
    <3> QED
      BY <1>1, <1>4, <2>1, AppendFacts
  <2>3. EndsBalanced(entry)
    <3>1. entries[next].end = entry.end /\ ~(entries[next].start > entry.start)
      BY <1>5
    <3> HIDE DEF entry
    <3> QED
      BY <1>3, <3>1 DEF EndsBalanced
  <2>4. \A u \in DOMAIN units' : EndsBalanced(units'[u])
    <3> SUFFICES ASSUME NEW u \in 1 .. (n + 1) PROVE EndsBalanced(units'[u])
      BY <2>2
    <3>1. u \in 1 .. n \/ u = n + 1
      BY <1>4
    <3> QED
      BY <1>4, <1>9, <2>2, <2>3, <3>1
  <2>5. \E full \in Nat : n + 1 = full + Cardinality(RunStarts(entries, next))
                          /\ full * target + len <= covers + len
    <3>1. CASE next = 1
      <4>1. n = 0 /\ starts = 0
        <5>1. RunStarts(entries, 0) = {}
          BY DEF RunStarts
        <5>2. next - 1 = 0 /\ n = 0
          BY <1>1, <3>1
        <5> QED
          BY <5>1, <5>2, FS_EmptySet
      <4>2. n + 1 = 0 + Cardinality(RunStarts(entries, next))
        BY <1>8, <3>1, <4>1
      <4>3. 0 * target + len <= covers + len
        BY <1>1, <1>5, <1>7
      <4> QED
        BY <4>2, <4>3
    <3>2. CASE next # 1
      <4>1. next > 1 /\ units # <<>>
        BY <1>1, <3>2
      <4>2. PICK full \in Nat : FullUnits(full)
        BY <1>1, <4>1 DEF CoalescedInv
      <4> DEFINE last == units[n].end - units[n].start
                 p    == full * target
      <4>3. n = full + starts /\ p + last <= covers
        BY <4>2 DEF FullUnits, LastUnit
      <4>4. p \in Nat /\ last \in Nat
        <5>1. last \in Nat
          BY <1>10, <4>1 DEF Ranges
        <5> QED
          BY <1>1, <4>2, <5>1
      <4>5. CASE entries[next - 1].end # entry.start
        <5>1. Cardinality(RunStarts(entries, next)) = starts + 1
          BY <1>8, <4>5
        <5>2. p + len <= covers + len
          <6> HIDE DEF p, last, covers, len
          <6> QED
            BY <1>5, <1>7, <4>3, <4>4
        <5>3. n + 1 = full + (starts + 1)
          BY <1>8, <4>3
        <5> QED
          BY <4>2, <5>1, <5>2, <5>3
      <4>6. CASE entries[next - 1].end = entry.start
        <5>1. Cardinality(RunStarts(entries, next)) = starts
          BY <1>8, <3>2, <4>6
        <5>2. ~(last < target)
          BY <1>1, <1>13, <4>1, <4>6 DEF Joins, LastUnit
        <5>3. (full + 1) * target = p + target
          BY <1>1, <4>2
        <5>4. (full + 1) * target + len <= covers + len
          <6>1. p + target <= covers
            <7> HIDE DEF p, last, covers
            <7> QED
              BY <1>1, <1>7, <4>3, <4>4, <5>2
          <6> HIDE DEF p, last, covers, len
          <6> QED
            BY <1>1, <1>5, <1>7, <4>4, <5>3, <6>1
        <5>5. n + 1 = (full + 1) + starts /\ full + 1 \in Nat
          BY <1>8, <4>2, <4>3
        <5> QED
          BY <5>1, <5>4, <5>5
      <4> QED
        BY <4>5, <4>6
    <3> QED
      BY <3>1, <3>2
  <2>6. units'[Len(units')].end - units'[Len(units')].start = len /\ units'[Len(units')].end = entry.end
    BY <2>2
  <2> HIDE DEF covers, starts, len, entry
  <2> QED
    BY <2>2, <2>4, <2>5, <2>6
<1> QED
  BY <1>12, <1>13

LEMMA CoalescedStep ==
  ASSUME IndexInv, SumInv, CoalescedInv, [IndexNext]_indexVars
  PROVE  CoalescedInv'
<1>1. CASE Coalesce
  <2>1. CASE Overlaps(entries[next])
    <3>1. status' = "overlap" /\ entries' = entries
      BY <1>1, <2>1 DEF Coalesce
    <3>2. Overlapping(entries')
      BY <1>1, <2>1, <3>1, RejectedOverlaps
    <3> QED
      BY <3>1, <3>2 DEF CoalescedInv
  <2> QED
    BY <1>1, <2>1, AcceptedStep
<1>2. CASE Sort
  <2>1. /\ status = "sorting" /\ status' = "coalescing" /\ next' = next /\ units' = units
        /\ Sorted(entries')
    BY <1>2 DEF Sort
  <2>2. units' = <<>> /\ next' = 1
    BY <2>1 DEF IndexInv, LoopInv
  <2>3. InOrder(entries, next - 1)'
    BY <2>2 DEF InOrder
  <2>4. ~(next' > 1) /\ DOMAIN units' = {}
    BY <2>2
  <2>5. Sorted(entries)'
    BY <2>1
  <2> HIDE DEF InOrder, Sorted, EndsBalanced, FullUnits
  <2> QED
    BY <2>1, <2>2, <2>3, <2>4, <2>5 DEF CoalescedInv
<1>3. CASE Return \/ UNCHANGED indexVars
  <2>1. /\ entries' = entries /\ units' = units /\ next' = next /\ target' = target
        /\ status' = status \/ (status = "coalescing" /\ status' = "done")
    BY <1>3 DEF Return, indexVars
  <2> QED
    BY <2>1 DEF CoalescedInv, FullUnits, EndsBalanced, LastUnit
<1>4. ASSUME status' \in {"parsing", "summing", "sorting", "zero length", "malformed", "no entries",
                          "entry overflows", "total overflows"}
      PROVE  CoalescedInv'
  BY <1>4 DEF CoalescedInv
<1>5. CASE \E offset \in Offsets, length \in Lengths : ParseEntry(offset, length)
  BY <1>4, <1>5 DEF ParseEntry
<1>6. CASE MalformedLine \/ EndOfIndex \/ AddLength \/ SetTarget
  BY <1>4, <1>6 DEF MalformedLine, EndOfIndex, AddLength, SetTarget
<1> QED
  BY <1>1, <1>2, <1>3, <1>5, <1>6 DEF IndexNext

LEMMA BalanceInit == IndexInit => BalanceInv
<1> SUFFICES ASSUME IndexInit PROVE BalanceInv
  OBVIOUS
<1>1. status = "parsing" /\ total = 0 /\ DOMAIN entries = {}
  BY DEF IndexInit
<1> QED
  BY <1>1 DEF SumInv, CoalescedInv, BalanceInv

LEMMA BalanceAlways == IndexSpec => [](IndexInv /\ BalanceInv)
<1>1. IndexInit => IndexInv /\ BalanceInv
  BY InitInv, BalanceInit
<1>2. IndexInv /\ BalanceInv /\ [IndexNext]_indexVars => (IndexInv /\ BalanceInv)'
  BY StepInv, SumStep, CoalescedStep DEF BalanceInv
<1> QED
  BY <1>1, <1>2, PTL DEF IndexSpec

\* Entries in order share no byte.
LEMMA InOrderApart ==
  ASSUME NEW list \in Seq(Ranges), InOrder(list, Len(list))
  PROVE  ~Overlapping(list)
<1> SUFFICES ASSUME NEW i \in DOMAIN list, NEW j \in DOMAIN list, i # j
             PROVE  Bytes(list[i]) \cap Bytes(list[j]) = {}
  BY DEF Overlapping
<1>1. i \in 1 .. Len(list) /\ j \in 1 .. Len(list) /\ list[i] \in Ranges /\ list[j] \in Ranges
  OBVIOUS
<1>2. CASE i < j
  BY <1>1, <1>2, ApartBytes DEF InOrder
<1>3. CASE j < i
  BY <1>1, <1>3, ApartBytes DEF InOrder
<1> QED
  BY <1>1, <1>2, <1>3

\* What is done is in order.
LEMMA DoneInOrder ==
  ASSUME IndexInv, BalanceInv, status = "done"
  PROVE  /\ entries \in Seq(Ranges) /\ next = Len(entries) + 1 /\ next - 1 = Len(entries)
         /\ InOrder(entries, Len(entries))
<1>1. entries \in Seq(Ranges) /\ next = Len(entries) + 1
  BY DEF IndexInv, IndexTypeOK, LoopInv
<1>2. next - 1 = Len(entries)
  BY <1>1
<1> QED
  BY <1>1, <1>2 DEF BalanceInv, CoalescedInv

\* parse_warc_index and build_index_work_units reject an index for an overlap,
\* or for a total beyond u64, only if two entries overlap, and accept none in
\* which they do.
THEOREM OverlapsAreRejected == IndexSpec => []OverlapsRejected
<1>1. IndexInv /\ BalanceInv => OverlapsRejected
  <2> SUFFICES ASSUME IndexInv, BalanceInv PROVE OverlapsRejected
    OBVIOUS
  <2>1. Overlap <=> Overlapping(entries)
    BY DEF Overlap, Overlapping
  <2>2. status \in {"overlap", "total overflows"} => Overlapping(entries)
    BY DEF BalanceInv, SumInv, CoalescedInv
  <2>3. status = "done" => ~Overlapping(entries)
    BY DoneInOrder, InOrderApart
  <2> QED
    BY <2>1, <2>2, <2>3 DEF OverlapsRejected
<1> QED
  BY <1>1, BalanceAlways, PTL

\* The starts of the runs are the entries of Runs.
LEMMA RunsCounted ==
  ASSUME entries \in Seq(Ranges), InOrder(entries, Len(entries))
  PROVE  /\ Cardinality(Runs) \in Nat
         /\ Cardinality(RunStarts(entries, Len(entries))) <= Cardinality(Runs)
<1> DEFINE n      == Len(entries)
           starts == RunStarts(entries, n)
           first  == [i \in starts |-> entries[i]]
<1>1. n \in Nat /\ DOMAIN entries = 1 .. n /\ \A i \in 1 .. n : entries[i] \in Ranges
  OBVIOUS
<1>2. \A i, j \in 1 .. n : i < j => entries[i].end <= entries[j].start
  BY DEF InOrder
<1>3. \A i \in 1 .. n : /\ entries[i].start \in Nat /\ entries[i].end \in Nat
                        /\ entries[i].start < entries[i].end
  BY <1>1 DEF Ranges
<1>4. Range(entries) = {entries[i] : i \in 1 .. n}
  BY <1>1 DEF Range
<1> HIDE DEF n
<1>5. ASSUME NEW i \in starts PROVE entries[i] \in Runs
  <2>1. i \in 1 .. n /\ (i = 1 \/ entries[i - 1].end # entries[i].start)
    BY DEF RunStarts
  <2>2. ASSUME NEW j \in 1 .. n PROVE entries[j].end # entries[i].start
    <3>1. CASE i <= j
      <4>1. entries[i].start <= entries[j].start
        <5>1. CASE i = j
          BY <1>3, <2>1, <5>1
        <5>2. CASE i < j
          <6>1. entries[i].end <= entries[j].start
            BY <1>2, <2>1, <5>2
          <6> QED
            BY <1>3, <2>1, <6>1
        <5> QED
          BY <2>1, <3>1, <5>1, <5>2
      <4> QED
        BY <1>3, <2>1, <4>1
    <3>2. CASE j = i - 1
      BY <1>1, <2>1, <3>2
    <3>3. CASE j < i - 1
      <4>1. i - 1 \in 1 .. n /\ i - 1 < i
        BY <1>1, <2>1, <3>3
      <4>2. entries[j].end <= entries[i - 1].start /\ entries[i - 1].end <= entries[i].start
        BY <1>2, <2>1, <3>3, <4>1
      <4>3. entries[i - 1].start < entries[i - 1].end
            /\ entries[i - 1].start \in Nat /\ entries[i - 1].end \in Nat
            /\ entries[j].end \in Nat /\ entries[i].start \in Nat
        BY <1>3, <2>1, <4>1
      <4> QED
        BY <4>2, <4>3
    <3> QED
      BY <1>1, <2>1, <3>1, <3>2, <3>3
  <2> QED
    BY <1>4, <2>1, <2>2 DEF Runs
<1>6. ASSUME NEW i \in starts, NEW j \in starts, entries[i] = entries[j] PROVE i = j
  <2>1. i \in 1 .. n /\ j \in 1 .. n
    BY DEF RunStarts
  <2>2. entries[i].start < entries[i].end /\ entries[i].start \in Nat /\ entries[i].end \in Nat
    BY <1>3, <2>1
  <2>3. ~(i < j) /\ ~(j < i)
    BY <1>2, <1>6, <2>1, <2>2
  <2> QED
    BY <2>1, <2>3
<1>7. first \in Injection(starts, Runs)
  <2> HIDE DEF starts
  <2>1. first \in [starts -> Runs]
    BY <1>5
  <2>2. \A i, j \in starts : first[i] = first[j] => i = j
    BY <1>6
  <2> HIDE DEF first
  <2> QED
    BY <2>1, <2>2 DEF Injection, IsInjective
<1>8. IsFiniteSet(Runs)
  <2>1. IsFiniteSet(1 .. n)
    BY <1>1, FS_Interval
  <2>2. [i \in 1 .. n |-> entries[i]] \in Surjection(1 .. n, {entries[i] : i \in 1 .. n})
    BY DEF Surjection
  <2>3. IsFiniteSet({entries[i] : i \in 1 .. n})
    BY <2>1, <2>2, FS_Surjection
  <2>4. Runs \in SUBSET {entries[i] : i \in 1 .. n}
    BY <1>4 DEF Runs
  <2> QED
    BY <2>3, <2>4, FS_Subset
<1>9. Cardinality(starts) <= Cardinality(Runs)
  BY <1>7, <1>8, FS_Injection
<1> QED
  BY <1>8, <1>9, FS_CardinalityType DEF n

\* No unit takes an entry once it holds the target, and only a gap adds a unit
\* to the max_read_parallelism ones (build_index_work_units).
THEOREM UnitsAreBalanced == IndexSpec => []UnitsBalanced
<1>1. IndexInv /\ BalanceInv => UnitsBalanced
  <2> SUFFICES ASSUME IndexInv, BalanceInv, status = "done" PROVE UnitsBalanced
    BY DEF UnitsBalanced
  <2> DEFINE n == Len(entries)
  <2>1. /\ entries \in Seq(Ranges) /\ next = n + 1 /\ next - 1 = n
        /\ InOrder(entries, n)
    BY DoneInOrder
  <2>2. /\ entries # <<>> /\ total <= parallelism * target /\ total = Cardinality(Covered(entries, n))
    BY <2>1, InOrderApart DEF BalanceInv, SumInv
  <2>3. /\ units \in Seq(Ranges) /\ target \in Nat /\ parallelism \in Nat /\ parallelism > 0
    <3>1. units \in Seq(Ranges) /\ target \in Nat /\ parallelism \in Parallelisms
      BY DEF IndexInv, IndexTypeOK
    <3> QED
      BY <3>1, IndexAssumption
  <2>4. next > 1
    <3>1. n # 0
      BY <2>1, <2>2
    <3> QED
      BY <2>1, <3>1
  <2>5. PICK full \in Nat : FullUnits(full)
    BY <2>4 DEF BalanceInv, CoalescedInv
  <2>6. units # <<>> /\ \A u \in DOMAIN units : EndsBalanced(units[u])
    BY <2>4 DEF BalanceInv, CoalescedInv
  <2>7. full < parallelism
    <3> DEFINE last == LastUnit.end - LastUnit.start
               p    == full * target
    <3>1. last \in Nat /\ last > 0
      <4>1. LastUnit \in Ranges
        BY <2>3, <2>6 DEF LastUnit
      <4> QED
        BY <4>1 DEF Ranges
    <3>2. p + last <= total
      BY <2>1, <2>2, <2>5 DEF FullUnits
    <3>3. p \in Nat /\ parallelism * target \in Nat /\ total \in Nat
      BY <2>3, <2>5, IndexAssumption DEF IndexInv, IndexTypeOK
    <3>4. p < parallelism * target
      <4> DEFINE q == parallelism * target
      <4> HIDE DEF p, q, last
      <4> QED
        BY <2>2, <3>1, <3>2, <3>3 DEF q
    <3>5. ASSUME full >= parallelism PROVE FALSE
      <4>1. PICK d \in Nat : full = parallelism + d
        <5>1. full - parallelism \in Nat /\ full = parallelism + (full - parallelism)
          BY <2>3, <2>5, <3>5
        <5> QED
          BY <5>1
      <4>2. full * target = parallelism * target + d * target /\ d * target \in Nat
        BY <2>3, <4>1
      <4> QED
        BY <3>3, <3>4, <4>2
    <3> QED
      BY <2>3, <2>5, <3>5
  <2>8. Len(units) <= parallelism + Cardinality(Runs) - 1
    <3>1. Len(units) = full + Cardinality(RunStarts(entries, n))
      BY <2>1, <2>5 DEF FullUnits
    <3>2. Cardinality(RunStarts(entries, n)) \in Nat
      BY <2>1, RunStartsNext
    <3>3. Cardinality(Runs) \in Nat /\ Cardinality(RunStarts(entries, n)) <= Cardinality(Runs)
      BY <2>1, RunsCounted
    <3> HIDE DEF n
    <3> QED
      BY <2>3, <2>5, <2>7, <3>1, <3>2, <3>3
  <2>9. ASSUME NEW unit \in Range(units)
        PROVE  \E e \in Range(entries) :
                 e.end = unit.end /\ (e.start > unit.start => e.start - unit.start < target)
    <3>1. PICK u \in DOMAIN units : unit = units[u]
      BY DEF Range
    <3>2. PICK i \in DOMAIN entries :
            /\ entries[i].end = unit.end
            /\ entries[i].start > unit.start => entries[i].start - unit.start < target
      BY <2>6, <3>1 DEF EndsBalanced
    <3>3. entries[i] \in Range(entries)
      BY DEF Range
    <3> QED
      BY <3>2, <3>3
  <2> QED
    BY <2>8, <2>9 DEF UnitsBalanced
<1> QED
  BY <1>1, BalanceAlways, PTL
=============================================================================
