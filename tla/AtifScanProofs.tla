--------------------------- MODULE AtifScanProofs ---------------------------
(***************************************************************************)
(* Proofs about AtifScan, for every document, reference, parallelism and   *)
(* any replacement of the media while they are read.                       *)
(***************************************************************************)
EXTENDS AtifScan, FoldLemmas

AtifType ==
  /\ document \in Documents /\ needsMedia \in BOOLEAN
  /\ phase \in {"bind", "open", "scan", "ended", "failed"}
  /\ read \in 0 .. Len(Trajectories)
  /\ parsed \in Seq(Seq(1 .. Len(Trajectories)))
  /\ IsSequence(delivered) /\ IsSequence(resolved)
  /\ \A i \in DOMAIN delivered : delivered[i].rows \in Seq(1 .. Len(Trajectories))
  /\ versions \in [DOMAIN Media -> Seq(Nat) \ {<<>>}]
  /\ bytesRead \in Nat /\ totalBytes \in Nat
  /\ medium # NoSource => medium \in [location : DOMAIN Media, statted : Nat, bytes : Seq(Nat)]

\* What is still to be read of the medium being read.
Outstanding == IF medium = NoSource THEN 0 ELSE MediumSize(medium) - Len(medium.bytes)

CountInv ==
  /\ phase \in {"bind", "open"} =>
       read = 0 /\ bytesRead = 0 /\ totalBytes = 0 /\ medium = NoSource
  /\ bytesRead <= totalBytes
  /\ phase \in {"scan", "ended"} =>
       bytesRead + (Len(Trajectories) - read) + Outstanding = totalBytes
  /\ phase = "ended" => Len(Rows) = Len(Trajectories) /\ read = Len(Trajectories) /\ medium = NoSource

RowsInv ==
  /\ Rows \o RowsOf(parsed) = [i \in 1 .. Parsed |-> i]
  /\ Parsed <= read

\* A payload that is a medium is of one that there is.
Kept(part, payload) ==
  /\ Payload(part, payload)
  /\ part.type \notin {"text", "null"} /\ part.source.form # "data" =>
       payload.from \in DOMAIN versions

\* What is resolved of the batch in front.
ResolvedInv ==
  /\ parsed = <<>> \/ ~needsMedia => resolved = <<>>
  /\ needsMedia => \A i \in DOMAIN parsed : Len(parsed[i]) = 1
  /\ needsMedia /\ parsed # <<>> =>
       /\ Len(resolved) <= Len(Parts)
       /\ \A j \in DOMAIN resolved : Kept(Parts[j], resolved[j])
  /\ medium # NoSource =>
       /\ needsMedia /\ parsed # <<>> /\ Unresolved /\ Referenced
       /\ medium.location = Target /\ Openable(document.location, Target, Part.source.query)

\* The bytes of the medium being read are those that its versions have in their place.
BytesOf(m, sizes) ==
  /\ m.statted \in 1 .. Len(sizes)
  /\ Len(m.bytes) <= sizes[m.statted]
  /\ \A i \in DOMAIN m.bytes :
       m.bytes[i] \in m.statted .. Len(sizes) /\ i <= sizes[m.bytes[i]]

MediumInv == medium # NoSource => BytesOf(medium, versions[medium.location])

DeliveredInv ==
  needsMedia =>
    \A i \in DOMAIN delivered :
      LET parts == Trajectories[Head(delivered[i].rows)] IN
        /\ Len(delivered[i].rows) = 1 /\ Len(delivered[i].payloads) = Len(parts)
        /\ \A j \in DOMAIN parts : Kept(parts[j], delivered[i].payloads[j])

AtifInv == AtifType /\ CountInv /\ RowsInv /\ ResolvedInv /\ DeliveredInv /\ MediumInv
-----------------------------------------------------------------------------
LEMMA SequenceAppend ==
  ASSUME NEW q, IsSequence(q), NEW e
  PROVE  /\ Len(q) \in Nat /\ DOMAIN q = 1 .. Len(q)
         /\ IsSequence(Append(q, e)) /\ Len(Append(q, e)) = Len(q) + 1
         /\ DOMAIN Append(q, e) = 1 .. Len(q) + 1
         /\ Append(q, e)[Len(q) + 1] = e
         /\ \A i \in 1 .. Len(q) : Append(q, e)[i] = q[i]
<1> DEFINE S == ToSet(q) \cup {e}
           n == Len(q)
           r == Append(q, e)
<1>1. q \in Seq(S) /\ e \in S
  BY DEF IsSequence
<1> HIDE DEF S
<1>2. /\ n \in Nat /\ DOMAIN q = 1 .. n /\ r \in Seq(S) /\ Len(r) = n + 1
      /\ r[n + 1] = e /\ \A i \in 1 .. n : r[i] = q[i]
  BY <1>1
<1>3. DOMAIN r = 1 .. n + 1
  BY <1>2
<1> HIDE DEF r
<1>4. r \in Seq(ToSet(r))
  BY <1>2, <1>3 DEF ToSet
<1> QED
  BY <1>2, <1>3, <1>4 DEF IsSequence, r

LEMMA EmptySequence == IsSequence(<<>>) /\ Len(<<>>) = 0 /\ DOMAIN <<>> = {}
<1>1. <<>> \in Seq(ToSet(<<>>)) /\ Len(<<>>) = 0 /\ DOMAIN <<>> = {}
  OBVIOUS
<1> QED
  BY <1>1 DEF IsSequence

LEMMA MinOfTwo ==
  ASSUME NEW a \in Int, NEW b \in Int
  PROVE  /\ Min({a, b}) \in {a, b}
         /\ Min({a, b}) <= a /\ Min({a, b}) <= b
<1>1. \E m \in {a, b} : \A y \in {a, b} : m <= y
  OBVIOUS
<1>2. Min({a, b}) \in {a, b} /\ \A y \in {a, b} : Min({a, b}) <= y
  BY <1>1 DEF Min
<1> QED
  BY <1>2

\* A document is a sequence of sequences.
LEMMA DocumentFacts ==
  ASSUME AtifType
  PROVE  /\ Len(Trajectories) \in Nat /\ DOMAIN Trajectories = 1 .. Len(Trajectories)
         /\ \A k \in 1 .. Len(Trajectories) :
              /\ Trajectories[k] \in ToSet(Trajectories)
              /\ IsSequence(Trajectories[k])
              /\ Len(Trajectories[k]) \in Nat
              /\ DOMAIN Trajectories[k] = 1 .. Len(Trajectories[k])
<1>1. IsSequence(Trajectories) /\ \A t \in ToSet(Trajectories) : IsSequence(t)
  BY AtifAssumption DEF AtifType, Trajectories
<1>2. Len(Trajectories) \in Nat /\ DOMAIN Trajectories = 1 .. Len(Trajectories)
  BY <1>1, SequenceAppend
<1>3. \A k \in 1 .. Len(Trajectories) : Trajectories[k] \in ToSet(Trajectories)
  BY <1>2 DEF ToSet
<1> QED
  BY <1>1, <1>2, <1>3, SequenceAppend

\* The versions of a medium.
LEMMA VersionFacts ==
  ASSUME AtifType, NEW l \in DOMAIN versions
  PROVE  /\ DOMAIN versions = DOMAIN Media
         /\ versions[l] \in Seq(Nat) /\ Len(versions[l]) \in Nat \ {0}
         /\ DOMAIN versions[l] = 1 .. Len(versions[l])
         /\ \A v \in 1 .. Len(versions[l]) : versions[l][v] \in Nat
         /\ Last(versions[l]) = versions[l][Len(versions[l])]
<1>1. DOMAIN versions = DOMAIN Media /\ versions[l] \in Seq(Nat) /\ versions[l] # <<>>
  BY DEF AtifType
<1>2. /\ Len(versions[l]) \in Nat \ {0} /\ DOMAIN versions[l] = 1 .. Len(versions[l])
      /\ \A v \in 1 .. Len(versions[l]) : versions[l][v] \in Nat
  BY <1>1
<1> QED
  BY <1>1, <1>2 DEF Last

\* What is left of the medium being read.
LEMMA MediumFacts ==
  ASSUME AtifType, MediumInv, medium # NoSource
  PROVE  /\ medium.location \in DOMAIN versions /\ medium.location \in DOMAIN Media
         /\ medium.statted \in 1 .. Len(versions[medium.location])
         /\ medium.bytes \in Seq(Nat) /\ Len(medium.bytes) \in Nat
         /\ DOMAIN medium.bytes = 1 .. Len(medium.bytes)
         /\ MediumSize(medium) \in Nat /\ Len(medium.bytes) <= MediumSize(medium)
         /\ Outstanding \in Nat
<1>1. medium \in [location : DOMAIN Media, statted : Nat, bytes : Seq(Nat)] /\ DOMAIN versions = DOMAIN Media
  BY DEF AtifType
<1>2. medium.bytes \in Seq(Nat) /\ Len(medium.bytes) \in Nat /\ DOMAIN medium.bytes = 1 .. Len(medium.bytes)
  BY <1>1
<1>3. /\ medium.statted \in 1 .. Len(versions[medium.location])
      /\ Len(medium.bytes) <= MediumSize(medium)
  BY DEF MediumInv, BytesOf, MediumSize
<1>4. MediumSize(medium) \in Nat
  BY <1>1, <1>3, VersionFacts DEF MediumSize
<1>5. Outstanding \in Nat
  BY <1>2, <1>3, <1>4 DEF Outstanding
<1> QED
  BY <1>1, <1>2, <1>3, <1>4, <1>5

\* What is counted of a scan.
LEMMA CountFacts ==
  ASSUME AtifInv
  PROVE  /\ bytesRead \in Nat /\ totalBytes \in Nat /\ bytesRead <= totalBytes
         /\ read \in 0 .. Len(Trajectories) /\ Len(Trajectories) \in Nat
         /\ phase = "scan" => bytesRead + (Len(Trajectories) - read) + Outstanding = totalBytes
<1>1. AtifType /\ CountInv
  BY DEF AtifInv
<1>2. bytesRead \in Nat /\ totalBytes \in Nat /\ read \in 0 .. Len(Trajectories)
  BY <1>1 DEF AtifType
<1>3. Len(Trajectories) \in Nat
  BY <1>1, DocumentFacts
<1>4. /\ bytesRead <= totalBytes
      /\ phase = "scan" => bytesRead + (Len(Trajectories) - read) + Outstanding = totalBytes
  BY <1>1 DEF CountInv
<1> QED BY <1>2, <1>3, <1>4

\* What is parsed and in front.
LEMMA FrontFacts ==
  ASSUME AtifType, ResolvedInv, needsMedia, parsed # <<>>
  PROVE  /\ Head(Head(parsed)) \in 1 .. Len(Trajectories) /\ Len(Head(parsed)) = 1
         /\ Parts \in ToSet(Trajectories) /\ IsSequence(Parts) /\ Len(Parts) \in Nat
         /\ DOMAIN Parts = 1 .. Len(Parts)
<1>1. parsed \in Seq(Seq(1 .. Len(Trajectories)))
  BY DEF AtifType
<1>2. Head(parsed) \in Seq(1 .. Len(Trajectories)) /\ Head(parsed) = parsed[1] /\ 1 \in DOMAIN parsed
  BY <1>1
<1>3. Len(Head(parsed)) = 1
  BY <1>2 DEF ResolvedInv
<1>4. Head(Head(parsed)) \in 1 .. Len(Trajectories)
  <2>1. Head(parsed) # <<>>
    BY <1>3
  <2> QED BY <1>2, <2>1, HeadTailProperties
<1> QED
  BY <1>3, <1>4, DocumentFacts DEF Parts

\* The rows delivered.
RowsDelivered(d) == [i \in DOMAIN d |-> d[i].rows]

LEMMA RowsAre ==
  ASSUME AtifType
  PROVE  /\ Rows = FlattenSeq(RowsDelivered(delivered)) /\ Rows \in Seq(1 .. Len(Trajectories))
         /\ RowsDelivered(delivered) \in Seq(Seq(1 .. Len(Trajectories)))
         /\ RowsOf(parsed) = FlattenSeq(parsed) /\ RowsOf(parsed) \in Seq(1 .. Len(Trajectories))
         /\ Parsed = Len(Rows) + Len(RowsOf(parsed)) /\ Parsed \in Nat
<1> DEFINE X == 1 .. Len(Trajectories)
           d == RowsDelivered(delivered)
<1>1. Rows = FlattenSeq(d) /\ RowsOf(parsed) = FlattenSeq(parsed)
  BY DEF Rows, RowsOf, RowsDelivered
<1>2. Parsed = Len(Rows) + Len(RowsOf(parsed))
  BY DEF Parsed, Rows
<1>3. parsed \in Seq(Seq(X)) /\ IsSequence(delivered) /\ \A i \in DOMAIN delivered : delivered[i].rows \in Seq(X)
  BY DEF AtifType
<1> HIDE DEF X
<1>4. Len(delivered) \in Nat /\ DOMAIN delivered = 1 .. Len(delivered)
  BY <1>3, SequenceAppend
<1>5. d \in Seq(Seq(X))
  BY <1>3, <1>4 DEF RowsDelivered
<1> HIDE DEF d
<1>6. <<>> \in Seq(X)
  OBVIOUS
<1>7. FlattenSeq(d) \in Seq(X) /\ FlattenSeq(parsed) \in Seq(X)
  BY <1>3, <1>5, <1>6, FlattenAppend
<1>8. \A a \in Seq(X) : Len(a) \in Nat
  OBVIOUS
<1>9. Len(Rows) + Len(RowsOf(parsed)) \in Nat
  BY <1>1, <1>7, <1>8
<1> QED
  BY <1>1, <1>2, <1>3, <1>5, <1>7, <1>9 DEF d, X
-----------------------------------------------------------------------------
(***************************************************************************)
(* What a step leaves alone.                                               *)
(***************************************************************************)
LEMMA RowsFrame ==
  ASSUME RowsInv, UNCHANGED <<delivered, parsed>>, read' \in Int, read \in Int, read' >= read, Parsed \in Int
  PROVE  RowsInv'
<1>1. Rows' = Rows /\ RowsOf(parsed') = RowsOf(parsed) /\ Parsed' = Parsed
  BY DEF Rows, RowsOf, Parsed
<1> QED
  BY <1>1 DEF RowsInv

\* Media only gain versions.
Gain == /\ DOMAIN versions' = DOMAIN versions
        /\ \A l \in DOMAIN versions : \A u \in DOMAIN versions[l] :
             /\ u \in DOMAIN versions'[l]
             /\ \A v \in 1 .. u : versions'[l][v] = versions[l][v]

LEMMA KeptKept ==
  ASSUME UNCHANGED document, Gain, NEW part, NEW payload, Kept(part, payload)
  PROVE  Kept(part, payload)'
<1>1. CASE part.type \in {"text", "null"} \/ part.source.form = "data"
  BY <1>1 DEF Kept, Payload
<1>2. CASE ~(part.type \in {"text", "null"} \/ part.source.form = "data")
  <2> DEFINE l == payload.from
             b == payload.bytes
             s == payload.statted
             u == payload.until
  <2>1. /\ l = Targets[<<document.location, part.source>>] /\ l \in DOMAIN versions
        /\ u \in DOMAIN versions[l] /\ s \in 1 .. u /\ Len(b) = versions[l][s]
        /\ \A i \in DOMAIN b : b[i] \in s .. u /\ i <= versions[l][b[i]]
    BY <1>2 DEF Kept, Payload
  <2>2. /\ l \in DOMAIN versions' /\ u \in DOMAIN versions'[l]
        /\ \A v \in 1 .. u : versions'[l][v] = versions[l][v]
    BY <2>1 DEF Gain
  <2> HIDE DEF l, b, s, u
  <2>3. \A i \in DOMAIN b : b[i] \in 1 .. u
    BY <2>1
  <2>4. Len(b) = versions'[l][s] /\ \A i \in DOMAIN b : i <= versions'[l][b[i]]
    BY <2>1, <2>2, <2>3
  <2> QED BY <1>2, <2>1, <2>2, <2>4 DEF Kept, Payload, l, b, s, u
<1> QED
  BY <1>1, <1>2

\* A medium that stays is the same medium, and what is left of it stays.
LEMMA MediumFrame ==
  ASSUME AtifType, AtifType', MediumInv, Gain, medium' # NoSource => medium' = medium
  PROVE  /\ MediumInv'
         /\ medium' = medium => Outstanding' = Outstanding
<1>1. CASE medium = NoSource
  BY <1>1 DEF MediumInv, Outstanding
<1>2. CASE medium # NoSource
  <2> DEFINE l == medium.location
             n == Len(versions[l])
  <2>1. /\ l \in DOMAIN versions /\ l \in DOMAIN versions'
        /\ n \in Nat \ {0} /\ DOMAIN versions[l] = 1 .. n
        /\ medium.statted \in 1 .. n
    BY <1>2, MediumFacts, VersionFacts DEF Gain
  <2>2. Len(versions'[l]) \in Nat /\ DOMAIN versions'[l] = 1 .. Len(versions'[l])
    <3>1. \A k \in DOMAIN versions' : Len(versions'[k]) \in Nat /\ DOMAIN versions'[k] = 1 .. Len(versions'[k])
      BY DEF AtifType
    <3> HIDE DEF l
    <3> QED BY <2>1, <3>1
  <2>3. n \in DOMAIN versions'[l] /\ \A v \in 1 .. n : versions'[l][v] = versions[l][v]
    <3>1. n \in DOMAIN versions[l]
      BY <2>1
    <3> HIDE DEF l, n
    <3> QED BY <2>1, <3>1 DEF Gain
  <2>4. BytesOf(medium, versions[l])
    BY <1>2 DEF MediumInv
  <2>5. BytesOf(medium, versions'[l])
    <3> DEFINE old == versions[l]
               new == versions'[l]
    <3>1. /\ n \in Nat /\ Len(new) \in Nat /\ n <= Len(new) /\ medium.statted \in 1 .. n
          /\ \A v \in 1 .. n : new[v] = old[v]
      <4> HIDE DEF l, n
      <4> QED BY <2>1, <2>2, <2>3
    <3>2. BytesOf(medium, old) /\ n = Len(old)
      BY <2>4
    <3> HIDE DEF old, new, l, n
    <3>3. Len(medium.bytes) <= new[medium.statted] /\ medium.statted \in 1 .. Len(new)
      BY <3>1, <3>2 DEF BytesOf
    <3>4. ASSUME NEW i \in DOMAIN medium.bytes
          PROVE  medium.bytes[i] \in medium.statted .. Len(new) /\ i <= new[medium.bytes[i]]
      <4>1. medium.bytes[i] \in medium.statted .. n /\ i <= old[medium.bytes[i]]
        BY <3>2 DEF BytesOf
      <4>2. medium.bytes[i] \in 1 .. n
        BY <3>1, <4>1
      <4> QED BY <3>1, <4>1, <4>2
    <3>5. BytesOf(medium, new)
      BY <3>3, <3>4 DEF BytesOf
    <3> QED BY <3>5 DEF new
  <2>6. MediumInv'
    <3> SUFFICES ASSUME medium' # NoSource PROVE BytesOf(medium', versions'[medium'.location])
      BY DEF MediumInv, BytesOf
    <3>1. medium' = medium
      OBVIOUS
    <3> QED BY <2>5, <3>1
  <2>7. medium' = medium => Outstanding' = Outstanding
    BY <2>1, <2>3 DEF Outstanding, MediumSize
  <2> QED BY <2>6, <2>7
<1> QED
  BY <1>1, <1>2

\* The payloads of a delivered batch.
DeliveredWhole(d, parts) ==
  /\ Len(d.rows) = 1 /\ Len(d.payloads) = Len(parts)
  /\ \A j \in DOMAIN parts : Kept(parts[j], d.payloads[j])

LEMMA DeliveredMeans ==
  DeliveredInv <=>
    (needsMedia =>
       \A i \in DOMAIN delivered : DeliveredWhole(delivered[i], Trajectories[Head(delivered[i].rows)]))
BY DEF DeliveredInv, DeliveredWhole

LEMMA WholeKept ==
  ASSUME UNCHANGED document, Gain, NEW d, NEW parts, DeliveredWhole(d, parts)
  PROVE  DeliveredWhole(d, parts)'
<1>1. \A part, payload : Kept(part, payload) => Kept(part, payload)'
  BY KeptKept
<1> HIDE DEF Kept
<1> QED
  BY <1>1 DEF DeliveredWhole

LEMMA DeliveredFrame ==
  ASSUME DeliveredInv, UNCHANGED <<document, needsMedia, delivered>>, Gain
  PROVE  DeliveredInv'
<1>1. \A d, parts : DeliveredWhole(d, parts) => DeliveredWhole(d, parts)'
  BY WholeKept
<1>2. needsMedia =>
       \A i \in DOMAIN delivered : DeliveredWhole(delivered[i], Trajectories[Head(delivered[i].rows)])'
  BY <1>1, DeliveredMeans DEF Trajectories
<1> QED
  BY <1>2 DEF DeliveredInv, DeliveredWhole

LEMMA ResolvedFrame ==
  ASSUME ResolvedInv, UNCHANGED <<document, needsMedia, parsed, resolved>>, Gain,
         medium' # NoSource => medium # NoSource /\ medium'.location = medium.location
  PROVE  ResolvedInv'
<1>1. \A part, payload : Kept(part, payload) => Kept(part, payload)'
  BY KeptKept
<1>2. /\ Parts' = Parts /\ Part' = Part /\ Target' = Target /\ Unresolved' = Unresolved
      /\ Referenced' = Referenced
  BY DEF Parts, Part, Target, Unresolved, Referenced, Trajectories
<1>3. Openable(document.location, Target, Part.source.query)'
        <=> Openable(document.location, Target, Part.source.query)
  BY <1>2
<1> HIDE DEF Kept
<1> QED
  BY <1>1, <1>2, <1>3 DEF ResolvedInv

LEMMA SameVersions == ASSUME UNCHANGED versions PROVE Gain
BY DEF Gain

\* A step that touches neither the batches nor the media.
LEMMA PhaseFrame ==
  ASSUME AtifInv,
         UNCHANGED <<inputVars, read, parsed, resolved, medium, delivered, versions, bytesRead>>,
         phase' \in {"bind", "open", "scan", "ended", "failed"}, totalBytes' \in Nat, CountInv'
  PROVE  AtifInv'
<1>1. AtifType'
  BY DEF AtifInv, AtifType, inputVars, Trajectories
<1>2. RowsInv'
  <2>1. Parsed \in Int /\ read \in Int
    BY RowsAre DEF AtifInv, AtifType
  <2> QED BY <2>1, RowsFrame DEF AtifInv
<1>3. ResolvedInv'
  BY ResolvedFrame, SameVersions DEF AtifInv, inputVars
<1>4. DeliveredInv'
  BY DeliveredFrame, SameVersions DEF AtifInv, inputVars
<1>5. MediumInv'
  BY <1>1, MediumFrame, SameVersions DEF AtifInv
<1> QED
  BY <1>1, <1>2, <1>3, <1>4, <1>5 DEF AtifInv

LEMMA FailStep ==
  ASSUME AtifInv, Fail
  PROVE  AtifInv'
<1>1. /\ UNCHANGED <<inputVars, read, parsed, resolved, medium, delivered, versions, bytesRead>>
      /\ totalBytes' = totalBytes /\ phase' = "failed"
  BY DEF Fail
<1>2. CountInv' /\ totalBytes' \in Nat
  BY <1>1 DEF AtifInv, AtifType, CountInv
<1> QED
  BY <1>1, <1>2, PhaseFrame

LEMMA BindStep ==
  ASSUME AtifInv, BindAtif
  PROVE  AtifInv'
<1>1. CASE Fail
  BY <1>1, FailStep
<1>2. CASE ~Fail
  <2>1. /\ UNCHANGED <<inputVars, read, parsed, resolved, medium, delivered, versions, bytesRead>>
        /\ totalBytes' = totalBytes /\ phase' = "open" /\ phase = "bind"
    BY <1>2 DEF BindAtif
  <2>2. CountInv' /\ totalBytes' \in Nat
    BY <2>1 DEF AtifInv, AtifType, CountInv
  <2> QED BY <2>1, <2>2, PhaseFrame
<1> QED BY <1>1, <1>2

LEMMA OpenStep ==
  ASSUME AtifInv, OpenDocument
  PROVE  AtifInv'
<1>1. CASE Fail
  BY <1>1, FailStep
<1>2. CASE ~Fail
  <2>1. /\ UNCHANGED <<inputVars, read, parsed, resolved, medium, delivered, versions, bytesRead>>
        /\ totalBytes' = Len(Trajectories) /\ phase' = "scan" /\ phase = "open"
    BY <1>2 DEF OpenDocument
  <2>2. read = 0 /\ bytesRead = 0 /\ medium = NoSource /\ Len(Trajectories) \in Nat
    BY <2>1, DocumentFacts DEF AtifInv, CountInv
  <2>3. Trajectories' = Trajectories
    BY <2>1 DEF Trajectories, inputVars
  <2>4. CountInv' /\ totalBytes' \in Nat
    BY <2>1, <2>2, <2>3 DEF CountInv, Outstanding, MediumSize
  <2> QED BY <2>1, <2>4, PhaseFrame
<1> QED BY <1>1, <1>2

LEMMA EndStep ==
  ASSUME AtifInv, EndOfDocument
  PROVE  AtifInv'
<1>1. /\ UNCHANGED <<inputVars, read, parsed, resolved, medium, delivered, versions, bytesRead>>
      /\ totalBytes' = totalBytes /\ phase' = "ended" /\ phase = "scan"
      /\ parsed = <<>> /\ Parsed = Len(Trajectories)
  BY DEF EndOfDocument
<1>2. RowsOf(parsed) = <<>>
  BY <1>1, FlattenEmpty DEF RowsOf
<1>3. Len(Rows) = Len(Trajectories) /\ read = Len(Trajectories)
  <2>1. Parsed = Len(Rows) + Len(RowsOf(parsed)) /\ Rows \in Seq(1 .. Len(Trajectories))
    BY RowsAre DEF AtifInv
  <2>2. Len(Rows) \in Nat /\ Len(RowsOf(parsed)) = 0
    BY <1>2, <2>1
  <2>3. read \in 0 .. Len(Trajectories) /\ Parsed <= read /\ Len(Trajectories) \in Nat
    BY DocumentFacts DEF AtifInv, AtifType, RowsInv
  <2> QED BY <1>1, <2>1, <2>2, <2>3
<1>4. medium = NoSource
  BY <1>1 DEF AtifInv, ResolvedInv
<1>5. Rows' = Rows /\ Trajectories' = Trajectories
  BY <1>1 DEF Rows, RowsOf, Trajectories, inputVars
<1>6. CountInv' /\ totalBytes' \in Nat
  BY <1>1, <1>3, <1>4, <1>5 DEF AtifInv, AtifType, CountInv, Outstanding, MediumSize
<1> QED
  BY <1>1, <1>6, PhaseFrame

LEMMA ReadStep ==
  ASSUME AtifInv, ReadDocument
  PROVE  AtifInv'
<1>1. /\ UNCHANGED <<inputVars, parsed, resolved, medium, delivered, versions>>
      /\ totalBytes' = totalBytes /\ phase' = phase /\ phase = "scan"
      /\ read < Len(Trajectories) /\ read' = read + 1 /\ bytesRead' = bytesRead + 1
  BY DEF ReadDocument
<1>2. /\ read \in Nat /\ bytesRead \in Nat /\ totalBytes \in Nat /\ Len(Trajectories) \in Nat
      /\ Trajectories' = Trajectories
  BY <1>1, DocumentFacts DEF AtifInv, AtifType, Trajectories, inputVars
<1>3. AtifType'
  <2>1. read' \in 0 .. Len(Trajectories') /\ bytesRead' \in Nat
    BY <1>1, <1>2
  <2> QED BY <1>1, <1>2, <2>1 DEF AtifInv, AtifType, inputVars
<1>4. CountInv'
  <2>1. Outstanding' = Outstanding /\ Outstanding \in Nat
    <3>1. Outstanding \in Nat
      BY MediumFacts DEF AtifInv, Outstanding
    <3> QED BY <1>1, <3>1 DEF Outstanding, MediumSize
  <2>2. bytesRead + (Len(Trajectories) - read) + Outstanding = totalBytes
    BY <1>1 DEF AtifInv, CountInv
  <2>3. bytesRead' + (Len(Trajectories) - read') + Outstanding = totalBytes /\ bytesRead' <= totalBytes
    BY <1>1, <1>2, <2>1, <2>2
  <2> QED BY <1>1, <1>2, <2>1, <2>3 DEF AtifInv, CountInv
<1>5. RowsInv'
  <2>1. Parsed \in Int
    BY RowsAre DEF AtifInv
  <2> QED BY <1>1, <1>2, <2>1, RowsFrame DEF AtifInv
<1>6. ResolvedInv'
  BY <1>1, ResolvedFrame, SameVersions DEF AtifInv, inputVars
<1>7. DeliveredInv'
  BY <1>1, DeliveredFrame, SameVersions DEF AtifInv, inputVars
<1>8. MediumInv'
  BY <1>1, <1>3, MediumFrame, SameVersions DEF AtifInv
<1> QED
  BY <1>3, <1>4, <1>5, <1>6, <1>7, <1>8 DEF AtifInv

-----------------------------------------------------------------------------
(***************************************************************************)
(* The steps of the parser and of the media.                               *)
(***************************************************************************)
LEMMA CountUp ==
  ASSUME NEW p \in Nat, NEW n \in Nat
  PROVE  [i \in 1 .. p |-> i] \o [i \in 1 .. n |-> p + i] = [i \in 1 .. p + n |-> i]
OBVIOUS

\* The batch that is parsed is of the next rows, and these were read.
LEMMA ParseFacts ==
  ASSUME AtifInv, ParseBatch
  PROVE  \E n \in Nat \ {0} :
           /\ needsMedia => n = 1
           /\ Parsed + n <= read
           /\ [i \in 1 .. n |-> Parsed + i] \in Seq(1 .. Len(Trajectories))
           /\ parsed' = Append(parsed, [i \in 1 .. n |-> Parsed + i])
<1> DEFINE n == Min({BatchSize, Len(Trajectories) - Parsed})
<1>1. /\ n > 0 /\ read >= Parsed + n
      /\ parsed' = Append(parsed, [i \in 1 .. n |-> Parsed + i])
  BY DEF ParseBatch
<1>2. Parsed \in Nat /\ Len(Trajectories) \in Nat /\ read \in 0 .. Len(Trajectories)
  BY RowsAre, DocumentFacts DEF AtifInv, AtifType
<1>3. BatchSize \in Nat \ {0} /\ (needsMedia => BatchSize = 1)
  BY AtifAssumption DEF BatchSize
<1>4. n \in {BatchSize, Len(Trajectories) - Parsed} /\ n <= BatchSize
  <2>1. BatchSize \in Int /\ Len(Trajectories) - Parsed \in Int
    BY <1>2, <1>3
  <2> QED BY <2>1, MinOfTwo
<1> HIDE DEF n
<1>5. n \in Nat \ {0} /\ (needsMedia => n = 1) /\ Parsed + n <= read
  BY <1>1, <1>2, <1>3, <1>4
<1>6. \A i \in 1 .. n : Parsed + i \in 1 .. Len(Trajectories)
  BY <1>2, <1>5
<1>7. [i \in 1 .. n |-> Parsed + i] \in Seq(1 .. Len(Trajectories))
  BY <1>5, <1>6
<1> QED
  BY <1>1, <1>5, <1>7

LEMMA ParseStep ==
  ASSUME AtifInv, ParseBatch
  PROVE  AtifInv'
<1> DEFINE X == 1 .. Len(Trajectories)
<1>1. /\ UNCHANGED <<inputVars, phase, read, resolved, medium, delivered, versions, bytesRead, totalBytes>>
      /\ Trajectories' = Trajectories
  BY DEF ParseBatch, Trajectories, inputVars
<1>2. PICK n \in Nat \ {0} :
        /\ needsMedia => n = 1
        /\ Parsed + n <= read
        /\ [i \in 1 .. n |-> Parsed + i] \in Seq(X)
        /\ parsed' = Append(parsed, [i \in 1 .. n |-> Parsed + i])
  BY ParseFacts
<1> DEFINE batch == [i \in 1 .. n |-> Parsed + i]
<1>3. batch \in Seq(X) /\ Len(batch) = n /\ parsed' = Append(parsed, batch)
  BY <1>2
<1>4. parsed \in Seq(Seq(X)) /\ Parsed \in Nat /\ Rows \in Seq(X) /\ RowsOf(parsed) \in Seq(X)
  BY RowsAre DEF AtifInv, AtifType
<1>6. AtifType'
  <2>1. parsed' \in Seq(Seq(X))
    <3> HIDE DEF batch, X
    <3> QED BY <1>3, <1>4
  <2> QED BY <1>1, <2>1 DEF AtifInv, AtifType, inputVars
<1>7. CountInv'
  <2>1. Rows' = Rows /\ Outstanding' = Outstanding
    BY <1>1 DEF Rows, RowsOf, Outstanding, MediumSize
  <2> QED BY <1>1, <2>1 DEF AtifInv, CountInv
<1>8. RowsInv'
  <2>1. Rows' = Rows
    BY <1>1 DEF Rows, RowsOf
  <2>2. RowsOf(parsed') = RowsOf(parsed) \o batch
    <3> HIDE DEF batch, X
    <3> QED BY <1>3, <1>4, FlattenAppend DEF RowsOf
  <2>3. Parsed' = Parsed + n
    <3>1. Parsed' = Len(Rows) + Len(RowsOf(parsed'))
      BY <1>1, <2>1 DEF Parsed, Rows, RowsOf
    <3>2. Parsed = Len(Rows) + Len(RowsOf(parsed)) /\ Len(Rows) \in Nat /\ Len(RowsOf(parsed)) \in Nat
      BY <1>4, RowsAre DEF AtifInv
    <3>3. \A a, b \in Seq(X) : Len(a \o b) = Len(a) + Len(b)
      OBVIOUS
    <3> HIDE DEF batch, X
    <3>4. Len(RowsOf(parsed')) = Len(RowsOf(parsed)) + n
      BY <1>3, <1>4, <2>2, <3>3
    <3> QED BY <3>1, <3>2, <3>4
  <2>4. Rows \o (RowsOf(parsed) \o batch) = (Rows \o RowsOf(parsed)) \o batch
    <3> DEFINE a == Rows
               b == RowsOf(parsed)
    <3>1. a \in Seq(X) /\ b \in Seq(X) /\ batch \in Seq(X)
      BY <1>3, <1>4
    <3> HIDE DEF batch, X, a, b
    <3>2. (a \o b) \o batch = a \o (b \o batch)
      BY <3>1, Associative
    <3> QED BY <3>2 DEF a, b
  <2>5. Rows \o RowsOf(parsed) = [i \in 1 .. Parsed |-> i]
    BY DEF AtifInv, RowsInv
  <2>6. [i \in 1 .. Parsed |-> i] \o batch = [i \in 1 .. Parsed + n |-> i]
    BY <1>4, CountUp
  <2> HIDE DEF batch
  <2>7. Rows' \o RowsOf(parsed') = [i \in 1 .. Parsed' |-> i]
    BY <2>1, <2>2, <2>3, <2>4, <2>5, <2>6
  <2> QED BY <1>1, <1>2, <2>3, <2>7 DEF RowsInv
<1>9. ResolvedInv'
  <2> HIDE DEF batch
  <2>1. /\ Len(parsed) \in Nat /\ DOMAIN parsed = 1 .. Len(parsed) /\ parsed' # <<>>
        /\ DOMAIN parsed' = 1 .. Len(parsed) + 1
        /\ \A i \in 1 .. Len(parsed) : parsed'[i] = parsed[i]
        /\ parsed'[Len(parsed) + 1] = batch
        /\ parsed # <<>> => Head(parsed') = Head(parsed)
    <3> DEFINE S == Seq(X)
    <3>1. parsed \in Seq(S) /\ batch \in S
      BY <1>3, <1>4
    <3> HIDE DEF S
    <3>2. /\ Len(parsed) \in Nat /\ DOMAIN parsed = 1 .. Len(parsed)
          /\ Append(parsed, batch) \in Seq(S) /\ Len(Append(parsed, batch)) = Len(parsed) + 1
          /\ Append(parsed, batch)[Len(parsed) + 1] = batch
          /\ \A i \in 1 .. Len(parsed) : Append(parsed, batch)[i] = parsed[i]
      BY <3>1
    <3>3. parsed # <<>> => 1 \in 1 .. Len(parsed) /\ Head(parsed) = parsed[1]
      BY <3>1
    <3>4. /\ Append(parsed, batch) # <<>> /\ DOMAIN Append(parsed, batch) = 1 .. Len(parsed) + 1
          /\ Head(Append(parsed, batch)) = Append(parsed, batch)[1]
      BY <3>1, <3>2
    <3> QED BY <1>3, <3>2, <3>3, <3>4
  <2>2. needsMedia => \A i \in DOMAIN parsed' : Len(parsed'[i]) = 1
    BY <1>2, <1>3, <2>1 DEF AtifInv, ResolvedInv
  <2>3. CASE parsed = <<>>
    <3>1. resolved = <<>> /\ medium = NoSource
      BY <2>3 DEF AtifInv, ResolvedInv
    <3>2. needsMedia => Len(Parts') \in Nat
      <4> SUFFICES ASSUME needsMedia PROVE Len(Parts') \in Nat
        OBVIOUS
      <4>1. Head(parsed') = batch
        BY <1>3, <1>4, <2>3
      <4>2. \A q \in Seq(X) : Len(q) = 1 => Head(q) \in X
        <5> HIDE DEF X
        <5> QED OBVIOUS
      <4>3. Head(Head(parsed')) \in X
        BY <1>2, <1>3, <4>1, <4>2
      <4> QED BY <1>1, <4>3, DocumentFacts DEF Parts, AtifInv
    <3> QED BY <1>1, <2>1, <2>2, <3>1, <3>2, EmptySequence DEF ResolvedInv, inputVars
  <2>4. CASE parsed # <<>>
    <3>1. /\ Parts' = Parts /\ Part' = Part /\ Target' = Target /\ Unresolved' = Unresolved
          /\ Referenced' = Referenced
      BY <1>1, <2>1, <2>4 DEF Parts, Part, Target, Unresolved, Referenced, inputVars
    <3>2. Openable(document.location, Target, Part.source.query)'
            <=> Openable(document.location, Target, Part.source.query)
      BY <1>1, <3>1 DEF inputVars
    <3>3. \A part, payload : Kept(part, payload) => Kept(part, payload)'
      BY <1>1, KeptKept, SameVersions DEF inputVars
    <3> HIDE DEF Kept
    <3> QED BY <1>1, <2>1, <2>2, <2>4, <3>1, <3>2, <3>3 DEF AtifInv, ResolvedInv, inputVars
  <2> QED BY <2>3, <2>4
<1>5. DeliveredInv'
  BY <1>1, DeliveredFrame, SameVersions DEF AtifInv, inputVars
<1>10. MediumInv'
  BY <1>1, <1>6, MediumFrame, SameVersions DEF AtifInv
<1> QED
  BY <1>5, <1>6, <1>7, <1>8, <1>9, <1>10 DEF AtifInv

LEMMA AppendIs ==
  ASSUME NEW S, NEW r \in Seq(S), NEW e \in S
  PROVE  Append(r, e) = [i \in 1 .. Len(r) + 1 |-> IF i = Len(r) + 1 THEN e ELSE r[i]]
<1> DEFINE f == [i \in 1 .. Len(r) + 1 |-> IF i = Len(r) + 1 THEN e ELSE r[i]]
           a == Append(r, e)
<1>1. a \in Seq(S) /\ Len(a) = Len(r) + 1 /\ Len(r) \in Nat
  OBVIOUS
<1>2. DOMAIN f = 1 .. Len(r) + 1 /\ \A i \in 1 .. Len(r) + 1 : f[i] = a[i]
  BY <1>1
<1>3. f = [i \in 1 .. Len(r) + 1 |-> f[i]]
  OBVIOUS
<1>4. a = [i \in 1 .. Len(r) + 1 |-> a[i]]
  <2> HIDE DEF a
  <2> QED BY <1>1
<1> HIDE DEF f, a
<1>5. f = a
  BY <1>2, <1>3, <1>4
<1> QED BY <1>5 DEF f, a

\* What a step of the media leaves of the counts, the rows and the batches.
LEMMA MediaFrame ==
  ASSUME AtifInv,
         UNCHANGED <<inputVars, phase, read, parsed, delivered>>, Gain,
         AtifType', CountInv', ResolvedInv', MediumInv'
  PROVE  AtifInv'
<1>1. RowsInv'
  <2>1. Parsed \in Int /\ read \in Int
    BY RowsAre DEF AtifInv, AtifType
  <2> QED BY <2>1, RowsFrame DEF AtifInv
<1>2. DeliveredInv'
  BY DeliveredFrame DEF AtifInv, inputVars
<1> QED
  BY <1>1, <1>2 DEF AtifInv

\* The count of a step that only changes the medium, the bytes or the total.
LEMMA CountOf ==
  ASSUME AtifInv, phase = "scan",
         UNCHANGED <<inputVars, phase, read, parsed, delivered>>,
         bytesRead' + (Len(Trajectories) - read) + Outstanding' = totalBytes',
         bytesRead' <= totalBytes'
  PROVE  CountInv'
<1>1. Trajectories' = Trajectories /\ phase' = "scan"
  BY DEF Trajectories, inputVars
<1> QED
  BY <1>1 DEF CountInv

\* A part is resolved.
LEMMA ResolveStep ==
  ASSUME AtifInv, phase = "scan", needsMedia, parsed # <<>>, Unresolved,
         NEW payload, Kept(Part, payload),
         UNCHANGED <<inputVars, phase, read, parsed, delivered, versions, bytesRead, totalBytes>>,
         resolved' = Append(resolved, payload), medium' = NoSource, Outstanding = 0
  PROVE  AtifInv'
<1>1. /\ Len(resolved) \in Nat /\ DOMAIN resolved = 1 .. Len(resolved) /\ IsSequence(resolved')
      /\ Len(resolved') = Len(resolved) + 1 /\ DOMAIN resolved' = 1 .. Len(resolved) + 1
      /\ resolved'[Len(resolved) + 1] = payload
      /\ \A j \in 1 .. Len(resolved) : resolved'[j] = resolved[j]
  BY SequenceAppend DEF AtifInv, AtifType
<1>2. Trajectories' = Trajectories /\ Parts' = Parts
  BY DEF Trajectories, Parts, inputVars
<1>3. AtifType'
  BY <1>1, <1>2 DEF AtifInv, AtifType, inputVars
<1>4. CountInv'
  <2>1. Outstanding' = 0
    BY DEF Outstanding, MediumSize
  <2>2. /\ bytesRead' + (Len(Trajectories) - read) + Outstanding' = totalBytes'
        /\ bytesRead' <= totalBytes'
    BY <2>1 DEF AtifInv, CountInv
  <2> QED BY <2>2, CountOf
<1>5. ResolvedInv'
  <2>1. Len(Parts) \in Nat /\ Len(resolved) < Len(Parts) /\ Part = Parts[Len(resolved) + 1]
    BY FrontFacts DEF AtifInv, Unresolved, Part
  <2>2. Len(resolved') <= Len(Parts')
    BY <1>1, <1>2, <2>1
  <2>3. \A part, p : Kept(part, p) => Kept(part, p)'
    BY KeptKept, SameVersions DEF inputVars
  <2>4. \A j \in DOMAIN resolved' : Kept(Parts[j], resolved'[j])
    <3> SUFFICES ASSUME NEW j \in DOMAIN resolved' PROVE Kept(Parts[j], resolved'[j])
      OBVIOUS
    <3>1. CASE j = Len(resolved) + 1
      BY <1>1, <2>1, <3>1
    <3>2. CASE j # Len(resolved) + 1
      <4>1. j \in 1 .. Len(resolved)
        BY <1>1, <3>2
      <4>2. Kept(Parts[j], resolved[j])
        BY <1>1, <4>1 DEF AtifInv, ResolvedInv
      <4> QED BY <1>1, <4>1, <4>2
    <3> QED BY <3>1, <3>2
  <2>5. (\A j \in DOMAIN resolved : Kept(Parts[j], resolved[j]))'
    BY <1>2, <2>3, <2>4
  <2> QED BY <1>2, <2>2, <2>5 DEF AtifInv, ResolvedInv, inputVars
<1>6. MediumInv'
  BY DEF MediumInv
<1> QED
  BY <1>3, <1>4, <1>5, <1>6, MediaFrame, SameVersions

LEMMA ResolveInPlaceStep ==
  ASSUME AtifInv, ResolveInPlace
  PROVE  AtifInv'
<1>1. /\ phase = "scan" /\ needsMedia /\ parsed # <<>> /\ medium = NoSource /\ Unresolved
      /\ UNCHANGED <<inputVars, phase, read, parsed, delivered, versions, bytesRead, totalBytes>>
      /\ medium' = NoSource /\ Outstanding = 0
  BY DEF ResolveInPlace, Resolving, Outstanding, MediumSize
<1>2. PICK payload : Kept(Part, payload) /\ resolved' = Append(resolved, payload)
  <2>1. CASE Part.type \in {"text", "null"} /\ resolved' = Append(resolved, Null)
    BY <2>1 DEF Kept, Payload
  <2>2. CASE HasData /\ resolved' = Append(resolved, Embedded(Part.source))
    <3>1. Part.source.form = "data" /\ Part.type \notin {"text", "null"}
      BY <2>2 DEF HasData
    <3> QED BY <2>2, <3>1 DEF Kept, Payload
  <2> QED BY <2>1, <2>2 DEF ResolveInPlace
<1> QED
  BY <1>1, <1>2, ResolveStep

LEMMA StatStep ==
  ASSUME AtifInv, StatMedium
  PROVE  AtifInv'
<1> DEFINE bytes == Last(versions[Target])
<1>1. /\ phase = "scan" /\ needsMedia /\ parsed # <<>> /\ medium = NoSource /\ Unresolved
      /\ Referenced /\ Openable(document.location, Target, Part.source.query)
      /\ Target \in DOMAIN versions
      /\ UNCHANGED <<inputVars, phase, read, parsed, resolved, delivered, versions, bytesRead>>
      /\ medium' = [location |-> Target, statted |-> Len(versions[Target]), bytes |-> <<>>]
      /\ totalBytes' = totalBytes + bytes
  BY DEF StatMedium, Resolving, Reachable, AddTotal
<1>2. /\ DOMAIN versions = DOMAIN Media /\ bytes \in Nat /\ Len(versions[Target]) \in Nat \ {0}
      /\ bytes = versions[Target][Len(versions[Target])]
  BY <1>1, VersionFacts DEF AtifInv
<1> HIDE DEF bytes
<1>3. medium' # NoSource /\ medium' \in [location : DOMAIN Media, statted : Nat, bytes : Seq(Nat)]
  <2>1. medium' \in [location : DOMAIN Media, statted : Nat, bytes : Seq(Nat)]
    BY <1>1, <1>2
  <2> QED BY <2>1, AtifAssumption
<1>4. medium'.location = Target /\ medium'.statted = Len(versions[Target]) /\ medium'.bytes = <<>>
  BY <1>1
<1>5. AtifType'
  <2>1. Trajectories' = Trajectories /\ totalBytes' \in Nat
    BY <1>1, <1>2 DEF Trajectories, inputVars, AtifInv, AtifType
  <2> QED BY <1>1, <1>3, <2>1 DEF AtifInv, AtifType, inputVars
<1>6. CountInv'
  <2>1. Outstanding' = bytes /\ Outstanding = 0
    <3>1. MediumSize(medium)' = bytes
      BY <1>1, <1>2, <1>4 DEF MediumSize
    <3>2. Outstanding' = MediumSize(medium)' - Len(medium'.bytes)
      BY <1>3 DEF Outstanding
    <3> QED BY <1>1, <1>2, <1>4, <3>1, <3>2 DEF Outstanding
  <2>2. /\ bytesRead + (Len(Trajectories) - read) + 0 = totalBytes /\ bytesRead <= totalBytes
        /\ bytesRead \in Nat /\ totalBytes \in Nat /\ read \in 0 .. Len(Trajectories)
        /\ Len(Trajectories) \in Nat
    BY <1>1, <2>1, CountFacts
  <2>3. /\ bytesRead' + (Len(Trajectories) - read) + Outstanding' = totalBytes'
        /\ bytesRead' <= totalBytes'
    <3> DEFINE rest == Len(Trajectories) - read
    <3>1. bytesRead' = bytesRead /\ totalBytes' = totalBytes + bytes /\ Outstanding' = bytes
      BY <1>1, <2>1
    <3>2. rest \in Nat /\ bytesRead + rest = totalBytes /\ bytesRead \in Nat /\ bytes \in Nat
      BY <1>2, <2>2
    <3> HIDE DEF rest
    <3>3. bytesRead' + rest + Outstanding' = totalBytes' /\ bytesRead' <= totalBytes'
      BY <3>1, <3>2
    <3> QED BY <3>3 DEF rest
  <2> QED BY <1>1, <1>2, <1>4, <2>3, CountOf
<1>7. ResolvedInv'
  <2>1. /\ Parts' = Parts /\ Part' = Part /\ Target' = Target /\ Unresolved' = Unresolved
        /\ Referenced' = Referenced
    BY <1>1 DEF Parts, Part, Target, Unresolved, Referenced, Trajectories, inputVars
  <2>2. Openable(document.location, Target, Part.source.query)'
    BY <1>1, <2>1 DEF inputVars
  <2>3. \A part, payload : Kept(part, payload) => Kept(part, payload)'
    BY <1>1, KeptKept, SameVersions DEF inputVars
  <2>4. medium'.location = Target'
    BY <1>4, <2>1
  <2> HIDE DEF Kept
  <2> QED BY <1>1, <2>1, <2>2, <2>3, <2>4 DEF AtifInv, ResolvedInv, inputVars
<1>8. MediumInv'
  <2>1. BytesOf(medium', versions[Target])
    BY <1>2, <1>4 DEF BytesOf
  <2>2. BytesOf(medium', versions'[medium'.location])
    BY <1>1, <1>4, <2>1
  <2> QED BY <2>2 DEF MediumInv, BytesOf
<1> QED
  BY <1>1, <1>5, <1>6, <1>7, <1>8, MediaFrame, SameVersions

\* A response is appended to the bytes that were there.
LEMMA Response ==
  ASSUME NEW b \in Seq(Nat), NEW v \in Nat, NEW n \in Nat
  PROVE  LET c == b \o [i \in 1 .. n |-> v] IN
           /\ c \in Seq(Nat) /\ Len(c) = Len(b) + n /\ DOMAIN c = 1 .. Len(b) + n
           /\ \A i \in 1 .. Len(b) : c[i] = b[i]
           /\ \A i \in Len(b) + 1 .. Len(b) + n : c[i] = v
<1> DEFINE d == [i \in 1 .. n |-> v]
<1>1. d \in Seq(Nat) /\ Len(d) = n /\ \A i \in 1 .. n : d[i] = v
  OBVIOUS
<1> HIDE DEF d
<1>2. /\ b \o d \in Seq(Nat) /\ Len(b \o d) = Len(b) + n /\ DOMAIN (b \o d) = 1 .. Len(b) + n
      /\ \A i \in 1 .. Len(b) : (b \o d)[i] = b[i]
  BY <1>1
<1>3. \A i \in Len(b) + 1 .. Len(b) + n : (b \o d)[i] = d[i - Len(b)] /\ i - Len(b) \in 1 .. n
  BY <1>1
<1> QED
  BY <1>1, <1>2, <1>3 DEF d

LEMMA ReadMediumStep ==
  ASSUME AtifInv, ReadMedium
  PROVE  AtifInv'
<1>1. /\ phase = "scan" /\ medium # NoSource
      /\ UNCHANGED <<inputVars, phase, read, parsed, resolved, delivered, versions, totalBytes>>
      /\ \E version \in Current : \E n \in 1 .. Left(version) :
           /\ medium' = [medium EXCEPT !.bytes = @ \o [i \in 1 .. n |-> version]]
           /\ bytesRead' = bytesRead + n
  BY DEF ReadMedium
<1> PICK version \in Current :
      \E n \in 1 .. Left(version) :
        /\ medium' = [medium EXCEPT !.bytes = @ \o [i \in 1 .. n |-> version]]
        /\ bytesRead' = bytesRead + n
  BY <1>1
<1>2. PICK n \in 1 .. Left(version) :
        /\ medium' = [medium EXCEPT !.bytes = @ \o [i \in 1 .. n |-> version]]
        /\ bytesRead' = bytesRead + n
  OBVIOUS
<1> DEFINE sizes == versions[medium.location]
           size == MediumSize(medium)
           have == Len(medium.bytes)
           more == medium.bytes \o [i \in 1 .. n |-> version]
<1>3. /\ medium.location \in DOMAIN versions /\ medium.location \in DOMAIN Media
      /\ medium.statted \in 1 .. Len(sizes) /\ medium.bytes \in Seq(Nat) /\ have \in Nat
      /\ size \in Nat /\ have <= size /\ Outstanding = size - have
  BY <1>1, MediumFacts DEF AtifInv, Outstanding
<1>4. /\ Len(sizes) \in Nat /\ \A v \in 1 .. Len(sizes) : sizes[v] \in Nat
      /\ size = sizes[medium.statted]
  BY <1>3, VersionFacts DEF AtifInv, MediumSize
<1>5. version \in medium.statted .. Len(sizes) /\ version \in 1 .. Len(sizes)
  BY <1>3, <1>4 DEF Current
<1>6. n \in Nat /\ have + n <= size /\ have + n <= sizes[version]
  <2> DEFINE other == sizes[version]
  <2>1. size \in Int /\ other \in Int /\ Left(version) = Min({size, other}) - have
    BY <1>3, <1>4, <1>5 DEF Left
  <2> HIDE DEF size, other, have, sizes
  <2>2. Min({size, other}) \in Int /\ Min({size, other}) <= size /\ Min({size, other}) <= other
    BY <2>1, MinOfTwo
  <2>3. n \in Nat /\ have + n <= size /\ have + n <= other
    BY <1>3, <2>1, <2>2
  <2> QED BY <2>3 DEF other
<1>7. /\ more \in Seq(Nat) /\ Len(more) = have + n /\ DOMAIN more = 1 .. have + n
      /\ \A i \in 1 .. have : more[i] = medium.bytes[i]
      /\ \A i \in have + 1 .. have + n : more[i] = version
  <2> DEFINE b == medium.bytes
             c == b \o [i \in 1 .. n |-> version]
  <2>1. b \in Seq(Nat) /\ version \in Nat /\ n \in Nat
    BY <1>3, <1>5, <1>6
  <2> HIDE DEF b
  <2>2. /\ c \in Seq(Nat) /\ Len(c) = Len(b) + n /\ DOMAIN c = 1 .. Len(b) + n
        /\ \A i \in 1 .. Len(b) : c[i] = b[i]
        /\ \A i \in Len(b) + 1 .. Len(b) + n : c[i] = version
    BY <2>1, Response
  <2> HIDE DEF c
  <2> QED BY <2>2 DEF b, c
<1> HIDE DEF more
<1>8. /\ medium' \in [location : DOMAIN Media, statted : Nat, bytes : Seq(Nat)]
      /\ medium'.location = medium.location /\ medium'.statted = medium.statted /\ medium'.bytes = more
  <2>1. medium \in [location : DOMAIN Media, statted : Nat, bytes : Seq(Nat)]
    BY <1>1 DEF AtifInv, AtifType
  <2>2. medium' = [medium EXCEPT !.bytes = more]
    BY <1>2 DEF more
  <2> QED BY <1>7, <2>1, <2>2
<1>9. medium' # NoSource
  BY <1>8, AtifAssumption
<1>10. AtifType'
  <2>1. Trajectories' = Trajectories
    BY <1>1 DEF Trajectories, inputVars
  <2>2. bytesRead' \in Nat
    <3>1. bytesRead \in Nat
      BY CountFacts
    <3> QED BY <1>2, <1>6, <3>1
  <2> QED BY <1>1, <1>8, <2>1, <2>2 DEF AtifInv, AtifType, inputVars
<1>11. CountInv'
  <2>1. Outstanding' = size - (have + n)
    BY <1>1, <1>7, <1>8, <1>9 DEF Outstanding, MediumSize
  <2>2. /\ bytesRead + (Len(Trajectories) - read) + Outstanding = totalBytes
        /\ bytesRead \in Nat /\ totalBytes \in Nat /\ read \in 0 .. Len(Trajectories)
        /\ Len(Trajectories) \in Nat
    BY <1>1, CountFacts
  <2>3. /\ bytesRead' + (Len(Trajectories) - read) + Outstanding' = totalBytes
        /\ bytesRead' <= totalBytes
    <3> DEFINE rest == Len(Trajectories) - read
    <3>1. bytesRead' = bytesRead + n /\ Outstanding = size - have
      BY <1>2, <1>3
    <3>2. rest \in Nat /\ bytesRead + rest + Outstanding = totalBytes /\ bytesRead \in Nat
      BY <2>2
    <3>3. have \in Nat /\ size \in Nat /\ n \in Nat /\ have + n <= size
      BY <1>3, <1>6
    <3> HIDE DEF rest, size, have, sizes
    <3>4. bytesRead' + rest + Outstanding' = totalBytes /\ bytesRead' <= totalBytes
      BY <2>1, <3>1, <3>2, <3>3
    <3> QED BY <3>4 DEF rest
  <2> QED BY <1>1, <2>3, CountOf
<1>12. ResolvedInv'
  BY <1>1, <1>8, ResolvedFrame, SameVersions DEF AtifInv, inputVars
<1>13. MediumInv'
  <2>1. BytesOf(medium, sizes)
    BY <1>1 DEF AtifInv, MediumInv
  <2>2. ASSUME NEW i \in DOMAIN more
        PROVE  more[i] \in medium.statted .. Len(sizes) /\ i <= sizes[more[i]]
    <3>1. CASE i \in 1 .. have
      <4>1. i \in DOMAIN medium.bytes
        BY <1>3, <3>1
      <4> QED BY <1>7, <2>1, <3>1, <4>1 DEF BytesOf
    <3>2. CASE i \notin 1 .. have
      <4>1. i \in have + 1 .. have + n /\ i <= have + n
        BY <1>3, <1>6, <1>7, <3>2
      <4>2. more[i] = version
        BY <1>7, <4>1
      <4>3. i <= sizes[version]
        BY <1>3, <1>4, <1>5, <1>6, <4>1
      <4> QED BY <1>5, <4>2, <4>3
    <3> QED BY <3>1, <3>2
  <2>3. BytesOf(medium', sizes)
    <3>1. medium'.statted \in 1 .. Len(sizes) /\ Len(medium'.bytes) <= sizes[medium'.statted]
      BY <1>3, <1>4, <1>6, <1>7, <1>8
    <3>2. \A i \in DOMAIN medium'.bytes :
            medium'.bytes[i] \in medium'.statted .. Len(sizes) /\ i <= sizes[medium'.bytes[i]]
      BY <1>8, <2>2
    <3> HIDE DEF sizes
    <3> QED BY <3>1, <3>2 DEF BytesOf
  <2>4. BytesOf(medium', versions'[medium'.location])
    BY <1>1, <1>8, <2>3
  <2> QED BY <2>4 DEF MediumInv, BytesOf
<1> QED
  BY <1>1, <1>10, <1>11, <1>12, <1>13, MediaFrame, SameVersions

\* A medium that ends is what its part refers to.
LEMMA EndOfMediumStep ==
  ASSUME AtifInv, EndOfMedium
  PROVE  AtifInv'
<1>1. CASE Fail
  BY <1>1, FailStep
<1>2. CASE ~Fail
  <2> DEFINE payload == Received
  <2>1. /\ phase = "scan" /\ medium # NoSource /\ Len(medium.bytes) = MediumSize(medium)
        /\ UNCHANGED <<inputVars, phase, read, parsed, delivered, versions, bytesRead, totalBytes>>
        /\ resolved' = Append(resolved, payload) /\ medium' = NoSource
    BY <1>2 DEF EndOfMedium, WholeSize
  <2>2. /\ needsMedia /\ parsed # <<>> /\ Unresolved /\ Referenced
        /\ medium.location = Target /\ Openable(document.location, Target, Part.source.query)
    BY <2>1 DEF AtifInv, ResolvedInv
  <2>3. medium \in [location : DOMAIN Media, statted : Nat, bytes : Seq(Nat)] /\ DOMAIN versions = DOMAIN Media
    BY <2>1 DEF AtifInv, AtifType
  <2>4. Outstanding = 0
    BY <2>1, MediumFacts DEF Outstanding, AtifInv
  <2>5. Part \in ToSet(Parts) /\ Parts \in ToSet(Trajectories)
    <3>1. /\ Len(resolved) \in Nat /\ Len(Parts) \in Nat /\ DOMAIN Parts = 1 .. Len(Parts)
          /\ Parts \in ToSet(Trajectories) /\ Len(resolved) < Len(Parts)
      BY <2>2, FrontFacts, SequenceAppend DEF AtifInv, AtifType, Unresolved
    <3>2. Len(resolved) + 1 \in DOMAIN Parts
      BY <3>1
    <3> QED BY <3>1, <3>2 DEF Part, ToSet
  <2>6. /\ Part.source # NoSource /\ Part.source.form # "data"
        /\ Part.type \notin {"text", "null"}
    BY <2>2 DEF Referenced
  <2>7. Targets[<<document.location, Part.source>>] = medium.location
    <3>1. document \in Documents /\ Target \in DOMAIN Media
      BY <2>2, <2>3 DEF AtifInv, AtifType
    <3> QED BY <2>2, <2>5, <2>6, <3>1, TargetsAssumption DEF Target, Trajectories
  <2>8. Kept(Part, payload)
    <3> DEFINE sizes == versions[medium.location]
    <3>1. BytesOf(medium, sizes) /\ Len(medium.bytes) = sizes[medium.statted]
      BY <2>1 DEF AtifInv, MediumInv, MediumSize
    <3>2. Len(sizes) \in DOMAIN sizes
      <4>1. medium.location \in DOMAIN versions
        BY <2>1, MediumFacts DEF AtifInv
      <4> QED BY <4>1, VersionFacts DEF AtifInv
    <3>3. /\ payload.from = medium.location /\ payload.statted = medium.statted
          /\ payload.until = Len(sizes) /\ payload.bytes = medium.bytes
      BY DEF Received
    <3> HIDE DEF payload, sizes
    <3>4. /\ medium.statted \in 1 .. Len(sizes)
          /\ \A i \in DOMAIN medium.bytes :
               medium.bytes[i] \in medium.statted .. Len(sizes) /\ i <= sizes[medium.bytes[i]]
      BY <3>1 DEF BytesOf
    <3> QED BY <2>2, <2>3, <2>6, <2>7, <3>1, <3>2, <3>3, <3>4 DEF Kept, Payload, sizes
  <2> HIDE DEF payload
  <2> QED BY <2>1, <2>2, <2>4, <2>8, ResolveStep
<1> QED
  BY <1>1, <1>2

LEMMA ReplaceStep ==
  ASSUME AtifInv, Replace
  PROVE  AtifInv'
<1> PICK location \in Referred \cap DOMAIN versions :
      \E bytes \in 0 .. Media[location] + 1 :
        versions' = [versions EXCEPT ![location] = Append(@, bytes)]
  BY DEF Replace
<1>1. PICK bytes \in 0 .. Media[location] + 1 :
        versions' = [versions EXCEPT ![location] = Append(@, bytes)]
  OBVIOUS
<1>2. UNCHANGED <<inputVars, phase, read, parsed, resolved, medium, delivered, bytesRead, totalBytes>>
  BY DEF Replace
<1>3. versions \in [DOMAIN Media -> Seq(Nat) \ {<<>>}]
  BY DEF AtifInv, AtifType
<1>4. bytes \in Nat
  BY AtifAssumption, <1>1, <1>3
<1>5. ASSUME NEW v \in Seq(Nat)
      PROVE  /\ Append(v, bytes) \in Seq(Nat) \ {<<>>}
             /\ \A u \in DOMAIN v : /\ u \in DOMAIN Append(v, bytes)
                                    /\ \A w \in 1 .. u : Append(v, bytes)[w] = v[w]
  <2> DEFINE longer == Append(v, bytes)
  <2>1. longer \in Seq(Nat) /\ longer # <<>>
    BY <1>4
  <2>2. /\ Len(v) \in Nat /\ DOMAIN v = 1 .. Len(v) /\ DOMAIN longer = 1 .. Len(v) + 1
        /\ \A i \in 1 .. Len(v) : longer[i] = v[i]
    BY <1>4, AppendFacts
  <2> HIDE DEF longer
  <2>3. ASSUME NEW u \in DOMAIN v PROVE u \in DOMAIN longer /\ \A w \in 1 .. u : longer[w] = v[w]
    BY <2>2
  <2> QED BY <2>1, <2>3 DEF longer
<1>6. versions' \in [DOMAIN Media -> Seq(Nat) \ {<<>>}] /\ Gain
  BY <1>1, <1>3, <1>5 DEF Gain
<1>7. Trajectories' = Trajectories /\ Rows' = Rows
  BY <1>2 DEF Trajectories, inputVars, Rows, RowsOf
<1>8. AtifType'
  BY <1>2, <1>6, <1>7 DEF AtifInv, AtifType, inputVars
<1>9. MediumInv' /\ Outstanding' = Outstanding
  BY <1>2, <1>6, <1>8, MediumFrame DEF AtifInv
<1>10. CountInv'
  BY <1>2, <1>7, <1>9 DEF AtifInv, CountInv
<1>11. ResolvedInv'
  BY <1>2, <1>6, ResolvedFrame DEF AtifInv, inputVars
<1> QED
  BY <1>2, <1>6, <1>8, <1>9, <1>10, <1>11, MediaFrame

\* A delivered batch is the one that was in front, with what was resolved of it.
LEMMA DeliverStep ==
  ASSUME AtifInv, Deliver
  PROVE  AtifInv'
<1> DEFINE X == 1 .. Len(Trajectories)
           item == [rows |-> Head(parsed), payloads |-> resolved]
<1>1. /\ phase = "scan" /\ parsed # <<>> /\ medium = NoSource /\ (needsMedia => ~Unresolved)
      /\ UNCHANGED <<inputVars, phase, read, medium, versions, bytesRead, totalBytes>>
      /\ delivered' = Append(delivered, item) /\ parsed' = Tail(parsed) /\ resolved' = <<>>
  BY DEF Deliver
<1>2. Trajectories' = Trajectories
  BY <1>1 DEF Trajectories, inputVars
<1>3. /\ parsed \in Seq(Seq(X)) /\ IsSequence(delivered)
      /\ \A i \in DOMAIN delivered : delivered[i].rows \in Seq(X)
  BY DEF AtifInv, AtifType
<1>4. item.rows = Head(parsed) /\ item.payloads = resolved
  OBVIOUS
<1> HIDE DEF item
<1>5. /\ Len(parsed) \in Nat \ {0} /\ Head(parsed) \in Seq(X) /\ Head(parsed) = parsed[1]
      /\ Tail(parsed) \in Seq(Seq(X)) /\ Len(Tail(parsed)) = Len(parsed) - 1
      /\ DOMAIN Tail(parsed) = 1 .. Len(parsed) - 1 /\ DOMAIN parsed = 1 .. Len(parsed)
      /\ \A i \in 1 .. Len(parsed) - 1 : Tail(parsed)[i] = parsed[i + 1]
  <2> DEFINE S == Seq(X)
  <2>1. parsed \in Seq(S) /\ parsed # <<>>
    BY <1>1, <1>3
  <2> HIDE DEF S
  <2>2. /\ Len(parsed) \in Nat \ {0} /\ Head(parsed) \in S /\ Head(parsed) = parsed[1]
        /\ Tail(parsed) \in Seq(S) /\ Len(Tail(parsed)) = Len(parsed) - 1
    BY <2>1
  <2>3. /\ DOMAIN Tail(parsed) = 1 .. Len(parsed) - 1 /\ DOMAIN parsed = 1 .. Len(parsed)
        /\ \A i \in 1 .. Len(parsed) - 1 : Tail(parsed)[i] = parsed[i + 1]
    BY <2>1
  <2> QED BY <2>2, <2>3 DEF S
<1>6. /\ Len(delivered) \in Nat /\ DOMAIN delivered = 1 .. Len(delivered)
      /\ IsSequence(delivered') /\ DOMAIN delivered' = 1 .. Len(delivered) + 1
      /\ delivered'[Len(delivered) + 1] = item
      /\ \A i \in 1 .. Len(delivered) : delivered'[i] = delivered[i]
  BY <1>1, <1>3, SequenceAppend
<1>7. \A i \in DOMAIN delivered' : delivered'[i].rows \in Seq(X)
  <2> SUFFICES ASSUME NEW i \in DOMAIN delivered' PROVE delivered'[i].rows \in Seq(X)
    OBVIOUS
  <2> HIDE DEF X
  <2>1. CASE i = Len(delivered) + 1
    BY <1>4, <1>5, <1>6, <2>1
  <2>2. CASE i # Len(delivered) + 1
    <3>1. i \in 1 .. Len(delivered)
      BY <1>6, <2>2
    <3> QED BY <1>3, <1>6, <3>1
  <2> QED BY <2>1, <2>2
<1>8. AtifType'
  BY <1>1, <1>2, <1>5, <1>6, <1>7, EmptySequence DEF AtifInv, AtifType, inputVars
<1>9. Rows' = Rows \o Head(parsed) /\ RowsOf(parsed) = Head(parsed) \o RowsOf(parsed')
  <2>1. RowsDelivered(delivered') = Append(RowsDelivered(delivered), Head(parsed))
    <3>1. RowsDelivered(delivered) \in Seq(Seq(X)) /\ Head(parsed) \in Seq(X)
      BY <1>5, RowsAre DEF AtifInv
    <3>2. Len(RowsDelivered(delivered)) = Len(delivered)
      BY <1>6 DEF RowsDelivered
    <3>3. \A i \in 1 .. Len(delivered) : delivered'[i].rows = RowsDelivered(delivered)[i]
      BY <1>6 DEF RowsDelivered
    <3>4. delivered'[Len(delivered) + 1].rows = Head(parsed)
      BY <1>4, <1>6
    <3> DEFINE r == RowsDelivered(delivered)
               n == Len(delivered)
    <3>5. RowsDelivered(delivered') = [i \in 1 .. n + 1 |-> delivered'[i].rows]
      BY <1>6 DEF RowsDelivered
    <3> DEFINE S == Seq(X)
    <3>6. r \in Seq(S) /\ Head(parsed) \in S /\ Len(r) = n /\ n \in Nat
      BY <1>6, <3>1, <3>2
    <3> HIDE DEF S, r, n
    <3>7. Append(r, Head(parsed)) = [i \in 1 .. n + 1 |-> IF i = n + 1 THEN Head(parsed) ELSE r[i]]
      BY <3>6, AppendIs
    <3>8. \A i \in 1 .. n + 1 : delivered'[i].rows = IF i = n + 1 THEN Head(parsed) ELSE r[i]
      <4>1. \A i \in 1 .. n + 1 : i = n + 1 \/ i \in 1 .. n
        BY <3>6
      <4> QED BY <3>3, <3>4, <4>1 DEF n, r
    <3> QED BY <3>5, <3>7, <3>8 DEF r
  <2>2. FlattenSeq(RowsDelivered(delivered')) = FlattenSeq(RowsDelivered(delivered)) \o Head(parsed)
    <3>1. RowsDelivered(delivered) \in Seq(Seq(X)) /\ Head(parsed) \in Seq(X)
      BY <1>5, RowsAre DEF AtifInv
    <3> HIDE DEF X
    <3> QED BY <2>1, <3>1, FlattenAppend
  <2>3. Rows' = FlattenSeq(RowsDelivered(delivered'))
    BY DEF Rows, RowsOf, RowsDelivered
  <2>4. FlattenSeq(parsed) = Head(parsed) \o FlattenSeq(Tail(parsed))
    <3> HIDE DEF X
    <3> QED BY <1>1, <1>3, FlattenHead
  <2> QED BY <1>1, <2>2, <2>3, <2>4, RowsAre DEF RowsOf, AtifInv
<1>10. RowsInv' /\ Parsed' = Parsed
  <2>1. /\ Rows \in Seq(X) /\ RowsOf(parsed) \in Seq(X) /\ Parsed = Len(Rows) + Len(RowsOf(parsed))
    BY RowsAre DEF AtifInv
  <2>2. RowsOf(parsed') \in Seq(X)
    <3>1. RowsOf(parsed') = FlattenSeq(Tail(parsed)) /\ Tail(parsed) \in Seq(Seq(X)) /\ <<>> \in Seq(X)
      BY <1>1, <1>5 DEF RowsOf
    <3> HIDE DEF X
    <3> QED BY <3>1, FlattenAppend
  <2>3. Parsed' = Len(Rows') + Len(RowsOf(parsed'))
    BY DEF Parsed, Rows
  <2> DEFINE a == Rows
             b == Head(parsed)
             c == RowsOf(parsed')
  <2>4. a \in Seq(X) /\ b \in Seq(X) /\ c \in Seq(X)
    BY <1>5, <2>1, <2>2
  <2>5. Rows' = a \o b /\ RowsOf(parsed) = b \o c
    BY <1>9
  <2> HIDE DEF X, a, b, c
  <2>6. a \o (b \o c) = (a \o b) \o c /\ Len(a) + Len(b \o c) = Len(a \o b) + Len(c)
    BY <2>4
  <2>7. Parsed' = Parsed /\ Rows' \o RowsOf(parsed') = Rows \o RowsOf(parsed)
    BY <2>1, <2>3, <2>5, <2>6 DEF a, c
  <2> QED BY <1>1, <2>7 DEF AtifInv, RowsInv
<1>11. CountInv'
  <2>1. Outstanding' = Outstanding
    BY <1>1 DEF Outstanding, MediumSize
  <2>2. /\ bytesRead + (Len(Trajectories) - read) + Outstanding = totalBytes
        /\ bytesRead <= totalBytes
    BY <1>1 DEF AtifInv, CountInv
  <2> QED BY <1>1, <1>2, <2>1, <2>2 DEF CountInv
<1>12. ResolvedInv'
  <2>1. needsMedia => \A i \in DOMAIN parsed' : Len(parsed'[i]) = 1
    <3> SUFFICES ASSUME needsMedia, NEW i \in DOMAIN parsed' PROVE Len(parsed'[i]) = 1
      OBVIOUS
    <3>1. i + 1 \in DOMAIN parsed /\ parsed'[i] = parsed[i + 1]
      BY <1>1, <1>5
    <3> QED BY <3>1 DEF AtifInv, ResolvedInv
  <2>2. needsMedia /\ parsed' # <<>> => Len(Parts') \in Nat
    <3> SUFFICES ASSUME needsMedia, parsed' # <<>> PROVE Len(Parts') \in Nat
      OBVIOUS
    <3>1. 1 \in DOMAIN parsed' /\ Head(parsed') = parsed'[1] /\ parsed'[1] \in Seq(X)
      <4> DEFINE S == Seq(X)
      <4>1. parsed' \in Seq(S)
        BY <1>1, <1>5
      <4> HIDE DEF S
      <4>2. 1 \in DOMAIN parsed' /\ Head(parsed') = parsed'[1] /\ parsed'[1] \in S
        BY <4>1
      <4> QED BY <4>2 DEF S
    <3>2. Len(Head(parsed')) = 1
      BY <2>1, <3>1
    <3> HIDE DEF X
    <3>3. Head(parsed') # <<>>
      BY <3>2
    <3>4. Head(Head(parsed')) \in X
      BY <3>1, <3>3, HeadTailProperties
    <3> USE DEF X
    <3> QED BY <1>2, <3>4, DocumentFacts DEF Parts, AtifInv
  <2> QED BY <1>1, <2>1, <2>2, EmptySequence DEF ResolvedInv, inputVars
<1>13. DeliveredInv'
  <2>1. \A d, parts : DeliveredWhole(d, parts) => DeliveredWhole(d, parts)'
    BY <1>1, WholeKept, SameVersions DEF inputVars
  <2>2. needsMedia => DeliveredWhole(item, Trajectories[Head(item.rows)])
    <3> SUFFICES ASSUME needsMedia PROVE DeliveredWhole(item, Trajectories[Head(item.rows)])
      OBVIOUS
    <3>1. Len(Head(parsed)) = 1 /\ Len(Parts) \in Nat /\ DOMAIN Parts = 1 .. Len(Parts)
      BY <1>1, FrontFacts DEF AtifInv
    <3>2. Len(resolved) \in Nat /\ DOMAIN resolved = 1 .. Len(resolved)
      BY SequenceAppend DEF AtifInv, AtifType
    <3>3. \A j \in DOMAIN resolved : Kept(Parts[j], resolved[j])
      <4>1. ResolvedInv
        BY DEF AtifInv
      <4> QED BY <1>1, <4>1 DEF ResolvedInv
    <3>4. Len(resolved) = Len(Parts)
      <4>1. Len(resolved) <= Len(Parts) /\ ~(Len(resolved) < Len(Parts))
        BY <1>1 DEF AtifInv, ResolvedInv, Unresolved
      <4>2. \A m, n \in Nat : m <= n /\ ~(m < n) => m = n
        OBVIOUS
      <4> QED BY <3>1, <3>2, <4>1, <4>2
    <3>5. Trajectories[Head(item.rows)] = Parts
      BY <1>4 DEF Parts
    <3> QED BY <1>4, <3>1, <3>2, <3>3, <3>4, <3>5 DEF DeliveredWhole
  <2>3. needsMedia =>
          \A i \in DOMAIN delivered' : DeliveredWhole(delivered'[i], Trajectories[Head(delivered'[i].rows)])
    <3> SUFFICES ASSUME needsMedia, NEW i \in DOMAIN delivered'
                 PROVE  DeliveredWhole(delivered'[i], Trajectories[Head(delivered'[i].rows)])
      OBVIOUS
    <3>1. CASE i = Len(delivered) + 1
      BY <1>6, <2>2, <3>1
    <3>2. CASE i # Len(delivered) + 1
      <4>1. i \in 1 .. Len(delivered)
        BY <1>6, <3>2
      <4> QED BY <1>6, <4>1, DeliveredMeans DEF AtifInv
    <3> QED BY <3>1, <3>2
  <2>4. (needsMedia =>
           \A i \in DOMAIN delivered : DeliveredWhole(delivered[i], Trajectories[Head(delivered[i].rows)]))'
    BY <1>1, <1>2, <2>1, <2>3 DEF inputVars
  <2> QED BY <2>4 DEF DeliveredInv, DeliveredWhole
<1>14. MediumInv'
  BY <1>1 DEF MediumInv
<1> QED
  BY <1>8, <1>10, <1>11, <1>12, <1>13, <1>14 DEF AtifInv

LEMMA StutterStep ==
  ASSUME AtifInv, UNCHANGED scanVars
  PROVE  AtifInv'
<1>1. /\ UNCHANGED <<inputVars, read, parsed, resolved, medium, delivered, versions, bytesRead>>
      /\ totalBytes' = totalBytes /\ phase' = phase
  BY DEF scanVars, inputVars
<1>2. Rows' = Rows /\ Outstanding' = Outstanding /\ Trajectories' = Trajectories
  BY <1>1 DEF Rows, RowsOf, Outstanding, MediumSize, Trajectories, inputVars
<1>3. CountInv' /\ totalBytes' \in Nat /\ phase' \in {"bind", "open", "scan", "ended", "failed"}
  BY <1>1, <1>2 DEF AtifInv, AtifType, CountInv
<1> QED
  BY <1>1, <1>3, PhaseFrame

LEMMA AtifStarts ==
  ASSUME AtifInit
  PROVE  AtifInv
<1>1. /\ document \in Documents /\ needsMedia \in BOOLEAN /\ phase = "bind" /\ read = 0
      /\ parsed = <<>> /\ resolved = <<>> /\ medium = NoSource /\ delivered = <<>>
      /\ versions = [location \in DOMAIN Media |-> <<Media[location]>>]
      /\ bytesRead = 0 /\ totalBytes = 0
  BY DEF AtifInit
<1>2. Len(Trajectories) \in Nat
  <2>1. IsSequence(Trajectories)
    BY <1>1, AtifAssumption DEF Trajectories
  <2> QED BY <2>1, SequenceAppend
<1>3. AtifType
  <2>1. versions \in [DOMAIN Media -> Seq(Nat) \ {<<>>}]
    <3>1. \A location \in DOMAIN Media : <<Media[location]>> \in Seq(Nat) \ {<<>>}
      BY AtifAssumption
    <3> QED BY <1>1, <3>1
  <2>2. parsed \in Seq(Seq(1 .. Len(Trajectories)))
    BY <1>1
  <2> QED BY <1>1, <1>2, <2>1, <2>2, EmptySequence DEF AtifType
<1>4. RowsInv
  <2>1. RowsDelivered(delivered) = <<>>
    BY <1>1 DEF RowsDelivered
  <2>2. Rows = <<>> /\ RowsOf(parsed) = <<>> /\ Parsed = 0
    <3>1. Rows = <<>> /\ RowsOf(parsed) = <<>>
      BY <1>1, <2>1, FlattenEmpty DEF Rows, RowsOf, RowsDelivered
    <3> QED BY <3>1 DEF Parsed, Rows
  <2>3. <<>> \o <<>> = [i \in 1 .. 0 |-> i]
    OBVIOUS
  <2> QED BY <1>1, <2>2, <2>3 DEF RowsInv
<1>5. CountInv
  BY <1>1 DEF CountInv
<1>6. ResolvedInv
  BY <1>1 DEF ResolvedInv
<1>7. DeliveredInv /\ MediumInv
  BY <1>1 DEF DeliveredInv, MediumInv
<1> QED
  BY <1>3, <1>4, <1>5, <1>6, <1>7 DEF AtifInv

LEMMA AtifSteps ==
  ASSUME AtifInv, [AtifNext]_scanVars
  PROVE  AtifInv'
<1>1. CASE UNCHANGED scanVars
  BY <1>1, StutterStep
<1>2. CASE BindAtif \/ OpenDocument \/ EndOfDocument \/ ReadDocument
  BY <1>2, BindStep, OpenStep, EndStep, ReadStep
<1>3. CASE ScanFails \/ CannotResolve
  BY <1>3, FailStep DEF ScanFails, CannotResolve
<1>4. CASE ParseBatch \/ Deliver \/ Replace
  BY <1>4, ParseStep, DeliverStep, ReplaceStep
<1>5. CASE ResolveInPlace \/ StatMedium \/ ReadMedium \/ EndOfMedium
  BY <1>5, ResolveInPlaceStep, StatStep, ReadMediumStep, EndOfMediumStep
<1> QED
  BY <1>1, <1>2, <1>3, <1>4, <1>5 DEF AtifNext

LEMMA AtifAlways == AtifSpec => []AtifInv
<1>1. AtifInit => AtifInv
  BY AtifStarts
<1>2. AtifInv /\ [AtifNext]_scanVars => AtifInv'
  BY AtifSteps
<1> QED
  BY <1>1, <1>2, PTL DEF AtifSpec
-----------------------------------------------------------------------------
\* For every document and media, and however they are replaced while they are
\* read: the progress of a scan of read_atif never passes 100 percent and ends
\* there (metrics.rs, add_total_bytes; media.rs, read).
THEOREM TotalsAlwaysCover == AtifSpec => []TotalsCover
<1>1. AtifInv => TotalsCover
  <2> SUFFICES ASSUME AtifInv PROVE TotalsCover
    OBVIOUS
  <2>1. bytesRead <= totalBytes
    BY DEF AtifInv, CountInv
  <2>2. phase = "ended" => bytesRead = totalBytes
    <3> SUFFICES ASSUME phase = "ended" PROVE bytesRead = totalBytes
      OBVIOUS
    <3>1. read = Len(Trajectories) /\ medium = NoSource
          /\ bytesRead + (Len(Trajectories) - read) + Outstanding = totalBytes
      BY DEF AtifInv, CountInv
    <3>2. Outstanding = 0 /\ bytesRead \in Nat /\ totalBytes \in Nat /\ Len(Trajectories) \in Nat
      BY <3>1, DocumentFacts DEF AtifInv, AtifType, Outstanding, MediumSize
    <3> QED BY <3>1, <3>2
  <2> QED BY <2>1, <2>2 DEF TotalsCover
<1> QED
  BY <1>1, AtifAlways, PTL

\* For the same: the trajectories that a scan delivers are those of the document,
\* in its order, each with the payloads of all its parts; a medium has the size
\* it was statted with, and each of its bytes is the one in that place of a version
\* the medium had between the stat and the end of the read (atif.rs, open;
\* media.rs, resolve_array, read).
THEOREM MediaAreComplete == AtifSpec => []MediaComplete
<1>1. AtifInv => MediaComplete
  <2> SUFFICES ASSUME AtifInv PROVE MediaComplete
    OBVIOUS
  <2>1. \A i \in DOMAIN Rows : Rows[i] = i
    <3> DEFINE X == 1 .. Len(Trajectories)
    <3>1. Rows \in Seq(X) /\ RowsOf(parsed) \in Seq(X) /\ Parsed = Len(Rows) + Len(RowsOf(parsed))
      BY RowsAre DEF AtifInv
    <3>2. Rows \o RowsOf(parsed) = [i \in 1 .. Parsed |-> i]
      BY DEF AtifInv, RowsInv
    <3> DEFINE b == RowsOf(parsed)
    <3> HIDE DEF X, b
    <3>3. /\ \A i \in DOMAIN Rows : i \in 1 .. Len(Rows) /\ (Rows \o b)[i] = Rows[i]
          /\ Len(Rows) \in Nat /\ Len(b) \in Nat
      BY <3>1 DEF b
    <3> SUFFICES ASSUME NEW i \in DOMAIN Rows PROVE Rows[i] = i
      OBVIOUS
    <3>4. i \in 1 .. Parsed
      BY <3>1, <3>3 DEF b
    <3> QED BY <3>2, <3>3, <3>4 DEF b
  <2>2. needsMedia =>
          \A i \in DOMAIN delivered :
            LET parts == Trajectories[Head(delivered[i].rows)] IN
              /\ Len(delivered[i].rows) = 1 /\ Len(delivered[i].payloads) = Len(parts)
              /\ \A j \in DOMAIN parts : Payload(parts[j], delivered[i].payloads[j])
    <3>1. \A part, payload : Kept(part, payload) => Payload(part, payload)
      BY DEF Kept
    <3> HIDE DEF Kept, Payload
    <3> QED BY <3>1 DEF AtifInv, DeliveredInv
  <2>3. phase = "ended" => Len(Rows) = Len(Trajectories)
    BY DEF AtifInv, CountInv
  <2> QED BY <2>1, <2>2, <2>3 DEF MediaComplete
<1> QED
  BY <1>1, AtifAlways, PTL
=============================================================================
