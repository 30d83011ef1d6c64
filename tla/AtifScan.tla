------------------------------ MODULE AtifScan -----------------------------
(***************************************************************************)
(* A scan of read_atif: the checks of its bind (src/atif_scan.cpp), the    *)
(* opening of the document (rust/src/source/atif.rs, storage.rs), its      *)
(* parsing in batches, and the media that each batch waits for             *)
(* (source/atif/media.rs), with the bytes and totals the progress is made  *)
(* of (metrics.rs).  Media may be replaced while they are read: each byte  *)
(* is known by the version of its medium that it came from.                *)
(*                                                                         *)
(* A location is [scheme, origin, path], its path a sequence of names.  A  *)
(* trajectory is a sequence of content parts [type, source]; a source is   *)
(* NoSource or a reference [form, scheme, origin, path, user, query]: a    *)
(* "data" URI (malformed if it has no path), a path that is "relative" or  *)
(* "absolute", or a "url".                                                 *)
(***************************************************************************)
EXTENDS Naturals, Sequences, FiniteSets, SequencesExt

CONSTANTS
  Documents,     \* [location, query, format, option, trajectories] of the files to scan
  Media,         \* the sizes of the media, by location
  Targets,       \* the locations that references lead to, by document and reference
  ReadBatchSize, \* BATCH_SIZE
  Cores,         \* the parallelism of a scan without media
  MaxVersions,   \* bound: how many sizes a medium has over time
  NoSource

IsSequence(s) == s \in Seq(ToSet(s))

ASSUME AtifAssumption ==
  /\ ReadBatchSize \in Nat \ {0} /\ Cores \in Nat \ {0} /\ MaxVersions \in Nat
  /\ Media \in [DOMAIN Media -> Nat]
  /\ NoSource \notin [location : DOMAIN Media, statted : Nat, bytes : Seq(Nat)]
  /\ \A d \in Documents :
       IsSequence(d.trajectories) /\ \A t \in ToSet(d.trajectories) : IsSequence(t)

VARIABLES
  document, preserveOrder,   \* what is scanned, and DuckDB's setting
  needsMedia,    \* the projection has the column steps
  phase,         \* "bind", "open", "scan", "ended" or "failed"
  read,          \* how much of the document was read: a unit per trajectory
  parsed,        \* the batches that are parsed and not delivered, as indexes of trajectories
  resolved,      \* the payloads of the batch being resolved
  medium,        \* the medium being read, or NoSource: [location, statted, bytes], the version
                 \* it was statted in, and the version that each byte read so far came from
  delivered,     \* the batches delivered: [rows, payloads]
  versions,      \* the sizes of each medium so far, the last one being that of now
  bytesRead, totalBytes    \* ReadMetrics

scanVars == <<document, preserveOrder, needsMedia, phase, read, parsed, resolved, medium,
              delivered, versions, bytesRead, totalBytes>>
inputVars == <<document, preserveOrder, needsMedia>>

Trajectories == document.trajectories
Remote       == {"s3", "http"}
-----------------------------------------------------------------------------
(***************************************************************************)
(* Where media are: resolve_uri and InputFile::open.                       *)
(***************************************************************************)
Location(scheme, origin, path) == [scheme |-> scheme, origin |-> origin, path |-> path]
Local(path)  == Location("file", "", path)
Invalid      == Location("", "", <<>>)

\* A path on disk is taken as it is written: what looks like a query is part of
\* the name of the file, here as a last piece.
FileName(reference) == IF reference.query THEN Append(reference.path, "?") ELSE reference.path

\* The target of a reference, as Url::join makes it from a document's URL; the
\* path of the target leaves a query out.
Joined(base, reference) ==
  CASE reference.form = "relative" -> [base EXCEPT !.path = Front(@) \o reference.path]
    [] reference.form = "absolute" -> [base EXCEPT !.path = reference.path]
    [] OTHER -> Location(reference.scheme, reference.origin, reference.path)

SameOrigin(base, target) == base.scheme = target.scheme /\ base.origin = target.origin

ResolveUri(base, reference) ==
  IF base.scheme \in Remote
  THEN IF SameOrigin(base, Joined(base, reference)) /\ ~reference.user
       THEN Joined(base, reference) ELSE Invalid
  ELSE CASE reference.form = "absolute" -> Local(FileName(reference))
         [] reference.form = "relative" -> [base EXCEPT !.path = Front(@) \o FileName(reference)]
         [] reference.form = "url" /\ reference.scheme \in Remote \cup {"file"} ->
              Location(reference.scheme, reference.origin, reference.path)
         [] OTHER -> Invalid

\* The S3 configuration is there when the document, at base, is on S3.
Openable(base, location, query) ==
  /\ location # Invalid /\ location.path # <<>>
  /\ location.scheme = "s3" => base.scheme = "s3"
  /\ location.scheme = "http" => ~query

\* Targets has every reference that leads to a medium.
ASSUME TargetsAssumption ==
  \A d \in Documents : \A t \in ToSet(d.trajectories) : \A part \in ToSet(t) :
    LET target == ResolveUri(d.location, part.source) IN
      /\ part.source # NoSource /\ part.source.form # "data"
      /\ Openable(d.location, target, part.source.query) /\ target \in DOMAIN Media
      => Targets[<<d.location, part.source>>] = target
-----------------------------------------------------------------------------
AtifInit ==
  /\ document \in Documents /\ preserveOrder \in BOOLEAN /\ needsMedia \in BOOLEAN
  /\ phase = "bind" /\ read = 0 /\ parsed = <<>> /\ resolved = <<>>
  /\ medium = NoSource /\ delivered = <<>>
  /\ versions = [location \in DOMAIN Media |-> <<Media[location]>>]
  /\ bytesRead = 0 /\ totalBytes = 0

Fail ==
  /\ phase' = "failed"
  /\ UNCHANGED <<inputVars, read, parsed, resolved, medium, delivered, versions, bytesRead, totalBytes>>

BindAtif ==
  /\ phase = "bind"
  /\ IF preserveOrder /\ document.location.scheme \in Remote \cup {"file"}
     THEN /\ phase' = "open"
          /\ UNCHANGED <<inputVars, read, parsed, resolved, medium, delivered, versions, bytesRead, totalBytes>>
     ELSE Fail

InputFormat == IF document.option # "" THEN document.option ELSE document.format

\* The document is statted, and is the total so far.
OpenDocument ==
  /\ phase = "open"
  /\ IF /\ Openable(document.location, document.location, document.query)
        /\ InputFormat \in {"json", "jsonl", "ndjson"}
     THEN /\ phase' = "scan"
          /\ totalBytes' = Len(Trajectories)
          /\ UNCHANGED <<inputVars, read, parsed, resolved, medium, delivered, versions, bytesRead>>
     ELSE Fail

\* The storage fails, or a trajectory is malformed.
ScanFails == phase = "scan" /\ Fail
-----------------------------------------------------------------------------
(***************************************************************************)
(* The parser: whole batches, in the order of the document.                *)
(***************************************************************************)
BatchSize   == IF needsMedia THEN 1 ELSE ReadBatchSize
Parallelism == IF needsMedia THEN 1 ELSE Cores

RowsOf(batches) == FlattenSeq(batches)
Parsed == Len(RowsOf([i \in DOMAIN delivered |-> delivered[i].rows])) + Len(RowsOf(parsed))

ReadDocument ==
  /\ phase = "scan" /\ read < Len(Trajectories)
  /\ read' = read + 1 /\ bytesRead' = bytesRead + 1
  /\ UNCHANGED <<inputVars, phase, parsed, resolved, medium, delivered, versions, totalBytes>>

ParseBatch ==
  /\ phase = "scan" /\ Len(parsed) <= Parallelism
  /\ LET rows == Min({BatchSize, Len(Trajectories) - Parsed}) IN
       /\ rows > 0 /\ read >= Parsed + rows
       /\ parsed' = Append(parsed, [i \in 1 .. rows |-> Parsed + i])
  /\ UNCHANGED <<inputVars, phase, read, resolved, medium, delivered, versions, bytesRead, totalBytes>>
-----------------------------------------------------------------------------
(***************************************************************************)
(* MediaResolver: the parts of a batch one after the other.                *)
(***************************************************************************)
Resolving == phase = "scan" /\ needsMedia /\ parsed # <<>> /\ medium = NoSource
Parts     == Trajectories[Head(Head(parsed))]
Part      == Parts[Len(resolved) + 1]
Unresolved == Len(resolved) < Len(Parts)

Null             == [from |-> Invalid, bytes |-> <<>>]
Embedded(source) == [from |-> Location("data", "", source.path), bytes |-> <<>>]

HasData == /\ Part.type \in {"image", "audio"} /\ Part.source # NoSource
           /\ Part.source.form = "data" /\ Part.source.path # <<>>
Referenced == Part.type \in {"image", "audio"} /\ Part.source # NoSource /\ Part.source.form # "data"
Target     == ResolveUri(document.location, Part.source)
Reachable  == Openable(document.location, Target, Part.source.query) /\ Target \in DOMAIN versions

\* A text has no payload, a data URI has it in itself.
ResolveInPlace ==
  /\ Resolving /\ Unresolved
  /\ \/ Part.type \in {"text", "null"} /\ resolved' = Append(resolved, Null)
     \/ HasData /\ resolved' = Append(resolved, Embedded(Part.source))
  /\ UNCHANGED <<inputVars, phase, read, parsed, medium, delivered, versions, bytesRead, totalBytes>>

SetTotal(bytes) == bytes                             \* mutant: forgets the others
AddTotal(bytes) == totalBytes + bytes

StatMedium ==
  /\ Resolving /\ Unresolved /\ Referenced
  /\ Reachable
  /\ medium' = [location |-> Target, statted |-> Len(versions[Target]), bytes |-> <<>>]
  /\ totalBytes' = AddTotal(Last(versions[Target]))
  /\ UNCHANGED <<inputVars, phase, read, parsed, resolved, delivered, versions, bytesRead>>

\* A part of another type, an image without a source or with malformed data, a
\* reference that leads nowhere.
CannotResolve ==
  /\ Resolving /\ Unresolved
  /\ ~HasData
  /\ Part.type \notin {"text", "null"}
  /\ ~(Referenced /\ Reachable)
  /\ Fail

\* The size that a medium had when it was statted.
MediumSize(m) == versions[m.location][m.statted]

\* No version is pinned: each response is of one that the medium has had since.
\* The storage yields no more than that version has, or than was asked for.
Current       == medium.statted .. Len(versions[medium.location])
Left(version) == Min({MediumSize(medium), versions[medium.location][version]}) - Len(medium.bytes)

ReadMedium ==
  /\ phase = "scan" /\ medium # NoSource
  /\ \E version \in Current : \E n \in 1 .. Left(version) :
       /\ medium' = [medium EXCEPT !.bytes = @ \o [i \in 1 .. n |-> version]]
       /\ bytesRead' = bytesRead + n
  /\ UNCHANGED <<inputVars, phase, read, parsed, resolved, delivered, versions, totalBytes>>

AnySize    == TRUE                                   \* mutant: whatever was read
WholeSize  == Len(medium.bytes) = MediumSize(medium)

\* What is delivered of a medium, with the versions it has had until then.
Received == [from |-> medium.location, statted |-> medium.statted,
             until |-> Len(versions[medium.location]), bytes |-> medium.bytes]

EndOfMedium ==
  /\ phase = "scan" /\ medium # NoSource
  /\ \E version \in Current : Left(version) <= 0
  /\ IF WholeSize
     THEN /\ resolved' = Append(resolved, Received)
          /\ medium' = NoSource
          /\ UNCHANGED <<inputVars, phase, read, parsed, delivered, versions, bytesRead, totalBytes>>
     ELSE Fail

\* A batch without media is passed on as it is.
Deliver ==
  /\ phase = "scan" /\ parsed # <<>> /\ medium = NoSource
  /\ needsMedia => ~Unresolved
  /\ delivered' = Append(delivered, [rows |-> Head(parsed), payloads |-> resolved])
  /\ parsed' = Tail(parsed) /\ resolved' = <<>>
  /\ UNCHANGED <<inputVars, phase, read, medium, versions, bytesRead, totalBytes>>

EndOfDocument ==
  /\ phase = "scan" /\ parsed = <<>> /\ Parsed = Len(Trajectories)
  /\ phase' = "ended"
  /\ UNCHANGED <<inputVars, read, parsed, resolved, medium, delivered, versions, bytesRead, totalBytes>>

\* Somebody else replaces a medium of the document; only one is, however often.
Referred == {ResolveUri(document.location, part.source) :
               part \in {p \in ToSet(FlattenSeq(Trajectories)) : p.source # NoSource}}

Replace ==
  /\ phase = "scan" /\ needsMedia
  /\ \E location \in Referred \cap DOMAIN versions : \E bytes \in 0 .. Media[location] + 1 :
       /\ Len(versions[location]) < MaxVersions
       /\ \A other \in DOMAIN versions \ {location} : Len(versions[other]) = 1
       /\ versions' = [versions EXCEPT ![location] = Append(@, bytes)]
  /\ UNCHANGED <<inputVars, phase, read, parsed, resolved, medium, delivered, bytesRead, totalBytes>>

AtifNext ==
  \/ BindAtif \/ OpenDocument \/ ScanFails
  \/ ReadDocument \/ ParseBatch
  \/ ResolveInPlace \/ StatMedium \/ CannotResolve \/ ReadMedium \/ EndOfMedium
  \/ Deliver \/ EndOfDocument \/ Replace

AtifSpec == AtifInit /\ [][AtifNext]_scanVars
-----------------------------------------------------------------------------
\* The scan delivers the trajectories of the document in order, each once, and,
\* if it reads the media, each with the payload of every part in that part's
\* place: none for a text, and for a medium exactly as many bytes as the object
\* that its source leads to had when it was statted, each at its place in a
\* version that the object had between the stat and the end of the read.  So a
\* medium that is not replaced meanwhile is delivered whole, and one that shrinks
\* never without its end.  No more is promised: a medium replaced by one that is
\* as long or longer may be the start of it, or a mixture of the two.  A scan that
\* ends has delivered all trajectories (atif.rs, open; media.rs, resolve_array,
\* read).
Payload(part, payload) ==
  IF part.type \in {"text", "null"} THEN payload = Null
  ELSE IF part.source.form = "data" THEN payload = Embedded(part.source)
  ELSE /\ payload.from = Targets[<<document.location, part.source>>]
       /\ payload.until \in DOMAIN versions[payload.from]
       /\ payload.statted \in 1 .. payload.until
       /\ Len(payload.bytes) = versions[payload.from][payload.statted]
       /\ \A i \in DOMAIN payload.bytes :
            /\ payload.bytes[i] \in payload.statted .. payload.until
            /\ i <= versions[payload.from][payload.bytes[i]]

Rows == RowsOf([i \in DOMAIN delivered |-> delivered[i].rows])

MediaComplete ==
  /\ \A i \in DOMAIN Rows : Rows[i] = i
  /\ needsMedia =>
       \A i \in DOMAIN delivered :
         LET parts == Trajectories[Head(delivered[i].rows)] IN
           /\ Len(delivered[i].rows) = 1 /\ Len(delivered[i].payloads) = Len(parts)
           /\ \A j \in DOMAIN parts : Payload(parts[j], delivered[i].payloads[j])
  /\ phase = "ended" => Len(Rows) = Len(Trajectories)

\* The total is known before the bytes are read: the progress of a scan never
\* passes 100 percent, though the media are only met as the document is parsed,
\* and ends there (metrics.rs, add_total_bytes; media.rs, read).
TotalsCover ==
  /\ bytesRead <= totalBytes
  /\ phase = "ended" => bytesRead = totalBytes
=============================================================================
