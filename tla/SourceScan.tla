----------------------------- MODULE SourceScan ----------------------------
(***************************************************************************)
(* SourceStreamFactory (rust/src/ffi.rs): the readers that the scans of    *)
(* one bound table function get, what those readers open (the listing of a *)
(* Hugging Face split and the footers of its shards, a WARC file or the    *)
(* manifest of a segment, an ATIF document), and the columns they deliver  *)
(* (the projections of source/parquet.rs, warc.rs and atif.rs).  How the   *)
(* batches of several objects are merged is in MergedStreams.              *)
(*                                                                         *)
(* Columns are named by their place in the schema, an object by its path,  *)
(* a sequence of names, and a shard by a number, in the order of names.  A *)
(* source is a record, by kind:                                            *)
(*   "parquet"  preserve, and the entries of the two directories of the    *)
(*              split, [name, shard, schema, groups]: whether it is a      *)
(*              .parquet file, and how many batches each of its row        *)
(*              groups has                                                 *)
(*   "warc"     path, indexed, and the manifests by their path             *)
(*   "atif"     path                                                       *)
(* What a reader reads are the row groups of the shards, the WARC files,   *)
(* or the document.                                                        *)
(***************************************************************************)
EXTENDS Naturals, Sequences, FiniteSets, SequencesExt

CONSTANTS
  NumColumns,   \* the columns of the source
  Sources,      \* the sources that may be bound
  Contents,     \* the batches that each of those has, in order, or NoContents
  NoContents,
  WarcNames,    \* the names that end in .warc or .warc.gz
  Spelling,     \* the pieces of the names that are not of one piece
  NumBatches,   \* the batches of a WARC file or an ATIF document
  MaxReadParallelism,
  Scans,        \* the scans DuckDB starts on it
  Requests      \* the lists of columns they ask for; 0 is an unknown name

ASSUME SourceAssumption ==
  /\ NumColumns \in Nat \ {0} /\ NumBatches \in Nat /\ MaxReadParallelism \in Nat \ {0}
  /\ Requests \subseteq Seq(0 .. NumColumns)
  /\ DOMAIN Contents = Sources /\ "bound" \notin Scans
  /\ \A b \in Sources : b.kind \in {"parquet", "warc", "atif"}

VARIABLES
  source,    \* what is bound
  bound,     \* the reader opened at bind: "binding", "held", "none" or "failed"
  scan,      \* each scan: "new", "opening", "reading", "ended", "failed" or "released"
  request,   \* the columns it asked for
  using,     \* the reader it has
  reader,    \* the readers
  got        \* what each scan received

sourceVars == <<source, bound, scan, request, using, reader, got>>

Columns    == 1 .. NumColumns
AllColumns == [i \in Columns |-> i]

(***************************************************************************)
(* A reader yields the columns roots, in this order, and rearranges them   *)
(* by order.  ColumnProjection::new, for a Parquet file.                   *)
(***************************************************************************)
Ascending(numbers) ==
  CHOOSE q \in [1 .. Cardinality(numbers) -> numbers] :
    \A i, j \in DOMAIN q : i < j => q[i] < q[j]

FileOrder(columns) == Ascending(ToSet(columns))

Place(roots, column) == Cardinality({i \in DOMAIN roots : roots[i] < column}) + 1

ColumnProjection(columns) ==
  LET roots == FileOrder(columns) IN
    [roots |-> roots, order |-> [i \in DOMAIN columns |-> Place(roots, columns[i])]]

AsRequested(columns) == [roots |-> columns, order |-> [i \in DOMAIN columns |-> i]]

Projection(columns) ==
  IF columns = <<>> THEN AsRequested(AllColumns)
  ELSE IF source.kind = "parquet" THEN ColumnProjection(columns)
  ELSE AsRequested(columns)

Delivered(r) == [i \in DOMAIN r.order |-> r.roots[r.order[i]]]

\* projected_schema of a WARC source takes no column twice.
Supported(columns) == source.kind = "warc" => Cardinality(ToSet(columns)) = Len(columns)
-----------------------------------------------------------------------------
(***************************************************************************)
(* What a source consists of.  The shards of a split, in name order: those *)
(* of the directory of that name, or else of the partial conversion.       *)
(***************************************************************************)
ListParquetFiles(directory) ==
  SetToSortSeq({e \in directory : e.shard}, LAMBDA e, f : e.name < f.name)

ParquetFiles(split) ==
  LET paths == ListParquetFiles(split.train) IN
    IF paths # <<>> THEN paths ELSE ListParquetFiles(split.partial)

(***************************************************************************)
(* WarcSegment: a segment, or a whole crawl, by its path.                  *)
(***************************************************************************)
NoSegment      == [root |-> <<>>, crawl |-> "", segment |-> ""]
Stripped(path) == IF path # <<>> /\ Last(path) = "warc" THEN Front(path) ELSE path

ParseSegment(path) ==
  LET parts == Stripped(path)
      n     == Len(parts)
  IN IF n >= 3 /\ parts[n - 2] = "crawl-data" /\ parts[n] = "warc.paths.gz"
     THEN [root |-> SubSeq(parts, 1, n - 3), crawl |-> parts[n - 1], segment |-> ""]
     ELSE IF /\ n >= 4 /\ parts[n - 3] = "crawl-data"
             /\ parts[n - 1] = "segments" /\ parts[n] \notin WarcNames
     THEN [root |-> SubSeq(parts, 1, n - 4), crawl |-> parts[n - 2], segment |-> parts[n]]
     ELSE NoSegment

ManifestPath(s) == s.root \o <<"crawl-data", s.crawl, "warc.paths.gz">>

\* The text of a directory: its names one after the other, each with a slash.
Spelled(name)   == IF name \in DOMAIN Spelling THEN Spelling[name] ELSE <<name>>
Text(directory) == FlattenSeq([i \in DOMAIN directory |-> Append(Spelled(directory[i]), "/")])

Prefix(s) == Text(<<"crawl-data", s.crawl>> \o
                    (IF s.segment = "" THEN <<>> ELSE <<"segments", s.segment, "warc">>))

\* The files of a segment; none if there is no manifest.
SegmentFiles(manifests, s) ==
  IF ManifestPath(s) \notin DOMAIN manifests THEN <<>>
  ELSE LET entries == SelectSeq(manifests[ManifestPath(s)],
                                LAMBDA e : IsStrictPrefix(Prefix(s), Front(Text(e))))
       IN [i \in DOMAIN entries |-> s.root \o entries[i]]

IsSegment(b) == b.kind = "warc" /\ ParseSegment(b.path) # NoSegment

\* The row groups of all shards, in one list.
RowGroups(files) ==
  FlattenSeq([i \in DOMAIN files |->
    [g \in DOMAIN files[i].groups |->
      [name |-> <<files[i].name, g>>, batches |-> files[i].groups[g]]]])

Object(b, o)  == IF b.kind = "parquet" THEN o.name ELSE o
Batches(b, o) == IF b.kind = "parquet" THEN o.batches ELSE NumBatches

SameSchema(files) == \A i \in DOMAIN files : files[i].schema = files[1].schema

Units(b, objects) ==
  FlattenSeq([i \in DOMAIN objects |->
    [j \in 1 .. Batches(b, objects[i]) |-> <<Object(b, objects[i]), j>>]])

Consists(b, objects) ==
  /\ objects \in Seq(ToSet(objects)) /\ \A o \in ToSet(objects) : Batches(b, o) \in Nat
  /\ IsInjective([i \in DOMAIN objects |-> Object(b, objects[i])])
  /\ Contents[b] # NoContents /\ Contents[b] = Units(b, objects)

\* Contents has, for a source that can be opened, all the batches of what is
\* listed of it, which has different names.
ContentsListed ==
  \A b \in Sources :
    /\ b.kind = "parquet" => ParquetFiles(b) \in Seq(ToSet(ParquetFiles(b)))
    /\ b.kind = "parquet" /\ ParquetFiles(b) # <<>> /\ SameSchema(ParquetFiles(b))
         => Consists(b, RowGroups(ParquetFiles(b)))
    /\ IsSegment(b) /\ SegmentFiles(b.manifests, ParseSegment(b.path)) # <<>> /\ ~b.indexed
         => Consists(b, SegmentFiles(b.manifests, ParseSegment(b.path)))
    /\ b.kind # "parquet" /\ ~IsSegment(b) => Consists(b, <<b.path>>)
-----------------------------------------------------------------------------
(***************************************************************************)
(* Readers.  A reader has one stream for each row group or file, and reads *)
(* it in batches: one stream after the other where the order is kept,      *)
(* else whichever has a batch, those of one shard too.                     *)
(***************************************************************************)
Readers == {"bound"} \cup Scans

NoReader == [state |-> "none", objects |-> <<>>, loaded |-> <<>>, taken |-> <<>>,
             roots |-> <<>>, order |-> <<>>]
Opening  == [NoReader EXCEPT !.state = "opening"]

InOrder == IF source.kind = "parquet" THEN source.preserve ELSE ~IsSegment(source)

SetScan(s, state) == scan' = [scan EXCEPT ![s] = state]
Requested(r)      == IF r = "bound" THEN <<>> ELSE request[r]

Opened(r, objects) ==
  LET projection == Projection(Requested(r)) IN
    /\ reader' = [reader EXCEPT ![r] =
         [state |-> "open", objects |-> objects, loaded |-> <<>>,
          taken |-> [i \in DOMAIN objects |-> 0],
          roots |-> projection.roots, order |-> projection.order]]
    /\ IF r = "bound" THEN bound' = "held" /\ UNCHANGED scan
                      ELSE SetScan(r, "reading") /\ UNCHANGED bound
    /\ UNCHANGED <<source, request, using, got>>

NotOpened(r) ==
  /\ reader' = [reader EXCEPT ![r] = NoReader]
  /\ IF r = "bound" THEN bound' = "failed" /\ UNCHANGED scan
                    ELSE SetScan(r, "failed") /\ UNCHANGED bound
  /\ UNCHANGED <<source, request, using, got>>

\* Only the Hugging Face source opens a reader at bind, to learn its schema.
SourceInit ==
  /\ source \in Sources
  /\ bound = (IF source.kind = "parquet" THEN "binding" ELSE "none")
  /\ scan = [s \in Scans |-> "new"]
  /\ request = [s \in Scans |-> <<>>]
  /\ using = [s \in Scans |-> s]
  /\ reader = [r \in Readers |-> IF r = "bound" /\ bound = "binding"
                                 THEN Opening ELSE NoReader]
  /\ got = [s \in Scans |-> <<>>]

IsOpening(r) == reader[r].state = "opening"

\* The storage fails, or what it has cannot be read.
OpenFails(r) == IsOpening(r) /\ NotOpened(r)

ListShards(r) ==
  /\ IsOpening(r) /\ source.kind = "parquet" /\ reader[r].objects = <<>>
  /\ IF ParquetFiles(source) = <<>> THEN NotOpened(r)
     ELSE /\ reader' = [reader EXCEPT ![r].objects = ParquetFiles(source)]
          /\ UNCHANGED <<source, bound, scan, request, using, got>>

\* buffered: no further ahead of the first footer that is missing.
FetchFooter(r, i) ==
  /\ IsOpening(r) /\ i \in DOMAIN reader[r].objects
  /\ LET missing == DOMAIN reader[r].objects \ ToSet(reader[r].loaded) IN
       i \in missing /\ i < Min(missing) + MaxReadParallelism
  /\ reader' = [reader EXCEPT ![r].loaded = Append(@, i)]
  /\ UNCHANGED <<source, bound, scan, request, using, got>>

AsLoaded(loaded) == loaded           \* mutant: in the order they came
Retained(loaded) == Ascending(ToSet(loaded))

FootersLoaded(r) ==
  LET retained == Retained(reader[r].loaded)
      files    == [i \in DOMAIN retained |-> reader[r].objects[retained[i]]]
  IN /\ IsOpening(r) /\ files # <<>> /\ Len(files) = Len(reader[r].objects)
     /\ IF SameSchema(files) THEN Opened(r, RowGroups(files)) ELSE NotOpened(r)

OpenWarc(r) ==
  /\ IsOpening(r) /\ source.kind = "warc"
  /\ IF ~Supported(Requested(r)) THEN NotOpened(r)
     ELSE IF ~IsSegment(source) THEN Opened(r, <<source.path>>)
     ELSE LET files == SegmentFiles(source.manifests, ParseSegment(source.path)) IN
            IF source.indexed \/ files = <<>> THEN NotOpened(r) ELSE Opened(r, files)

OpenAtif(r) == IsOpening(r) /\ source.kind = "atif" /\ Opened(r, <<source.path>>)
-----------------------------------------------------------------------------
(***************************************************************************)
(* The scans.  lance_source_get_stream hands out the bound reader, or      *)
(* opens another.                                                          *)
(***************************************************************************)
UnknownColumn(s, columns) ==
  /\ scan[s] = "new" /\ bound \in {"held", "none"} /\ 0 \in ToSet(columns)
  /\ SetScan(s, "failed")
  /\ UNCHANGED <<source, bound, request, using, reader, got>>

ReadsEveryColumn(columns) == columns = <<>> \/ columns = AllColumns

GetStream(s, columns) ==
  /\ scan[s] = "new" /\ bound \in {"held", "none"} /\ 0 \notin ToSet(columns)
  /\ request' = [request EXCEPT ![s] = columns]
  /\ IF ReadsEveryColumn(columns) /\ bound = "held"
     THEN /\ bound' = "none" /\ using' = [using EXCEPT ![s] = "bound"]
          /\ SetScan(s, "reading") /\ UNCHANGED reader
     ELSE /\ reader' = [reader EXCEPT ![s] = Opening]
          /\ SetScan(s, "opening") /\ UNCHANGED <<bound, using>>
  /\ UNCHANGED <<source, got>>

Finished(r, i) == r.taken[i] = Batches(source, r.objects[i])

\* ArrowBatchReader::next.
NextBatch(s) ==
  LET r == reader[using[s]] IN
    /\ scan[s] = "reading"
    /\ \E i \in DOMAIN r.objects :
         /\ ~Finished(r, i)
         /\ InOrder => \A j \in 1 .. i - 1 : Finished(r, j)
         /\ reader' = [reader EXCEPT ![using[s]].taken[i] = @ + 1]
         /\ got' = [got EXCEPT ![s] =
              Append(@, [unit |-> <<Object(source, r.objects[i]), r.taken[i] + 1>>, columns |-> Delivered(r)])]
    /\ UNCHANGED <<source, bound, scan, request, using>>

EndScan(s) ==
  /\ scan[s] = "reading"
  /\ \A i \in DOMAIN reader[using[s]].objects : Finished(reader[using[s]], i)
  /\ SetScan(s, "ended")
  /\ UNCHANGED <<source, bound, request, using, reader, got>>

ScanFails(s) ==
  /\ scan[s] = "reading" /\ SetScan(s, "failed")
  /\ UNCHANGED <<source, bound, request, using, reader, got>>

\* The reader goes with the stream.
ReleaseStream(s) ==
  /\ scan[s] = "reading" /\ SetScan(s, "released")
  /\ UNCHANGED <<source, bound, request, using, reader, got>>

SourceNext ==
  \/ \E r \in Readers :
       \/ OpenFails(r) \/ ListShards(r) \/ FootersLoaded(r) \/ OpenWarc(r) \/ OpenAtif(r)
       \/ \E i \in DOMAIN reader[r].objects : FetchFooter(r, i)
  \/ \E s \in Scans :
       \/ \E columns \in Requests : UnknownColumn(s, columns) \/ GetStream(s, columns)
       \/ NextBatch(s) \/ EndScan(s) \/ ScanFails(s) \/ ReleaseStream(s)

SourceSpec == SourceInit /\ [][SourceNext]_sourceVars
-----------------------------------------------------------------------------
\* Every scan sees all of what its source is, from the first batch on: the
\* shards of the split, or of its partial conversion, the files that the
\* manifest has of the segment or the crawl, the one file or document, each
\* batch once, those of a row group or file in order, and all in the order of
\* the shards and their row groups where that is kept; and in each batch the
\* columns it asked for in the order it asked for them, all of them for an empty
\* list.  No scan continues, or shares, the reader of another, none mixes shards
\* of different schemas, and one that ends has it all (ffi.rs, open_reader; huggingface.rs, parquet_files;
\* parquet_metadata.rs, load_parquet_metadata; warc_segment.rs, files;
\* parquet.rs, ColumnProjection).
Wanted(s)     == IF request[s] = <<>> THEN AllColumns ELSE request[s]
UnitsOf(s)    == [i \in DOMAIN got[s] |-> got[s][i].unit]
\* The n-th batch of a row group or file is batch n of it.
Numbered(units) ==
  \A i \in DOMAIN units :
    units[i][2] = Cardinality({j \in 1 .. i : units[j][1] = units[i][1]})

ScanDelivers ==
  \A s \in Scans :
    /\ \A i \in DOMAIN got[s] : got[s][i].columns = Wanted(s)
    /\ got[s] # <<>> \/ scan[s] = "ended" => Contents[source] # NoContents
    /\ IF InOrder THEN got[s] # <<>> => IsPrefix(UnitsOf(s), Contents[source])
       ELSE got[s] # <<>> =>
              Numbered(UnitsOf(s)) /\ ToSet(UnitsOf(s)) \subseteq ToSet(Contents[source])
    /\ scan[s] = "ended" => Len(got[s]) = Len(Contents[source])
=============================================================================
