---------------------------- MODULE MCSourceScan ----------------------------
(* Small instances of SourceScan for TLC. *)
EXTENDS SourceScan

\* Every list of up to two columns, some of three, and one with an unknown name.
ColumnLists == BoundedSeq(Columns, 2) \cup {<<1, 2, 3>>, <<3, 1, 2>>, <<2, 3, 2>>, <<1, 0>>}
ScanSymmetry == Permutations(Scans)

Entry(name, groups) == [name |-> name, shard |-> TRUE, schema |-> "x", groups |-> groups]
Other(name)         == [name |-> name, shard |-> FALSE, schema |-> "", groups |-> <<>>]
Split(preserve, train, partial) ==
  [kind |-> "parquet", preserve |-> preserve, train |-> train, partial |-> partial]

Shards     == {Entry(3, <<1>>), Entry(1, <<1>>), Entry(2, <<1>>)}
OfSchema   == {Entry(1, <<1>>), [Entry(2, <<1>>) EXCEPT !.schema = "y"]}
Whole(paths) == FlattenSeq([i \in DOMAIN paths |-> [j \in 1 .. NumBatches |-> <<paths[i], j>>]])

\* Ordered splits, some with two row groups in a shard, and unordered ones.
Splits ==
  (Split(TRUE, Shards, {}) :> <<<<<<1, 1>>, 1>>, <<<<2, 1>>, 1>>, <<<<3, 1>>, 1>>>>)
    @@ (Split(TRUE, {Entry(1, <<1, 2>>)}, {}) :> <<<<<<1, 1>>, 1>>, <<<<1, 2>>, 1>>, <<<<1, 2>>, 2>>>>)
    @@ (Split(FALSE, {Entry(2, <<2, 1>>), Entry(1, <<>>)}, {Entry(5, <<1>>)}) :>
          <<<<<<2, 1>>, 1>>, <<<<2, 1>>, 2>>, <<<<2, 2>>, 1>>>>)
    @@ (Split(TRUE, {Other(1)}, {Entry(5, <<1>>), Other(6)}) :> <<<<<<5, 1>>, 1>>>>)
    @@ (Split(TRUE, {Entry(1, <<>>)}, {Entry(5, <<1>>)}) :> <<>>)
    @@ (Split(TRUE, {}, {Other(1)}) :> NoContents)
    @@ (Split(TRUE, OfSchema, {Entry(5, <<1>>)}) :> NoContents)

\* Names that begin with another, and an empty one: a manifest also lists directories.
LongNames == ("12" :> <<"1", "2">>) @@ ("e2" :> <<"e", "2">>) @@ ("" :> <<>>)

Crawl(root)      == root \o <<"crawl-data", "c">>
OtherCrawl       == <<"crawl-data", "e">>
File(segment, f) == <<"crawl-data", "c", "segments", segment, "warc", f>>
Manifest == <<File("1", "a.warc"), File("1", ""), File("12", "b.warc"), File("1", "c.warc"),
              <<"crawl-data", "c", "segments", "1", "wat", "d.warc">>,
              <<"crawl-data", "e", "segments", "1", "warc", "e.warc">>>>
Manifest2 == <<OtherCrawl, OtherCrawl \o <<"">>, OtherCrawl \o <<"f.warc">>, <<"crawl-data", "e2", "g.warc">>,
               File("1", "a.warc")>>
Mirror   == <<"m">>
Warc(path, indexed) ==
  [kind |-> "warc", path |-> path, indexed |-> indexed,
   manifests |-> (Crawl(<<>>) \o <<"warc.paths.gz">> :> Manifest)
                   @@ (OtherCrawl \o <<"warc.paths.gz">> :> Manifest2)
                   @@ (Crawl(Mirror) \o <<"warc.paths.gz">> :> <<File("1", "a.warc")>>)]

Segment1  == <<File("1", "a.warc"), File("1", "c.warc")>>
OneFile   == Crawl(<<>>) \o <<"segments", "a.warc">>

Warcs ==
  (Warc(<<"x", "a.warc">>, FALSE) :> Whole(<<<<"x", "a.warc">>>>))
    @@ (Warc(OneFile, TRUE) :> Whole(<<OneFile>>))
    @@ (Warc(Crawl(<<>>) \o <<"segments", "1">>, FALSE) :> Whole(Segment1))
    @@ (Warc(Crawl(<<>>) \o <<"segments", "1", "warc">>, FALSE) :> Whole(Segment1))
    @@ (Warc(OtherCrawl \o <<"warc.paths.gz">>, FALSE) :> Whole(<<Manifest2[3]>>))
    @@ (Warc(Crawl(Mirror) \o <<"segments", "1">>, FALSE) :> Whole(<<Mirror \o File("1", "a.warc")>>))
    @@ (Warc(Crawl(<<>>) \o <<"segments", "1">>, TRUE) :> NoContents)
    @@ (Warc(Crawl(<<>>) \o <<"segments", "2">>, FALSE) :> NoContents)
    @@ (Warc(Crawl(<<"n">>) \o <<"segments", "1">>, FALSE) :> NoContents)

Atifs == [kind |-> "atif", path |-> <<"t.json">>] :> Whole(<<<<"t.json">>>>)

SmallContents == Splits @@ Warcs @@ Atifs
SmallSources  == DOMAIN SmallContents
=============================================================================
