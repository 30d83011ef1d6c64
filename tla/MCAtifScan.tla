----------------------------- MODULE MCAtifScan -----------------------------
(* Small instances of AtifScan for TLC. *)
EXTENDS AtifScan, TLC

Reference(form, scheme, origin, path) ==
  [form |-> form, scheme |-> scheme, origin |-> origin, path |-> path, user |-> FALSE, query |-> FALSE]
Relative == Reference("relative", "", "", <<"m">>)
Absolute == Reference("absolute", "", "", <<"a">>)
Url(scheme, origin) == Reference("url", scheme, origin, <<"a">>)
Data == Reference("data", "", "", <<"x">>)

TextPart      == [type |-> "text", source |-> NoSource]
NullPart      == [type |-> "null", source |-> NoSource]
Image(source) == [type |-> "image", source |-> source]
Audio(source) == [type |-> "audio", source |-> source]

OnDisk == Local(<<"d", "t">>)
OnS3   == Location("s3", "b", <<"d", "t">>)
OnHttp == Location("http", "h", <<"d", "t">>)
Odd    == Location("gs", "b", <<"d", "t">>)

Document(location, trajectories) ==
  [location |-> location, query |-> FALSE, format |-> "jsonl", option |-> "", trajectories |-> trajectories]

\* References from one document to another place, one document each.
References ==
  {Relative, Absolute, Data, Url("s3", "b"), Url("s3", "c"), Url("http", "h"), Url("http", "i"),
   Url("file", ""), Url("gs", "b"),
   [Relative EXCEPT !.query = TRUE], [Absolute EXCEPT !.query = TRUE],
   [Url("file", "") EXCEPT !.query = TRUE], [Url("http", "h") EXCEPT !.query = TRUE],
   [Url("http", "h") EXCEPT !.user = TRUE], [Data EXCEPT !.path = <<>>], [Absolute EXCEPT !.path = <<>>]}

SmallDocuments ==
  {Document(l, <<<<TextPart, Image(r)>>>>) : l \in {OnDisk, OnS3, OnHttp}, r \in References}
    \cup {Document(OnS3, <<<<Image(Relative), NullPart>>, <<TextPart, Audio(Absolute)>>, <<Audio(Data)>>>>),
          Document(OnHttp, <<<<Image(Relative)>>, <<>>, <<Audio(Absolute)>>>>),
          Document(OnDisk, <<<<Image(NoSource)>>>>), Document(OnDisk, <<<<TextPart, [Image(Data) EXCEPT !.type = "odd"]>>>>),
          Document(Odd, <<>>), Document(Location("s3", "b", <<>>), <<>>),
          [Document(OnHttp, <<>>) EXCEPT !.query = TRUE], [Document(OnDisk, <<>>) EXCEPT !.format = "gif"],
          [Document(OnDisk, <<<<TextPart>>>>) EXCEPT !.format = "txt", !.option = "ndjson"]}

\* Some have the name of another and a query.
SmallMedia ==
  (Local(<<"d", "m">>) :> 2) @@ (Local(<<"d", "m", "?">>) :> 1) @@ (Local(<<"a">>) :> 1)
    @@ (Local(<<"a", "?">>) :> 2) @@ (Location("s3", "b", <<"d", "m">>) :> 2)
    @@ (Location("s3", "b", <<"a">>) :> 1) @@ (Location("http", "h", <<"d", "m">>) :> 2)
    @@ (Location("http", "h", <<"a">>) :> 1) @@ (Location("http", "i", <<"a">>) :> 1)
    @@ (Location("s3", "c", <<"a">>) :> 1)

\* Where each reference leads, for those that lead anywhere.
SmallTargets ==
     (<<OnDisk, Relative>> :> Local(<<"d", "m">>)) @@ (<<OnDisk, Absolute>> :> Local(<<"a">>))
  @@ (<<OnDisk, Url("file", "")>> :> Local(<<"a">>))
  @@ (<<OnDisk, [Relative EXCEPT !.query = TRUE]>> :> Local(<<"d", "m", "?">>))
  @@ (<<OnDisk, [Absolute EXCEPT !.query = TRUE]>> :> Local(<<"a", "?">>))
  @@ (<<OnDisk, [Url("file", "") EXCEPT !.query = TRUE]>> :> Local(<<"a">>))
  @@ (<<OnDisk, Url("http", "h")>> :> Location("http", "h", <<"a">>))
  @@ (<<OnDisk, [Url("http", "h") EXCEPT !.user = TRUE]>> :> Location("http", "h", <<"a">>))
  @@ (<<OnDisk, Url("http", "i")>> :> Location("http", "i", <<"a">>))
  @@ (<<OnS3, Relative>> :> Location("s3", "b", <<"d", "m">>)) @@ (<<OnS3, Absolute>> :> Location("s3", "b", <<"a">>))
  @@ (<<OnS3, [Relative EXCEPT !.query = TRUE]>> :> Location("s3", "b", <<"d", "m">>))
  @@ (<<OnS3, [Absolute EXCEPT !.query = TRUE]>> :> Location("s3", "b", <<"a">>))
  @@ (<<OnS3, Url("s3", "b")>> :> Location("s3", "b", <<"a">>))
  @@ (<<OnHttp, Relative>> :> Location("http", "h", <<"d", "m">>)) @@ (<<OnHttp, Absolute>> :> Location("http", "h", <<"a">>))
  @@ (<<OnHttp, Url("http", "h")>> :> Location("http", "h", <<"a">>))
=============================================================================
