----------------------------- MODULE MCCopyPlan -----------------------------
(* Small instances of CopyPlan for TLC. *)
EXTENDS CopyPlan, TLC

Field(type)        == [type |-> type, metadata |-> NoMetadata]
Atif(type, policy) == [type |-> type, metadata |-> [NoMetadata EXCEPT
                         !.source_type = "atif", !.storage_policy = policy]]

\* Names: the column "s.x" looks like the field x of the column S.
Doc == <<"Doc">>   S == <<"S">>   SX == <<"s", "x">>   V == <<"v">>   Raw == <<"raw">>
Parts == <<"parts">>   Item == <<>>   X == <<"x">>   Y == <<"Y">>   Text == <<"text">>   Path == <<"path">>

Plain ==
  [columns  |-> <<Doc, S, SX, V, Raw>>,
   metadata |-> NoMetadata,
   fields   |-> <<Doc>> :> Field("string") @@ <<S>> :> Field("struct") @@ <<S, X>> :> Field("binary")
                  @@ <<S, Y>> :> Field("list") @@ <<S, Y, Item>> :> Field("string")
                  @@ <<SX>> :> Field("integer") @@ <<Raw>> :> Field("binary")
                  @@ <<V>> :> Field("array") @@ <<V, Item>> :> Field("float")]

Steps ==
  [columns  |-> <<Doc, Parts>>,
   metadata |-> [NoMetadata EXCEPT !.source_type = "atif"],
   fields   |-> <<Doc>> :> Field("string") @@ <<Parts>> :> Field("list")
                  @@ <<Parts, Item>> :> Field("struct")
                  @@ <<Parts, Item, Text>> :> Atif("binary", "text")
                  @@ <<Parts, Item, Path>> :> Atif("binary", "blob")]

Odd == [columns |-> <<Doc, V>>, metadata |-> NoMetadata,
        fields |-> <<Doc>> :> Field("string") @@ <<V>> :> Field("list") @@ <<V, Item>> :> Field("unsupported")]

Optional(option, values) == {<<>>} \cup {option :> v : v \in values}
And(A, B) == {a @@ b : a \in A, b \in B}

\* The names a statement may use; the last one is unknown.
Lower == [doc |-> <<"doc">>, s |-> <<"s">>, sx |-> <<"S", "X">>, sy |-> <<"s", "y">>,
          text |-> <<"Parts", "text">>, path |-> <<"parts", "PATH">>, none |-> <<"doc", "y">>]
One(name, value) == <<[column |-> Lower[name], value |-> value]>>

Compression == Optional("column_compression",
  {One("doc", "zstd"), One("sx", "zstd"), One("text", "zstd"), One("none", "zstd"), One("sy", ""), <<>>,
   One("sy", "zstd") \o One("s", "lz4"), One("text", "zstd") \o One("path", "lz4"),
   One("doc", "zstd") \o One("doc", "lz4")})
Level == Optional("column_compression_level",
  {One("doc", "3"), One("sy", "3"), One("s", "3") \o One("sx", "4"), One("path", "3")})
Structural == Optional("column_structural_encoding",
  {One("doc", "fullzip"), One("sx", "miniblock"), One("sy", "miniblock"), One("s", "unknown")})

BlobColumns == Optional("blob_columns", {<<Lower.doc>>, <<Lower.s>>, <<Doc, Lower.doc>>, <<Lower.none>>})
Indexed ==
  And(And(Optional("scalar_index_columns", {<<Lower.doc>>, <<Lower.sx, Lower.doc>>, <<Raw>>, <<>>}),
          Optional("text_index_columns", {<<Lower.doc>>, <<Lower.sx>>, <<Doc, Lower.doc>>})),
      And(Optional("vector_index_columns", {<<V>>}),
          Optional("bloom_filter_index_columns", {<<Lower.sx>>, <<Lower.none>>})))

Modes == {<<>>, <<TRUE>>, <<FALSE>>, <<TRUE, TRUE>>}
WriteModes == And(Optional("overwrite", Modes), Optional("append", Modes))
Limits ==
  And(And(Optional("blob_inline_size_threshold", {<<0>>, <<-1>>}),
          Optional("blob_dedicated_size_threshold", {<<0>>, <<1>>})),
      And(Optional("target_file_size", {<<0>>, <<1>>, <<1, 2>>}),
          And(Optional("storage_version", {<<"2.1">>, <<"odd">>, <<>>}), Optional("row_group_size", {<<1>>}))))

Generated(name, expression) ==
  [name |-> name, expression |-> expression, type |-> "string", star |-> FALSE,
   parameter |-> FALSE, volatile |-> FALSE, reads |-> "row"]
Upper == Generated(<<"upper">>, "upper(doc)")
Columns == Optional("generated_columns",
  {<<Upper>>, <<Generated(<<"g">>, "lower(doc)"), Upper>>, <<Upper, Generated(<<"UPPER">>, "doc")>>,
   <<Generated(<<"doc">>, "doc")>>, <<[Upper EXCEPT !.star = TRUE]>>, <<[Upper EXCEPT !.parameter = TRUE]>>,
   <<[Upper EXCEPT !.volatile = TRUE]>>, <<[Upper EXCEPT !.reads = "rows"]>>, <<[Upper EXCEPT !.expression = ""]>>, <<>>})
Samples == And(Optional("sample_percent", {<<0>>, <<100>>, <<101>>}),
               Optional("sample_rows", {<<2>>, <<3>>, <<-1>>, <<>>}))

\* Options that meet in one field or in one check are combined with each other.
Options ==
  And(Compression, And(Level, Structural)) \cup And(BlobColumns, Indexed)
    \cup And(And(Compression, BlobColumns), Optional("append", {<<>>}))
    \cup WriteModes \cup Limits \cup And(Columns, Samples)
    \cup And(And({"generated_columns" :> <<Generated(<<"g">>, "lower(doc)"), Upper>>}, Compression),
             Optional("text_index_columns", {<<<<"UPPER">>>>, <<Lower.doc>>}))

SmallStatements ==
  [source : {Plain, Steps}, options : Options] \cup {[source |-> Odd, options |-> <<>>]}

Folded == ("Doc" :> "doc") @@ ("S" :> "s") @@ ("X" :> "x") @@ ("Y" :> "y") @@ ("Parts" :> "parts")
            @@ ("PATH" :> "path") @@ ("UPPER" :> "upper")
            @@ [part \in {"doc", "s", "x", "y", "v", "raw", "parts", "text", "path", "g", "upper"} |-> part]
Sizes3 == [blob_inline_size_threshold |-> 16, blob_dedicated_size_threshold |-> 64, target_file_size |-> 256]
=============================================================================
