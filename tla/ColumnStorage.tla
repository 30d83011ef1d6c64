---------------------------- MODULE ColumnStorage ---------------------------
(***************************************************************************)
(* The fields of a schema on their way into a Lance dataset: the metadata  *)
(* of the source through DuckDB's types (src/source_metadata.cpp), and     *)
(* what the sink stores for each field (rust/src/sink/lance/column_storage *)
(* .rs, column_encoding.rs, index.rs and rust/src/schema.rs).              *)
(*                                                                         *)
(* A name is the sequence of its dot-separated parts.  A field is named by *)
(* its path: the name of its column, then a field name per struct and <<>> *)
(* per list or array item, so that flattening the path gives the dotted    *)
(* name that SQL uses for it.  A schema is [columns, metadata, fields].    *)
(***************************************************************************)
EXTENDS Naturals, Sequences, FiniteSets, SequencesExt

\* What field metadata may hold; "" is an absent key.
MetadataKeys == {"source_type", "storage_policy", "compression",
                 "compression_level", "structural_encoding", "generated_expression"}
NoMetadata == [key \in MetadataKeys |-> ""]
Extend(metadata, new) ==
  [key \in MetadataKeys |-> IF new[key] # "" THEN new[key] ELSE metadata[key]]

Ancestors(path) == {SubSeq(path, 1, n) : n \in 1 .. Len(path) - 1}
Column(name)    == <<name>>
\* The fields that a walk from the columns reaches which enters these types only.
Through(fields, types, path) == \A q \in Ancestors(path) : fields[q].type \in types

\* The field that a dotted name stands for, in any of its spellings: the column of
\* that very name, or the field below a column, list and array items being passed
\* without a name.
Lists == {"list", "array"}
Dotted(fields, path) ==
  /\ Last(path) # <<>> /\ \A i \in DOMAIN path : Len(path[i]) <= 1
  /\ Through(fields, Lists \cup {"struct"}, path)
Named(fields, spellings) ==
  LET exact == {path \in DOMAIN fields : Len(path) = 1 /\ path[1] \in spellings} IN
    IF exact # {} THEN exact
    ELSE {path \in DOMAIN fields : Dotted(fields, path) /\ FlattenSeq(path) \in spellings}
-----------------------------------------------------------------------------
(***************************************************************************)
(* source_metadata.cpp: into DuckDB's types and back.                      *)
(***************************************************************************)
WithinStructs == {"struct"}                        \* mutant: lists are not entered
ImportedTypes == {"struct", "list"}

\* The source of a field is its own, or its parent's.
SourceOf(schema, path) ==
  LET tagged == {q \in Ancestors(path) \cup {path} : schema.fields[q].metadata.source_type # ""}
  IN IF tagged = {} THEN schema.metadata.source_type
     ELSE schema.fields[CHOOSE q \in tagged : \A r \in tagged : Len(r) <= Len(q)]
            .metadata.source_type

\* A field without a source is left alone, with everything below it.
Imported(schema, path) ==
  /\ Through(schema.fields, ImportedTypes, path)
  /\ \A q \in Ancestors(path) \cup {path} : SourceOf(schema, q) # ""

ImportSourceMetadata(schema) ==
  [path \in DOMAIN schema.fields |->
     IF Imported(schema, path)
     THEN [source_type    |-> SourceOf(schema, path),
           storage_policy |-> schema.fields[path].metadata.storage_policy]
     ELSE [source_type |-> "", storage_policy |-> ""]]

\* types: columns, and each field's type and properties.
Exported(fields, path) ==
  IF Through(fields, Lists \cup {"struct"}, path)
  THEN [NoMetadata EXCEPT !.source_type    = fields[path].properties.source_type,
                          !.storage_policy = fields[path].properties.storage_policy]
  ELSE NoMetadata

ExportSourceMetadata(types) ==
  LET sources == {types.fields[Column(name)].properties.source_type : name \in ToSet(types.columns)}
  IN [columns  |-> types.columns,
      metadata |-> [NoMetadata EXCEPT !.source_type =
                      IF Cardinality(sources) = 1 THEN CHOOSE s \in sources : TRUE ELSE ""],
      fields   |-> [path \in DOMAIN types.fields |->
                      [type |-> types.fields[path].type, metadata |-> Exported(types.fields, path)]]]

\* The columns' own metadata, by position.
ExportFieldMetadata(schema, key, values) ==
  LET Positions(path) == {i \in DOMAIN values : Column(schema.columns[i]) = path} IN
    [schema EXCEPT !.fields = [path \in DOMAIN schema.fields |->
       IF Positions(path) = {} THEN schema.fields[path]
       ELSE [schema.fields[path] EXCEPT !.metadata[key] = values[CHOOSE i \in Positions(path) : TRUE]]]]
-----------------------------------------------------------------------------
(***************************************************************************)
(* What the sink stores.                                                   *)
(***************************************************************************)
ValidateSchema(schema) ==
  /\ schema.columns # <<>>
  /\ \A path \in DOMAIN schema.fields : schema.fields[path].type # "unsupported"

StoragePolicy(field) ==
  IF field.metadata.source_type = "atif" THEN field.metadata.storage_policy ELSE ""

Promotes(options) ==
  \/ options.blob_inline_size_threshold >= 0 \/ options.blob_dedicated_size_threshold >= 0
  \/ options.blob_columns # <<>>

BlobField(field) == [field EXCEPT !.type = "blob"]

AtifText(field) ==
  [field EXCEPT !.metadata = Extend([NoMetadata EXCEPT !.compression = "lz4"], @)]

\* atif.rs, configure_field: ATIF fields within structs and lists.
ConfigureField(schema, options, path) ==
  LET field  == schema.fields[path]
      policy == StoragePolicy(field) IN
    IF field.type # "binary" \/ ~Through(schema.fields, {"struct", "list"}, path) THEN field
    ELSE CASE policy = "text" -> AtifText(field)
           [] policy = "blob" /\ Promotes(options) -> BlobField(field)
           [] OTHER -> field

IsUriColumn(schema, name) ==
  /\ Column(name) \in DOMAIN schema.fields
  /\ schema.fields[Column(name)].type = "string"

ValidBlobColumns(schema, options) ==
  /\ \A name \in ToSet(options.blob_columns) : IsUriColumn(schema, name)
  /\ IsInjective(options.blob_columns)
  /\ options.blob_dedicated_size_threshold # 0

BlobSchema(schema, options) ==
  [schema EXCEPT !.fields = [path \in DOMAIN schema.fields |->
     LET field == schema.fields[path] IN
       IF /\ Len(path) = 1
          /\ \/ path[1] \in ToSet(options.blob_columns)
             \/ Promotes(options) /\ field.type = "binary" /\ StoragePolicy(field) # "text"
       THEN BlobField(field)
       ELSE ConfigureField(schema, options, path)]]

(***************************************************************************)
(* column_encoding.rs: a map from dotted names, here exact, to settings.   *)
(***************************************************************************)
Settings(encoding) == [key \in MetadataKeys |->
  IF key \in DOMAIN encoding THEN encoding[key] ELSE ""]

EncodingTarget(schema, name) == Named(schema.fields, {name})

ValidEncodings(schema, encodings) ==
  \A name \in DOMAIN encodings :
    /\ EncodingTarget(schema, name) # {}
    /\ \A path \in EncodingTarget(schema, name) :
         encodings[name].structural_encoding # "" => Len(path) = 1

\* Each entry rebuilds its column from the columns rebuilt so far.
FromInput(schema, configured, path) ==             \* mutant: from the input's column
  [p \in DOMAIN schema.fields |-> IF p[1] = path[1] THEN schema.fields[p] ELSE configured[p]]
FromConfigured(schema, configured, path) == configured

EncodeField(schema, configured, name, encoding) ==
  LET path == CHOOSE p \in EncodingTarget(schema, name) : TRUE IN
    [FromConfigured(schema, configured, path) EXCEPT
       ![path].metadata = Extend(@, Settings(encoding))]

\* The entries are applied in the order of their names; which order it is does
\* not matter.
ConfigureColumnEncoding(schema, encodings) ==
  [schema EXCEPT !.fields =
     FoldLeft(LAMBDA configured, name : EncodeField(schema, configured, name, encodings[name]),
              @, SetToSeq(DOMAIN encodings))]

\* The schema that Lance stores, and what is refused on the way to it.
ConfigureColumnStorage(schema, options, encodings) ==
  ConfigureColumnEncoding(BlobSchema(schema, options), encodings)
ValidColumnStorage(schema, options, encodings) ==
  ValidBlobColumns(schema, options) /\ ValidEncodings(BlobSchema(schema, options), encodings)

(***************************************************************************)
(* index.rs: the plan is made from the stored schema.  An "integer" here is *)
(* 64 bits wide: arrays of it have no vector index.                        *)
(***************************************************************************)
IndexTypes(kind) ==
  CASE kind = "scalar_index_columns"       -> {"string", "integer", "float", "boolean"}
    [] kind = "vector_index_columns"       -> {"array"}
    [] kind = "text_index_columns"         -> {"string"}
    [] kind = "bloom_filter_index_columns" -> {"string", "integer", "float"}

ValidateIndexType(schema, column, kind) ==
  /\ Column(column) \in DOMAIN schema.fields
  /\ schema.fields[Column(column)].type \in IndexTypes(kind)
  /\ kind = "vector_index_columns" =>
       <<column, <<>>>> \in DOMAIN schema.fields /\ schema.fields[<<column, <<>>>>].type = "float"

ValidIndexPlan(schema, indexes) ==
  /\ \A i \in DOMAIN indexes : ValidateIndexType(schema, indexes[i].column, indexes[i].kind)
  /\ \A i, j \in DOMAIN indexes : indexes[i].column = indexes[j].column => i = j
=============================================================================
