------------------------------- MODULE CopyPlan -----------------------------
(***************************************************************************)
(* The planning of COPY ... (FORMAT LANCE): LancePlan and LanceBind of     *)
(* src/lance_copy.cpp, LanceInitialize's crossing of the C ABI, and the    *)
(* checks that LanceDatasetWriter::create makes before it writes a file.   *)
(*                                                                         *)
(* The options of a statement are a hash map: LanceBind meets them in any  *)
(* order.  An option is the list of values the parser gives it; a struct   *)
(* option the list of its entries.  An empty list, or a "" in it, stands   *)
(* for what the parsing of a value rejects (NULL, another type, an unknown *)
(* word); a name that differs in case is the same name to DuckDB, and      *)
(* another to Rust.                                                        *)
(***************************************************************************)
EXTENDS ColumnStorage

CONSTANTS
  Statements,     \* [source, options]: the Arrow schema the query scans, and the options
  CaseFold,       \* the lower-case form of every part of a name
  DefaultSize,    \* the sizes of WriteOptions::default
  StorageVersions, \* the versions Lance can write; "" is the default one
  MaxSampleRows   \* SampleOptions::MAX_SAMPLE_ROWS

\* Two spellings of one name.
SameName(a, b) ==
  DOMAIN a = DOMAIN b /\ \A i \in DOMAIN a : CaseFold[a[i]] = CaseFold[b[i]]
Distinct(names) == \A i, j \in DOMAIN names : SameName(names[i], names[j]) => i = j

Sizes           == {"blob_inline_size_threshold", "blob_dedicated_size_threshold",
                    "target_file_size"}

\* What DuckDB scans: columns without repetition, fields with their parents, in
\* structs whose field names differ in more than case.  Only ATIF sources have
\* storage policies, in structs and lists.
SourceAssumption(source) ==
  /\ source.columns # <<>> /\ source.columns \in Seq(Seq(STRING)) /\ Distinct(source.columns)
  /\ {Column(name) : name \in ToSet(source.columns)} = {path \in DOMAIN source.fields : Len(path) = 1}
  /\ \A path \in DOMAIN source.fields :
       /\ path \in Seq(Seq(STRING)) /\ path # <<>> /\ Ancestors(path) \subseteq DOMAIN source.fields
       /\ source.fields[path].metadata.storage_policy # "" =>
            /\ Through(source.fields, {"struct", "list"}, path) /\ SourceOf(source, path) = "atif"
            /\ \A q \in Ancestors(path) : SourceOf(source, q) # ""
  /\ \A p, q \in {path \in DOMAIN source.fields : Dotted(source.fields, path)} :
       SameName(FlattenSeq(p), FlattenSeq(q)) => p = q

\* An option is a list of values: columns, numbers or names.
OptionAssumption(option, values) ==
  /\ values \in Seq(ToSet(values))
  /\ option \in Sizes => ToSet(values) \subseteq Int
  /\ option = "generated_columns" => \A c \in ToSet(values) : c.name \in Seq(STRING)

ASSUME PlanAssumption ==
  /\ \A s \in Statements :
       /\ SourceAssumption(s.source)
       /\ \A o \in DOMAIN s.options : OptionAssumption(o, s.options[o])
  /\ DefaultSize \in [Sizes -> Nat \ {0}]
  /\ "" \in StorageVersions /\ MaxSampleRows \in Nat

VARIABLES
  statement,   \* the statement
  phase,       \* "plan", "source", "options", "bound", "opened", "rejected" or "failed"
  options,     \* its options that are not consumed yet
  generated,   \* the generated columns
  sample,      \* the sample of the source
  types,       \* the columns of the bound query: names, and each field's type and properties
  data,        \* LanceBindData
  stored,      \* the schema that Lance stores
  indexes      \* LanceIndexPlan

planVars == <<statement, phase, options, generated, sample, types, data, stored, indexes>>

SettingOf       == [column_compression         |-> "compression",
                    column_compression_level   |-> "compression_level",
                    column_structural_encoding |-> "structural_encoding"]
IndexOptions    == {"scalar_index_columns", "vector_index_columns", "text_index_columns",
                    "bloom_filter_index_columns"}
SampleOptions   == {"sample_percent", "sample_rows"}

Without(options_, names) == [o \in DOMAIN options_ \ names |-> options_[o]]
NoSchema == [columns |-> <<>>, metadata |-> NoMetadata, fields |-> <<>>]

PlanInit ==
  /\ statement \in Statements
  /\ phase = "plan" /\ options = statement.options
  /\ generated = <<>> /\ sample = <<>>
  /\ types = [columns |-> <<>>, fields |-> <<>>]
  /\ data = [mode |-> "create", has_write_mode |-> FALSE, sizes |-> DefaultSize,
             storage_version |-> "", column_encodings |-> <<>>, blob_columns |-> <<>>,
             index_columns |-> <<>>, index_kinds |-> <<>>, generated_expressions |-> <<>>]
  /\ stored = NoSchema /\ indexes = <<>>

\* An exception of LancePlan or LanceBind.
Reject ==
  /\ phase' = "rejected"
  /\ UNCHANGED <<statement, options, generated, sample, types, data, stored, indexes>>
-----------------------------------------------------------------------------
(***************************************************************************)
(* LancePlan: the options that rewrite the query, then its columns.        *)
(***************************************************************************)
Given(names) == DOMAIN options \cap names

ValidGenerated(columns) ==
  /\ columns # <<>>
  /\ Distinct([i \in DOMAIN columns |-> columns[i].name])
  /\ \A i \in DOMAIN columns :
       columns[i].expression # "" /\ ~columns[i].star /\ ~columns[i].parameter

ValidSample(option, values) ==
  /\ Len(values) = 1
  /\ values[1] \in IF option = "sample_percent" THEN 0 .. 100 ELSE 0 .. MaxSampleRows

TakeOptions ==
  /\ phase = "plan"
  /\ LET columns == Given({"generated_columns"}) IN
       IF /\ \A o \in columns : ValidGenerated(options[o])
          /\ Cardinality(Given(SampleOptions)) <= 1
          /\ \A o \in Given(SampleOptions) : ValidSample(o, options[o])
       THEN /\ generated' = IF columns = {} THEN <<>> ELSE options["generated_columns"]
            /\ sample' = [o \in Given(SampleOptions) |-> options[o]]
            /\ options' = Without(options, columns \cup SampleOptions)
            /\ phase' = "source"
            /\ UNCHANGED <<statement, types, data, stored, indexes>>
       ELSE Reject

\* SELECT *, expression AS name, ... FROM (query): a name the source has already
\* is renamed by DuckDB.
NewName(column) ==
  \A name \in ToSet(statement.source.columns) : ~SameName(column.name, name)
FromOneRow(column) == ~column.volatile /\ column.reads = "row"

\* The fields of the source with what their metadata says, and the generated ones.
BoundFields ==
  LET source == statement.source
      Expression(path) == CHOOSE c \in ToSet(generated) : Column(c.name) = path
  IN [path \in DOMAIN source.fields \cup {Column(c.name) : c \in ToSet(generated)} |->
        IF path \in DOMAIN source.fields
        THEN [type |-> source.fields[path].type, properties |-> ImportSourceMetadata(source)[path]]
        ELSE [type |-> Expression(path).type, properties |-> [source_type |-> "", storage_policy |-> ""]]]

\* Of every field, below lists, maps and structs too.
ValidateDuckDBType(fields) == \A path \in DOMAIN fields : fields[path].type # "unsupported"

BindSource ==
  /\ phase = "source"
  /\ IF /\ \A c \in ToSet(generated) : NewName(c) /\ FromOneRow(c)
        /\ ValidateDuckDBType(BoundFields)
     THEN /\ types' = [columns |-> statement.source.columns \o [i \in DOMAIN generated |-> generated[i].name],
                       fields  |-> BoundFields]
          /\ phase' = "options"
          /\ UNCHANGED <<statement, options, generated, sample, data, stored, indexes>>
     ELSE Reject
-----------------------------------------------------------------------------
(***************************************************************************)
(* LanceBind: one step per option, in any order.                           *)
(***************************************************************************)
\* The option was consumed and left data as it is now.
Consume(option, new) ==
  /\ data' = new
  /\ options' = Without(options, {option})
  /\ UNCHANGED <<statement, phase, generated, sample, types, stored, indexes>>

SetMode(option) ==
  /\ option \in {"overwrite", "append"}
  /\ LET values  == options[option]
         enabled == values = <<>> \/ values = <<TRUE>> IN
       IF data.has_write_mode \/ Len(values) > 1 THEN Reject
       ELSE Consume(option, [data EXCEPT !.has_write_mode = TRUE,
                                         !.mode = IF enabled THEN option ELSE @])

SetSize(option) ==
  /\ option \in Sizes
  /\ LET values == options[option] IN
       IF /\ Len(values) = 1 /\ values[1] >= 0
          /\ option # "blob_inline_size_threshold" => values[1] # 0
       THEN Consume(option, [data EXCEPT !.sizes[option] = values[1]])
       ELSE Reject

SetStorageVersion(option) ==
  /\ option = "storage_version"
  /\ IF Len(options[option]) = 1
     THEN Consume(option, [data EXCEPT !.storage_version = options[option][1]])
     ELSE Reject

\* The field that an encoding option names, in any case, and its canonical name.
FieldOf(requested) ==
  Named(types.fields, {name \in {FlattenSeq(path) : path \in DOMAIN types.fields} :
                         SameName(name, requested)})
ResolveEncodingColumn(requested) ==
  FlattenSeq(CHOOSE path \in FieldOf(requested) : TRUE)

ValidSetting(option, entry) ==
  /\ FieldOf(entry.column) # {}
  /\ option = "column_structural_encoding" =>
       /\ Column(ResolveEncodingColumn(entry.column)) \in DOMAIN types.fields
       /\ entry.value \in {"miniblock", "fullzip"}
  /\ entry.value # ""

AlwaysAdd(encodings, column) ==                    \* mutant: an entry per setting
  Append(encodings, [column |-> column, compression |-> "", compression_level |-> "",
                     structural_encoding |-> ""])
FindOrAddColumnEncoding(encodings, column) ==
  IF \E i \in DOMAIN encodings : SameName(encodings[i].column, column) THEN encodings
  ELSE Append(encodings, [column |-> column, compression |-> "", compression_level |-> "",
                          structural_encoding |-> ""])

ApplySetting(encodings, key, entry) ==
  LET column == ResolveEncodingColumn(entry.column)
      all    == FindOrAddColumnEncoding(encodings, column)
  IN [i \in DOMAIN all |->
        IF SameName(all[i].column, column) THEN [all[i] EXCEPT ![key] = entry.value] ELSE all[i]]

ParseColumnSettings(option) ==
  /\ option \in DOMAIN SettingOf
  /\ LET entries == options[option] IN
       IF /\ entries # <<>> /\ \A e \in ToSet(entries) : ValidSetting(option, e)
          /\ Distinct([i \in DOMAIN entries |-> ResolveEncodingColumn(entries[i].column)])
       THEN Consume(option, [data EXCEPT !.column_encodings =
              FoldLeft(LAMBDA encodings, e : ApplySetting(encodings, SettingOf[option], e), @, entries)])
       ELSE Reject

\* The listed columns, by their own names.
KnownColumns(requested) ==
  \A i \in DOMAIN requested : \E name \in ToSet(types.columns) : SameName(requested[i], name)
Canonical(requested) == [i \in DOMAIN requested |->
  CHOOSE name \in ToSet(types.columns) : SameName(requested[i], name)]

ParseBlobColumns(option) ==
  /\ option = "blob_columns"
  /\ LET requested == options[option] IN
       IF /\ requested # <<>> /\ KnownColumns(requested) /\ Distinct(requested)
          /\ \A name \in ToSet(Canonical(requested)) : types.fields[Column(name)].type = "string"
       THEN Consume(option, [data EXCEPT !.blob_columns = Canonical(requested)])
       ELSE Reject

OncePerOption(columns, kind) == <<kind>>           \* mutant: pushed after the loop
KindPerColumn(columns, kind) == [i \in DOMAIN columns |-> kind]

ParseIndexColumns(option) ==
  /\ option \in IndexOptions
  /\ LET requested == options[option] IN
       IF requested # <<>> /\ KnownColumns(requested) /\ Distinct(requested)
       THEN Consume(option, [data EXCEPT
              !.index_columns = @ \o Canonical(requested),
              !.index_kinds   = @ \o KindPerColumn(requested, option)])
       ELSE Reject

KnownOptions == {"overwrite", "append", "storage_version", "blob_columns"}
                  \cup Sizes \cup DOMAIN SettingOf \cup IndexOptions

BindOption ==
  /\ phase = "options"
  /\ \E option \in DOMAIN options :
       \/ SetMode(option) \/ SetSize(option) \/ SetStorageVersion(option)
       \/ ParseColumnSettings(option) \/ ParseBlobColumns(option) \/ ParseIndexColumns(option)
       \/ option \notin KnownOptions /\ Reject

ValidateIndexColumns ==
  /\ Distinct(data.index_columns)
  /\ ToSet(data.index_columns) \cap ToSet(data.blob_columns) = {}

\* The generated columns are the last ones.
Unpadded(expressions)  == expressions              \* mutant: the first ones
Padded(expressions) ==
  [i \in 1 .. Len(types.columns) - Len(expressions) |-> ""] \o expressions

EndOfOptions ==
  /\ phase = "options" /\ options = <<>>
  /\ IF ValidateIndexColumns
     THEN /\ data' = [data EXCEPT !.generated_expressions =
                        Padded([i \in DOMAIN generated |-> generated[i].expression])]
          /\ phase' = "bound"
          /\ UNCHANGED <<statement, options, generated, sample, types, stored, indexes>>
     ELSE Reject
-----------------------------------------------------------------------------
(***************************************************************************)
(* LanceInitialize and lance_conversion_open.                              *)
(***************************************************************************)
\* The Arrow schema, with the generated expressions.
ArrowSchema ==
  ExportFieldMetadata(ExportSourceMetadata(types), "generated_expression", data.generated_expressions)

\* ffi.rs: the lists of the C configuration.
ColumnEncodings ==
  [column \in {e.column : e \in ToSet(data.column_encodings)} |->
     CHOOSE e \in ToSet(data.column_encodings) : e.column = column]
Indexes ==
  [i \in DOMAIN data.index_kinds |-> [column |-> data.index_columns[i], kind |-> data.index_kinds[i]]]

WriteOptions ==
  [blob_columns                  |-> data.blob_columns,
   blob_inline_size_threshold    |-> data.sizes["blob_inline_size_threshold"],
   blob_dedicated_size_threshold |-> data.sizes["blob_dedicated_size_threshold"]]

LanceConversionOpen ==
  /\ phase = "bound"
  /\ LET schema == ArrowSchema
         table  == ConfigureColumnStorage(schema, WriteOptions, ColumnEncodings) IN
       /\ IF /\ IsInjective([i \in DOMAIN data.column_encodings |-> data.column_encodings[i].column])
             /\ data.sizes["target_file_size"] # 0
             /\ data.storage_version \in StorageVersions
             /\ ValidateSchema(schema)
             /\ ValidColumnStorage(schema, WriteOptions, ColumnEncodings)
             /\ ValidIndexPlan(table, Indexes)
          THEN /\ stored' = table
               /\ indexes' = Indexes
               /\ phase' = "opened"
          ELSE phase' = "failed" /\ UNCHANGED <<stored, indexes>>
       /\ UNCHANGED <<statement, options, generated, sample, types, data>>

PlanNext == TakeOptions \/ BindSource \/ BindOption \/ EndOfOptions \/ LanceConversionOpen

PlanSpec == PlanInit /\ [][PlanNext]_planVars
-----------------------------------------------------------------------------
(***************************************************************************)
(* Properties.                                                             *)
(***************************************************************************)
\* The values of an option of the statement; none if it is not given.
Asked(option)  == IF option \in DOMAIN statement.options THEN statement.options[option] ELSE <<>>

\* A statement that LanceBind accepts is opened, unless it asks for an index its
\* column's type does not have or for a version Lance does not know: every name
\* DuckDB resolved, in any case and through lists, is found again by the exact
\* names of the Rust sink, once, and no option it let through is refused there
\* (lance_copy.cpp, ResolveEncodingColumn; ffi.rs, column_encoding).
BoundOpens ==
  phase = "failed" =>
    \/ data.storage_version \notin StorageVersions
    \/ \E i \in DOMAIN data.index_columns :
         ~ValidateIndexType(types, data.index_columns[i], data.index_kinds[i])

\* In whatever order the options were met, each field is stored with the settings
\* the statement names it for, and no other: nested fields of one column do not
\* undo each other, a column whose name has a dot keeps its settings from the
\* field it looks like, and only the default of ATIF text is added
\* (column_encoding.rs, configure_column_encoding).
SettingsAsked(path, option) ==
  {e.value : e \in {e \in ToSet(Asked(option)) : FieldOf(e.column) = {path}}}
IsAtifText(path) ==
  /\ types.fields[path].type = "binary" /\ types.fields[path].properties.storage_policy = "text"
SettingsStored ==
  phase = "opened" =>
    \A path \in DOMAIN stored.fields : \A option \in DOMAIN SettingOf :
      LET asked   == SettingsAsked(path, option)
          default == IF option = "column_compression" /\ IsAtifText(path) THEN "lz4" ELSE ""
      IN asked \cup (IF asked = {} THEN {default} ELSE {})
           = {stored.fields[path].metadata[SettingOf[option]]}

\* The plan holds exactly the asked indexes, one per column whatever options they
\* came from, and none on a column that is stored as a blob (the kinds and the
\* columns cross the C ABI as two lists: lance_copy.cpp, ParseIndexColumns and
\* LanceInitialize; ffi.rs, indexes).
IndexesAsAsked ==
  phase = "opened" =>
    /\ {<<Column(indexes[i].column), indexes[i].kind>> : i \in DOMAIN indexes}
         = {asked \in (DOMAIN types.fields) \X IndexOptions :
              /\ Len(asked[1]) = 1
              /\ \E name \in ToSet(Asked(asked[2])) : SameName(name, asked[1][1])}
    /\ \A i, j \in DOMAIN indexes : indexes[i].column = indexes[j].column => i = j
    /\ \A i \in DOMAIN indexes : stored.fields[Column(indexes[i].column)].type # "blob"

\* The expression of a generated column is stored with that column and with no
\* other, though the expressions reach the schema by position and the columns
\* of the source come before them (lance_copy.cpp, LancePlan, LanceInitialize).
GeneratedAligned ==
  phase = "opened" =>
    \A path \in DOMAIN stored.fields :
      stored.fields[path].metadata.generated_expression =
        IF \E c \in ToSet(Asked("generated_columns")) : Column(c.name) = path
        THEN (CHOOSE c \in ToSet(Asked("generated_columns")) : Column(c.name) = path).expression
        ELSE ""

\* What an ATIF source says of the storage of a field outlives DuckDB's types:
\* text stays binary and compressed, media is stored as blobs, however deep the
\* field, and a binary field of another source only when it is a column
\* (source_metadata.cpp, ImportField; column_storage/atif.rs, configure_field).
PolicyKept ==
  phase = "opened" =>
    \A path \in {path \in DOMAIN statement.source.fields :
                   statement.source.fields[path].type = "binary"} :
      LET policy == statement.source.fields[path].metadata.storage_policy IN
        /\ policy = "text" => /\ stored.fields[path].type = "binary"
                              /\ stored.fields[path].metadata.compression # ""
        /\ stored.fields[path].type = "blob"
             <=> policy # "text" /\ (policy = "blob" \/ Len(path) = 1)
=============================================================================
