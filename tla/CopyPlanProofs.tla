--------------------------- MODULE CopyPlanProofs ---------------------------
(***************************************************************************)
(* Theorems about CopyPlan: what a statement asks for is what is stored,   *)
(* for every source, every set of options and every order they are met in. *)
(***************************************************************************)
EXTENDS CopyPlan, FoldLemmas

Phases     == {"plan", "source", "options", "bound", "opened", "rejected", "failed"}
Queried    == {"options", "bound", "opened", "failed"}
Taken      == {"generated_columns"} \cup SampleOptions
DataFields == {"mode", "has_write_mode", "sizes", "storage_version", "column_encodings",
               "blob_columns", "index_columns", "index_kinds", "generated_expressions"}
FirstData  ==
  [mode |-> "create", has_write_mode |-> FALSE, sizes |-> DefaultSize,
   storage_version |-> "", column_encodings |-> <<>>, blob_columns |-> <<>>,
   index_columns |-> <<>>, index_kinds |-> <<>>, generated_expressions |-> <<>>]

\* The options that are left are the statement's, and which are gone by when.
OptionsInv ==
  /\ statement \in Statements /\ phase \in Phases
  /\ DOMAIN options \subseteq DOMAIN statement.options
  /\ \A o \in DOMAIN options : options[o] = statement.options[o]
  /\ phase \in {"plan", "source"} =>
       data = FirstData /\ DOMAIN statement.options \ Taken \subseteq DOMAIN options
  /\ phase = "plan" => options = statement.options
  /\ phase \notin {"plan", "rejected"} => Taken \cap DOMAIN options = {}
  /\ phase \in {"bound", "opened", "failed"} => DOMAIN options = {}
  /\ DOMAIN data = DataFields

\* The generated columns are those asked for, under names of their own.
GeneratedInv ==
  phase \notin {"plan", "rejected"} =>
    /\ generated = Asked("generated_columns")
    /\ generated \in Seq(ToSet(generated))
    /\ Distinct([i \in DOMAIN generated |-> generated[i].name])

\* Whatever is bound has one field for each column, and no column twice.
Tabular(t) ==
  /\ t.columns \in Seq(ToSet(t.columns)) /\ Distinct(t.columns)
  /\ {Column(name) : name \in ToSet(t.columns)} = {path \in DOMAIN t.fields : Len(path) = 1}
TypesInv ==
  phase \in Queried =>
    /\ Tabular(types)
    /\ types.columns = statement.source.columns \o [i \in DOMAIN generated |-> generated[i].name]
    /\ types.fields = BoundFields /\ ValidateDuckDBType(types.fields)
    /\ \A c \in ToSet(generated) : NewName(c)

\* The indexes of the options that are consumed.
Pairs == {<<Column(data.index_columns[i]), data.index_kinds[i]>> : i \in DOMAIN data.index_kinds}
PairsAsked(kinds) ==
  {asked \in (DOMAIN types.fields) \X IndexOptions :
     /\ asked[2] \in kinds /\ Len(asked[1]) = 1
     /\ \E name \in ToSet(Asked(asked[2])) : SameName(name, asked[1][1])}
IndexInv ==
  phase \in Queried =>
    /\ data.index_columns \in Seq(ToSet(types.columns))
    /\ data.index_kinds \in Seq(IndexOptions)
    /\ Len(data.index_columns) = Len(data.index_kinds)
    /\ Pairs = PairsAsked(IndexOptions \ DOMAIN options)

OpenedInv ==
  phase = "opened" =>
    /\ stored = ConfigureColumnStorage(ArrowSchema, WriteOptions, ColumnEncodings)
    /\ indexes = Indexes
    /\ IsInjective([i \in DOMAIN data.column_encodings |-> data.column_encodings[i].column])
    /\ ValidColumnStorage(ArrowSchema, WriteOptions, ColumnEncodings)
    /\ ValidIndexPlan(stored, indexes)

PlanInv == OptionsInv /\ GeneratedInv /\ TypesInv /\ IndexInv /\ OpenedInv
-----------------------------------------------------------------------------
LEMMA SameNames ==
  /\ \A a : SameName(a, a)
  /\ \A a, b : SameName(a, b) => SameName(b, a)
  /\ \A a, b, c : SameName(a, b) /\ SameName(b, c) => SameName(a, c)
BY DEF SameName

LEMMA SequenceElements ==
  /\ \A q : <<>> \in Seq(ToSet(q)) /\ ToSet(<<>>) = {}
  /\ \A S : \A q \in Seq(S) : q \in Seq(ToSet(q)) /\ ToSet(q) \subseteq S /\ DOMAIN q = 1 .. Len(q)
BY DEF ToSet

LEMMA OptionsInit == PlanInit => PlanInv
<1> SUFFICES ASSUME PlanInit PROVE PlanInv
  OBVIOUS
<1> USE DEF PlanInit
<1>1. OptionsInv
  BY DEF OptionsInv, Phases, Queried, FirstData, DataFields
<1> QED BY <1>1 DEF PlanInv, GeneratedInv, TypesInv, IndexInv, OpenedInv, Queried

LEMMA OptionsRejected == ASSUME PlanInv, Reject PROVE PlanInv'
<1>1. phase' = "rejected"
  BY DEF Reject
<1>2. GeneratedInv' /\ TypesInv' /\ IndexInv' /\ OpenedInv'
  BY <1>1 DEF GeneratedInv, TypesInv, IndexInv, OpenedInv, Queried
<1>3. OptionsInv'
  BY <1>1 DEF Reject, PlanInv, OptionsInv, Phases
<1> QED BY <1>2, <1>3 DEF PlanInv

LEMMA OptionsTaken == ASSUME PlanInv, TakeOptions PROVE PlanInv'
<1> SUFFICES ASSUME ~Reject PROVE PlanInv'
  BY OptionsRejected
<1> DEFINE columns == Given({"generated_columns"})
<1>1. /\ phase = "plan" /\ phase' = "source"
      /\ \A o \in columns : ValidGenerated(options[o])
      /\ generated' = IF columns = {} THEN <<>> ELSE options["generated_columns"]
      /\ options' = Without(options, columns \cup SampleOptions)
      /\ UNCHANGED <<statement, types, data, stored, indexes>>
  BY DEF TakeOptions
<1>2. /\ OptionsInv
  BY DEF PlanInv
<1>3. DOMAIN options' = DOMAIN options \ Taken
  BY <1>1 DEF Without, Given, Taken
<1>4. \A o \in DOMAIN options' : options'[o] = options[o]
  BY <1>1 DEF Without
<1>5. OptionsInv'
  BY <1>1, <1>2, <1>3, <1>4 DEF OptionsInv, Phases, Queried
<1>6. GeneratedInv'
  <2>1. CASE "generated_columns" \in DOMAIN options
    <3>1. options["generated_columns"] = statement.options["generated_columns"]
      BY <1>2, <2>1 DEF OptionsInv
    <3>2. generated' = statement.options["generated_columns"] /\ ValidGenerated(generated')
      BY <1>1, <2>1, <3>1 DEF Given
    <3>3. statement.options["generated_columns"] \in Seq(ToSet(statement.options["generated_columns"]))
      BY <1>2, <2>1, PlanAssumption DEF OptionsInv, OptionAssumption
    <3>4. (generated = Asked("generated_columns"))'
      BY <1>1, <1>2, <2>1, <3>2 DEF OptionsInv, Asked
    <3> QED BY <3>2, <3>3, <3>4 DEF GeneratedInv, ValidGenerated
  <2>2. CASE "generated_columns" \notin DOMAIN options
    <3>1. generated' = <<>>
      BY <1>1, <2>2 DEF Given
    <3>2. "generated_columns" \notin DOMAIN statement'.options
      BY <1>1, <1>2, <2>2 DEF OptionsInv
    <3> QED BY <3>1, <3>2 DEF GeneratedInv, Asked, ToSet, Distinct
  <2> QED BY <2>1, <2>2
<1> QED BY <1>1, <1>5, <1>6 DEF PlanInv, TypesInv, IndexInv, OpenedInv, Queried
-----------------------------------------------------------------------------
(***************************************************************************)
(* The columns of the bound query.                                         *)
(***************************************************************************)
LEMMA Joined ==
  ASSUME NEW a, NEW b, a \in Seq(ToSet(a)), b \in Seq(ToSet(b))
  PROVE  /\ a \o b \in Seq(ToSet(a \o b)) /\ ToSet(a \o b) = ToSet(a) \cup ToSet(b)
         /\ Len(a \o b) = Len(a) + Len(b)
         /\ \A i \in DOMAIN a : (a \o b)[i] = a[i]
         /\ \A i \in DOMAIN b : Len(a) + i \in DOMAIN (a \o b) /\ (a \o b)[Len(a) + i] = b[i]
         /\ \A i \in DOMAIN (a \o b) : i \in DOMAIN a \/ (i - Len(a) \in DOMAIN b /\ i = Len(a) + (i - Len(a)))
<1> DEFINE S == ToSet(a) \cup ToSet(b)
           q == a \o b
<1>1. a \in Seq(S) /\ b \in Seq(S)
  <2>1. \A T : \A r \in Seq(T) : \A U : T \subseteq U => r \in Seq(U)
    OBVIOUS
  <2> QED BY <2>1
<1>2. q \in Seq(S) /\ Len(q) = Len(a) + Len(b) /\ DOMAIN q = 1 .. Len(q)
  <2> HIDE DEF S
  <2> QED BY <1>1
<1>3. DOMAIN a = 1 .. Len(a) /\ DOMAIN b = 1 .. Len(b) /\ Len(a) \in Nat /\ Len(b) \in Nat
  <2> HIDE DEF S
  <2> QED BY <1>1
<1>4. \A i \in DOMAIN a : i \in DOMAIN q /\ q[i] = a[i]
  <2> HIDE DEF S
  <2> QED BY <1>1, <1>2, <1>3
<1>5. \A i \in DOMAIN b : Len(a) + i \in DOMAIN q /\ q[Len(a) + i] = b[i]
  <2> HIDE DEF S
  <2> QED BY <1>1, <1>2, <1>3
<1>6. \A i \in DOMAIN q : i \in DOMAIN a \/ (i - Len(a) \in DOMAIN b /\ i = Len(a) + (i - Len(a)))
  <2> HIDE DEF q
  <2> QED BY <1>2, <1>3
<1>7. ToSet(q) = S
  <2>1. ASSUME NEW i \in DOMAIN q PROVE q[i] \in S
    <3>1. CASE i \in DOMAIN a
      <4> HIDE DEF q
      <4> QED BY <1>4, <3>1 DEF ToSet
    <3>2. CASE i \notin DOMAIN a
      <4> HIDE DEF q
      <4> QED BY <1>5, <1>6, <3>2 DEF ToSet
    <3> QED BY <3>1, <3>2
  <2>2. \A x \in S : \E i \in DOMAIN q : q[i] = x
    <3> HIDE DEF q
    <3> QED BY <1>4, <1>5 DEF ToSet
  <2> HIDE DEF q, S
  <2> QED BY <2>1, <2>2 DEF ToSet
<1>8. q \in Seq(ToSet(q))
  BY <1>2, <1>7
<1> QED BY <1>2, <1>4, <1>5, <1>6, <1>7, <1>8

LEMMA JoinedDistinct ==
  ASSUME NEW a, NEW b, a \in Seq(ToSet(a)), b \in Seq(ToSet(b)), Distinct(a), Distinct(b),
         \A x \in ToSet(a), y \in ToSet(b) : ~SameName(y, x)
  PROVE  Distinct(a \o b)
<1> DEFINE q == a \o b
<1> SUFFICES ASSUME NEW i \in DOMAIN q, NEW j \in DOMAIN q, SameName(q[i], q[j]) PROVE i = j
  BY DEF Distinct
<1>1. /\ \A k \in DOMAIN a : q[k] = a[k] /\ a[k] \in ToSet(a)
      /\ \A k \in DOMAIN b : q[Len(a) + k] = b[k] /\ b[k] \in ToSet(b)
      /\ \A k \in DOMAIN q : k \in DOMAIN a \/ (k - Len(a) \in DOMAIN b /\ k = Len(a) + (k - Len(a)))
  <2>1. \A r : \A k \in DOMAIN r : r[k] \in ToSet(r)
    BY DEF ToSet
  <2> QED BY <2>1, Joined
<1> HIDE DEF q
<1>2. CASE i \in DOMAIN a /\ j \in DOMAIN a
  BY <1>1, <1>2 DEF Distinct
<1>3. CASE i \in DOMAIN a /\ j \notin DOMAIN a
  <2>1. q[i] \in ToSet(a) /\ q[j] \in ToSet(b)
    BY <1>1, <1>3
  <2> QED BY <2>1, SameNames
<1>4. CASE i \notin DOMAIN a /\ j \in DOMAIN a
  <2>1. q[j] \in ToSet(a) /\ q[i] \in ToSet(b)
    BY <1>1, <1>4
  <2> QED BY <2>1
<1>5. CASE i \notin DOMAIN a /\ j \notin DOMAIN a
  <2> DEFINE k == i - Len(a)   l == j - Len(a)
  <2>1. k \in DOMAIN b /\ l \in DOMAIN b /\ i = Len(a) + k /\ j = Len(a) + l
    BY <1>1, <1>5
  <2> HIDE DEF k, l
  <2>2. q[i] = b[k] /\ q[j] = b[l]
    BY <1>1, <2>1
  <2>3. k = l
    BY <2>1, <2>2 DEF Distinct
  <2> QED BY <2>1, <2>3
<1> QED BY <1>2, <1>3, <1>4, <1>5

LEMMA OneLong == \A name : Len(Column(name)) = 1 /\ Column(name)[1] = name
BY DEF Column

LEMMA BoundTabular ==
  ASSUME PlanInv, BindSource, ~Reject PROVE Tabular(types')
<1> DEFINE source == statement.source
           a == source.columns
           b == [i \in DOMAIN generated |-> generated[i].name]
           fields == BoundFields
<1>1. /\ phase = "source"
      /\ \A c \in ToSet(generated) : NewName(c)
      /\ types' = [columns |-> a \o b, fields |-> fields]
  BY DEF BindSource
<1>2. /\ statement \in Statements
      /\ generated \in Seq(ToSet(generated)) /\ Distinct(b)
  BY <1>1 DEF PlanInv, OptionsInv, GeneratedInv
<1>3. /\ a \in Seq(ToSet(a)) /\ Distinct(a)
      /\ {Column(name) : name \in ToSet(a)} = {path \in DOMAIN source.fields : Len(path) = 1}
  <2>1. SourceAssumption(source)
    BY <1>2, PlanAssumption
  <2>2. a \in Seq(Seq(STRING))
    BY <2>1 DEF SourceAssumption
  <2> HIDE DEF a
  <2>3. a \in Seq(ToSet(a))
    BY <2>2, SequenceElements
  <2> QED BY <2>1, <2>3 DEF SourceAssumption, a
<1>4. /\ b \in Seq(ToSet(b)) /\ ToSet(b) = {c.name : c \in ToSet(generated)}
  <2>1. DOMAIN generated = 1 .. Len(generated) /\ Len(generated) \in Nat
    BY <1>2
  <2>2. \A i \in DOMAIN generated : b[i] = generated[i].name
    OBVIOUS
  <2>3. DOMAIN b = 1 .. Len(generated)
    BY <2>1
  <2>4. \A n \in Nat : \A q, S : q = [i \in 1 .. n |-> q[i]] /\ (\A i \in 1 .. n : q[i] \in S) => q \in Seq(S)
    OBVIOUS
  <2>5. b = [i \in 1 .. Len(generated) |-> b[i]]
    BY <2>1
  <2> HIDE DEF b
  <2>6. \A i \in 1 .. Len(generated) : b[i] \in ToSet(b)
    BY <2>3 DEF ToSet
  <2>7. b \in Seq(ToSet(b))
    BY <2>1, <2>4, <2>5, <2>6
  <2>8. ToSet(b) = {c.name : c \in ToSet(generated)}
    BY <2>1, <2>2, <2>3 DEF ToSet
  <2> QED BY <2>7, <2>8
<1>5. \A x \in ToSet(a), y \in ToSet(b) : ~SameName(y, x)
  <2> HIDE DEF b
  <2> QED BY <1>1, <1>4 DEF NewName
<1>6. a \o b \in Seq(ToSet(a \o b)) /\ Distinct(a \o b) /\ ToSet(a \o b) = ToSet(a) \cup ToSet(b)
  <2> HIDE DEF a, b
  <2> QED BY <1>2, <1>3, <1>4, <1>5, Joined, JoinedDistinct
<1>7. DOMAIN fields = DOMAIN source.fields \cup {Column(c.name) : c \in ToSet(generated)}
  BY DEF BoundFields
<1>8. {Column(name) : name \in ToSet(a \o b)}
        = {path \in DOMAIN fields : Len(path) = 1}
  <2> DEFINE D == DOMAIN fields
             T == ToSet(a \o b)
  <2>1. T = ToSet(a) \cup {c.name : c \in ToSet(generated)}
    BY <1>4, <1>6
  <2>2. D = DOMAIN source.fields \cup {Column(c.name) : c \in ToSet(generated)}
    BY <1>7
  <2> DEFINE G == {c.name : c \in ToSet(generated)}
             A == ToSet(a)
             E == DOMAIN source.fields
  <2>3. \A path : path \in E /\ Len(path) = 1 <=> \E name \in A : path = Column(name)
    BY <1>3
  <2>4. \A path : path \in D <=> path \in E \/ \E name \in G : path = Column(name)
    BY <2>2
  <2>5. \A name : name \in T <=> name \in A \/ name \in G
    BY <2>1
  <2> HIDE DEF D, T, A, G, E
  <2>6. \A path : (path \in D /\ Len(path) = 1) <=> \E name \in T : path = Column(name)
    BY <2>3, <2>4, <2>5, OneLong
  <2> QED BY <2>6 DEF D, T
<1>9. types'.columns = a \o b /\ types'.fields = fields
  BY <1>1
<1> HIDE DEF a, b, fields
<1> QED BY <1>6, <1>8, <1>9 DEF Tabular
LEMMA KindsApart ==
  /\ IndexOptions \cap Taken = {} /\ IndexOptions \cap Sizes = {} /\ IndexOptions \cap DOMAIN SettingOf = {}
  /\ \A o \in {"overwrite", "append", "storage_version", "blob_columns"} : o \notin IndexOptions
BY DEF IndexOptions, Taken, SampleOptions, Sizes, SettingOf

LEMMA SourceBound == ASSUME PlanInv, BindSource PROVE PlanInv'
<1> SUFFICES ASSUME ~Reject PROVE PlanInv'
  BY OptionsRejected
<1>1. /\ phase = "source" /\ phase' = "options"
      /\ UNCHANGED <<statement, options, generated, data, stored, indexes>>
  BY DEF BindSource
<1>2. OptionsInv /\ GeneratedInv
  BY DEF PlanInv
<1>3. OptionsInv'
  BY <1>1, <1>2 DEF OptionsInv, Phases
<1>4. GeneratedInv'
  BY <1>1, <1>2 DEF GeneratedInv, Asked
<1>5. TypesInv'
  <2>1. Tabular(types)'
    BY BoundTabular DEF Tabular
  <2>2. BoundFields' = BoundFields
    BY <1>1 DEF BoundFields
  <2>3. /\ types' = [columns |-> statement.source.columns \o [i \in DOMAIN generated |-> generated[i].name],
                     fields |-> BoundFields]
        /\ ValidateDuckDBType(BoundFields) /\ \A c \in ToSet(generated) : NewName(c)
    BY DEF BindSource
  <2>4. \A c : NewName(c)' = NewName(c)
    BY <1>1 DEF NewName
  <2>5. (\A c \in ToSet(generated) : NewName(c))'
    BY <1>1, <2>3, <2>4
  <2>6. /\ types'.columns = statement'.source.columns \o [i \in DOMAIN generated' |-> generated'[i].name]
        /\ types'.fields = BoundFields' /\ ValidateDuckDBType(types'.fields)
    BY <1>1, <2>2, <2>3
  <2> HIDE DEF TypesInv
  <2> QED BY <2>1, <2>5, <2>6 DEF TypesInv
<1>6. data' = FirstData
  BY <1>1, <1>2 DEF OptionsInv
<1>7. IndexInv'
  <2>1. /\ data'.index_columns = <<>> /\ data'.index_kinds = <<>>
    BY <1>6 DEF FirstData
  <2>2. Pairs' = {}
    BY <2>1 DEF Pairs
  <2>3. ASSUME NEW kind \in IndexOptions, kind \notin DOMAIN options' PROVE ToSet(Asked(kind)') = {}
    <3>1. kind \notin DOMAIN statement'.options
      BY <1>1, <1>2, <2>3, KindsApart DEF OptionsInv
    <3> QED BY <3>1, SequenceElements DEF Asked
  <2>4. PairsAsked(IndexOptions \ DOMAIN options)' = {}
    BY <2>3 DEF PairsAsked
  <2>5. <<>> \in Seq(ToSet(types'.columns)) /\ <<>> \in Seq(IndexOptions)
    OBVIOUS
  <2> QED BY <2>1, <2>2, <2>4, <2>5 DEF IndexInv
<1> QED BY <1>1, <1>3, <1>4, <1>5, <1>7 DEF PlanInv, OpenedInv
-----------------------------------------------------------------------------
(***************************************************************************)
(* The options.                                                            *)
(***************************************************************************)
LEMMA TypesKept ==
  ASSUME TypesInv, phase' \in Queried => phase \in Queried, UNCHANGED <<statement, generated, types>>
  PROVE  TypesInv'
<1>1. BoundFields' = BoundFields
  BY DEF BoundFields
<1>2. \A c : NewName(c)' = NewName(c)
  BY DEF NewName
<1>3. Tabular(types)' = Tabular(types) /\ ValidateDuckDBType(types.fields)' = ValidateDuckDBType(types.fields)
  BY DEF Tabular, ValidateDuckDBType
<1> SUFFICES ASSUME phase' \in Queried
             PROVE  /\ Tabular(types)'
                    /\ types'.columns = statement'.source.columns \o [i \in DOMAIN generated' |-> generated'[i].name]
                    /\ types'.fields = BoundFields' /\ ValidateDuckDBType(types.fields)'
                    /\ (\A c \in ToSet(generated) : NewName(c))'
  BY DEF TypesInv
<1>4. /\ Tabular(types)
      /\ types.columns = statement.source.columns \o [i \in DOMAIN generated |-> generated[i].name]
      /\ types.fields = BoundFields /\ ValidateDuckDBType(types.fields)
      /\ \A c \in ToSet(generated) : NewName(c)
  BY DEF TypesInv
<1>5. (\A c \in ToSet(generated) : NewName(c))'
  BY <1>2, <1>4
<1> QED BY <1>1, <1>3, <1>4, <1>5

LEMMA Consumed ==
  ASSUME PlanInv, phase = "options", NEW option \in DOMAIN options, NEW new, Consume(option, new),
         DOMAIN new = DataFields
  PROVE  OptionsInv' /\ GeneratedInv' /\ TypesInv' /\ OpenedInv'
<1>1. /\ data' = new /\ options' = Without(options, {option})
      /\ UNCHANGED <<statement, phase, generated, types, stored, indexes>>
  BY DEF Consume
<1>2. OptionsInv /\ GeneratedInv /\ TypesInv
  BY DEF PlanInv
<1>3. DOMAIN options' = DOMAIN options \ {option} /\ \A o \in DOMAIN options' : options'[o] = options[o]
  BY <1>1 DEF Without
<1>4. OptionsInv'
  BY <1>1, <1>2, <1>3 DEF OptionsInv
<1>5. GeneratedInv' /\ OpenedInv'
  BY <1>1, <1>2 DEF GeneratedInv, OpenedInv, Asked
<1>6. TypesInv'
  BY <1>1, <1>2, TypesKept
<1> QED BY <1>4, <1>5, <1>6

\* An option of another kind leaves the indexes alone.
LEMMA IndexesKept ==
  ASSUME PlanInv, phase = "options", NEW option \in DOMAIN options, NEW new, Consume(option, new),
         option \notin IndexOptions,
         new.index_columns = data.index_columns, new.index_kinds = data.index_kinds
  PROVE  IndexInv'
<1>1. /\ data' = new /\ options' = Without(options, {option})
      /\ UNCHANGED <<statement, phase, types>>
  BY DEF Consume
<1>2. IndexOptions \ DOMAIN options' = IndexOptions \ DOMAIN options
  BY <1>1 DEF Without
<1>3. IndexInv
  BY DEF PlanInv
<1>4. Pairs' = Pairs
  BY <1>1 DEF Pairs
<1>5. PairsAsked(IndexOptions \ DOMAIN options)' = PairsAsked(IndexOptions \ DOMAIN options)
  BY <1>1, <1>2 DEF PairsAsked, Asked
<1> QED BY <1>1, <1>3, <1>4, <1>5 DEF IndexInv

LEMMA CanonicalNames ==
  ASSUME NEW requested, requested \in Seq(ToSet(requested)), Tabular(types), KnownColumns(requested)
  PROVE  /\ Canonical(requested) \in Seq(ToSet(types.columns))
         /\ Len(Canonical(requested)) = Len(requested)
         /\ \A i \in DOMAIN requested : SameName(requested[i], Canonical(requested)[i])
         /\ \A i \in DOMAIN requested, name \in ToSet(types.columns) :
              SameName(requested[i], name) => name = Canonical(requested)[i]
<1> DEFINE names == Canonical(requested)
           T == ToSet(types.columns)
<1>1. DOMAIN requested = 1 .. Len(requested) /\ Len(requested) \in Nat
  OBVIOUS
<1>2. ASSUME NEW i \in DOMAIN requested
      PROVE  names[i] \in T /\ SameName(requested[i], names[i])
  <2>1. \E name \in T : SameName(requested[i], name)
    BY DEF KnownColumns
  <2>2. names[i] = CHOOSE name \in T : SameName(requested[i], name)
    BY DEF Canonical
  <2> HIDE DEF names, T
  <2> QED BY <2>1, <2>2
<1>3. names = [i \in 1 .. Len(requested) |-> names[i]]
  BY <1>1 DEF Canonical
<1>4. names \in Seq(T) /\ Len(names) = Len(requested)
  <2>1. \A n \in Nat : \A q, S : q = [i \in 1 .. n |-> q[i]] /\ (\A i \in 1 .. n : q[i] \in S) => q \in Seq(S) /\ Len(q) = n
    OBVIOUS
  <2> HIDE DEF names, T
  <2> QED BY <1>1, <1>2, <1>3, <2>1
<1>5. ASSUME NEW x \in T, NEW y \in T, SameName(x, y) PROVE x = y
  <2>1. PICK i \in DOMAIN types.columns : types.columns[i] = x
    BY <1>5 DEF ToSet
  <2>2. PICK j \in DOMAIN types.columns : types.columns[j] = y
    BY <1>5 DEF ToSet
  <2> QED BY <1>5, <2>1, <2>2 DEF Tabular, Distinct
<1> HIDE DEF names
<1>6. ASSUME NEW i \in DOMAIN requested, NEW name \in T, SameName(requested[i], name) PROVE name = names[i]
  <2>1. SameName(name, names[i])
    BY <1>2, <1>6, SameNames
  <2> QED BY <1>2, <1>5, <2>1
<1> QED BY <1>2, <1>4, <1>6 DEF names

LEMMA IndexesParsed ==
  ASSUME PlanInv, phase = "options", NEW option \in DOMAIN options, ParseIndexColumns(option), ~Reject
  PROVE  PlanInv'
<1> DEFINE requested == options[option]
           names == Canonical(requested)
           kinds == KindPerColumn(requested, option)
           new == [data EXCEPT !.index_columns = @ \o names, !.index_kinds = @ \o kinds]
<1>1. /\ option \in IndexOptions /\ KnownColumns(requested) /\ Consume(option, new)
  BY DEF ParseIndexColumns
<1>2. OptionsInv /\ TypesInv /\ IndexInv
  BY DEF PlanInv
<1>3. requested = statement.options[option] /\ requested \in Seq(ToSet(requested)) /\ requested = Asked(option)
  <2>1. statement \in Statements /\ option \in DOMAIN statement.options /\ requested = statement.options[option]
    BY <1>2 DEF OptionsInv
  <2> QED BY <2>1, PlanAssumption DEF Asked, OptionAssumption
<1>4. Tabular(types)
  BY <1>2 DEF TypesInv, Queried
<1>5. /\ names \in Seq(ToSet(types.columns)) /\ Len(names) = Len(requested)
      /\ \A i \in DOMAIN requested : SameName(requested[i], names[i])
      /\ \A i \in DOMAIN requested, name \in ToSet(types.columns) : SameName(requested[i], name) => name = names[i]
  <2> HIDE DEF requested
  <2> QED BY <1>1, <1>3, <1>4, CanonicalNames
<1>6. DOMAIN requested = 1 .. Len(requested) /\ Len(requested) \in Nat
  BY <1>3
<1>7. kinds \in Seq(IndexOptions) /\ Len(kinds) = Len(requested) /\ \A i \in DOMAIN requested : kinds[i] = option
  BY <1>1, <1>6 DEF KindPerColumn
<1>8. /\ DOMAIN new = DataFields /\ new.index_columns = data.index_columns \o names
      /\ new.index_kinds = data.index_kinds \o kinds
  BY <1>2 DEF OptionsInv, DataFields
<1>9. /\ data' = new /\ DOMAIN options' = DOMAIN options \ {option} /\ UNCHANGED <<statement, types, phase>>
  BY <1>1 DEF Consume, Without
<1>10. OptionsInv' /\ GeneratedInv' /\ TypesInv' /\ OpenedInv'
  <2> HIDE DEF new
  <2> QED BY <1>1, <1>8, Consumed
<1>11. /\ data.index_columns \in Seq(ToSet(types.columns)) /\ data.index_kinds \in Seq(IndexOptions)
       /\ Len(data.index_columns) = Len(data.index_kinds)
       /\ Pairs = PairsAsked(IndexOptions \ DOMAIN options)
  BY <1>2 DEF IndexInv, Queried
<1> DEFINE columns1 == data.index_columns   kinds1 == data.index_kinds   n == Len(kinds1)
           columns2 == columns1 \o names    kinds2 == kinds1 \o kinds
<1> HIDE DEF names, kinds, requested, columns1, kinds1
<1>12. /\ columns2 \in Seq(ToSet(types.columns)) /\ kinds2 \in Seq(IndexOptions) /\ Len(columns2) = Len(kinds2)
       /\ DOMAIN kinds2 = 1 .. n + Len(requested) /\ n \in Nat /\ DOMAIN kinds1 = 1 .. n
       /\ \A i \in 1 .. n : columns2[i] = columns1[i] /\ kinds2[i] = kinds1[i]
       /\ \A i \in 1 .. Len(requested) : columns2[n + i] = names[i] /\ kinds2[n + i] = kinds[i]
  <2>1. columns1 \in Seq(ToSet(types.columns)) /\ kinds1 \in Seq(IndexOptions) /\ Len(columns1) = n
    BY <1>11 DEF columns1, kinds1
  <2>2. /\ columns2 \in Seq(ToSet(types.columns)) /\ Len(columns2) = n + Len(requested)
        /\ \A i \in 1 .. n : columns2[i] = columns1[i]
        /\ \A i \in 1 .. Len(requested) : columns2[n + i] = names[i]
    <3>1. /\ columns2 \in Seq(ToSet(types.columns)) /\ Len(columns2) = Len(columns1) + Len(names)
          /\ \A i \in 1 .. Len(columns1) : columns2[i] = columns1[i]
          /\ \A i \in 1 .. Len(names) : columns2[Len(columns1) + i] = names[i]
      <4>0. names \in Seq(ToSet(types.columns))
        BY <1>5
      <4>1. columns2 \in Seq(ToSet(types.columns))
        BY <4>0, <2>1
      <4>2. Len(columns2) = Len(columns1) + Len(names)
        BY <4>0, <2>1
      <4>3. \A i \in 1 .. Len(columns1) : columns2[i] = columns1[i]
        BY <4>0, <2>1
      <4>4. \A i \in 1 .. Len(names) : columns2[Len(columns1) + i] = names[i]
        BY <4>0, <2>1
      <4> QED BY <4>1, <4>2, <4>3, <4>4
    <3> HIDE DEF columns2, n
    <3> QED BY <1>5, <2>1, <3>1
  <2>3. /\ kinds2 \in Seq(IndexOptions) /\ n \in Nat /\ Len(kinds2) = n + Len(requested)
        /\ DOMAIN kinds2 = 1 .. n + Len(requested) /\ DOMAIN kinds1 = 1 .. n
        /\ \A i \in 1 .. n : kinds2[i] = kinds1[i]
        /\ \A i \in 1 .. Len(requested) : kinds2[n + i] = kinds[i]
    <3>1. /\ kinds2 \in Seq(IndexOptions) /\ n \in Nat /\ Len(kinds2) = n + Len(kinds)
          /\ DOMAIN kinds2 = 1 .. n + Len(kinds) /\ DOMAIN kinds1 = 1 .. n
          /\ \A i \in 1 .. n : kinds2[i] = kinds1[i]
          /\ \A i \in 1 .. Len(kinds) : kinds2[n + i] = kinds[i]
      <4>0. kinds \in Seq(IndexOptions) /\ kinds1 \in Seq(IndexOptions) /\ n = Len(kinds1)
        BY <1>7, <2>1
      <4> HIDE DEF n
      <4>1. kinds2 \in Seq(IndexOptions) /\ n \in Nat /\ Len(kinds2) = n + Len(kinds)
        BY <4>0
      <4>2. DOMAIN kinds2 = 1 .. n + Len(kinds) /\ DOMAIN kinds1 = 1 .. n
        BY <4>0
      <4>3. \A i \in 1 .. n : kinds2[i] = kinds1[i]
        BY <4>0
      <4>4. \A i \in 1 .. Len(kinds) : kinds2[n + i] = kinds[i]
        BY <4>0
      <4> QED BY <4>1, <4>2, <4>3, <4>4
    <3> HIDE DEF kinds2, n
    <3> QED BY <1>7, <3>1
  <2> HIDE DEF columns2, kinds2, n
  <2> QED BY <2>2, <2>3
<1>13. {<<Column(columns2[i]), kinds2[i]>> : i \in DOMAIN kinds2}
         = Pairs \cup {<<Column(names[i]), option>> : i \in DOMAIN requested}
  <2> HIDE DEF columns2, kinds2, n
  <2>1. Pairs = {<<Column(columns1[i]), kinds1[i]>> : i \in 1 .. n}
    BY <1>12 DEF Pairs, columns1, kinds1
  <2>2. \A i \in 1 .. n + Len(requested) : i \in 1 .. n \/ (i - n \in 1 .. Len(requested) /\ i = n + (i - n))
    BY <1>6, <1>12
  <2>3. \A i \in 1 .. n : i \in 1 .. n + Len(requested)
    BY <1>6, <1>12
  <2>4. \A i \in 1 .. Len(requested) : n + i \in 1 .. n + Len(requested)
    BY <1>6, <1>12
  <2>5. \A i \in 1 .. n : <<Column(columns2[i]), kinds2[i]>> = <<Column(columns1[i]), kinds1[i]>>
    BY <1>12
  <2>6. \A i \in 1 .. Len(requested) : <<Column(columns2[n + i]), kinds2[n + i]>> = <<Column(names[i]), option>>
    BY <1>6, <1>7, <1>12
  <2>7. ASSUME NEW i \in DOMAIN kinds2
        PROVE  <<Column(columns2[i]), kinds2[i]>> \in Pairs \cup {<<Column(names[j]), option>> : j \in DOMAIN requested}
    <3>1. CASE i \in 1 .. n
      BY <2>1, <2>5, <3>1
    <3>2. CASE i \notin 1 .. n
      <4>1. PICK j \in 1 .. Len(requested) : i = n + j
        BY <1>12, <2>2, <2>7, <3>2
      <4> QED BY <1>6, <2>6, <4>1
    <3> QED BY <3>1, <3>2
  <2>8. ASSUME NEW x \in Pairs \cup {<<Column(names[j]), option>> : j \in DOMAIN requested}
        PROVE  \E i \in DOMAIN kinds2 : x = <<Column(columns2[i]), kinds2[i]>>
    <3>1. CASE x \in Pairs
      <4>1. PICK i \in 1 .. n : x = <<Column(columns1[i]), kinds1[i]>>
        BY <2>1, <3>1
      <4>2. i \in DOMAIN kinds2 /\ x = <<Column(columns2[i]), kinds2[i]>>
        BY <1>12, <2>3, <2>5, <4>1
      <4> QED BY <4>2
    <3>2. CASE x \notin Pairs
      <4>1. PICK j \in 1 .. Len(requested) : x = <<Column(names[j]), option>>
        BY <1>6, <2>8, <3>2
      <4>2. n + j \in DOMAIN kinds2 /\ x = <<Column(columns2[n + j]), kinds2[n + j]>>
        BY <1>12, <2>4, <2>6, <4>1
      <4> QED BY <4>2
    <3> QED BY <3>1, <3>2
  <2> QED BY <2>7, <2>8
<1>14. PairsAsked(IndexOptions \ DOMAIN options)' = PairsAsked(IndexOptions \ DOMAIN options)
         \cup {<<Column(names[i]), option>> : i \in DOMAIN requested}
  <2> DEFINE R == IndexOptions \ DOMAIN options
             New == {<<Column(names[i]), option>> : i \in DOMAIN requested}
             Fit(p, kind) == /\ Len(p) = 1 /\ \E name \in ToSet(Asked(kind)) : SameName(name, p[1])
  <2>1. IndexOptions \ DOMAIN options' = R \cup {option}
    BY <1>1, <1>9
  <2>2. PairsAsked(IndexOptions \ DOMAIN options)'
          = {asked \in (DOMAIN types.fields) \X IndexOptions : asked[2] \in R \cup {option} /\ Fit(asked[1], asked[2])}
    BY <1>9, <2>1 DEF PairsAsked, Asked
  <2>3. PairsAsked(R)
          = {asked \in (DOMAIN types.fields) \X IndexOptions : asked[2] \in R /\ Fit(asked[1], asked[2])}
    BY DEF PairsAsked
  <2>4. New = {asked \in (DOMAIN types.fields) \X IndexOptions : asked[2] = option /\ Fit(asked[1], asked[2])}
    <3>1. ToSet(Asked(option)) = {requested[i] : i \in DOMAIN requested}
      BY <1>3 DEF ToSet
    <3>2. \A path : path \in DOMAIN types.fields /\ Len(path) = 1 <=> \E name \in ToSet(types.columns) : path = Column(name)
      BY <1>4 DEF Tabular
    <3>3. \A i \in DOMAIN requested : names[i] \in ToSet(types.columns)
      <4>1. DOMAIN names = DOMAIN requested
        BY <1>5, <1>6
      <4>2. \A i \in DOMAIN names : names[i] \in ToSet(types.columns)
        BY <1>5
      <4> QED BY <4>1, <4>2
    <3>4. ASSUME NEW i \in DOMAIN requested
          PROVE  Column(names[i]) \in DOMAIN types.fields /\ Fit(Column(names[i]), option)
      <4>1. Column(names[i]) \in DOMAIN types.fields
        BY <3>2, <3>3
      <4>2. SameName(requested[i], names[i]) /\ requested[i] \in ToSet(Asked(option))
        BY <1>5, <3>1
      <4> QED BY <4>1, <4>2, OneLong
    <3>5. ASSUME NEW path \in DOMAIN types.fields, Fit(path, option)
          PROVE  \E i \in DOMAIN requested : path = Column(names[i])
      <4>1. PICK i \in DOMAIN requested : SameName(requested[i], path[1])
        BY <3>1, <3>5
      <4>2. PICK name \in ToSet(types.columns) : path = Column(name)
        BY <3>2, <3>5
      <4>3. name = names[i]
        BY <1>5, <4>1, <4>2, OneLong
      <4> QED BY <4>2, <4>3
    <3> HIDE DEF Fit
    <3> QED BY <1>1, <3>4, <3>5
  <2> HIDE DEF New, Fit, R
  <2> QED BY <2>2, <2>3, <2>4 DEF R, New
<1>15. IndexInv'
  <2>1. data'.index_columns = columns2 /\ data'.index_kinds = kinds2
    BY <1>8, <1>9 DEF columns1, kinds1
  <2>2. Pairs' = {<<Column(columns2[i]), kinds2[i]>> : i \in DOMAIN kinds2}
    <3> HIDE DEF columns2, kinds2
    <3> QED BY <2>1 DEF Pairs
  <2>3. Pairs' = PairsAsked(IndexOptions \ DOMAIN options)'
    BY <1>11, <1>13, <1>14, <2>2
  <2> HIDE DEF columns2, kinds2
  <2> QED BY <1>9, <1>12, <2>1, <2>3 DEF IndexInv
<1> QED BY <1>10, <1>15 DEF PlanInv

LEMMA OthersParsed ==
  ASSUME PlanInv, phase = "options", NEW option \in DOMAIN options, ~Reject,
         \/ SetMode(option) \/ SetSize(option) \/ SetStorageVersion(option)
         \/ ParseColumnSettings(option) \/ ParseBlobColumns(option)
  PROVE  PlanInv'
<1> DEFINE Fits(new) == /\ DOMAIN new = DataFields /\ new.index_columns = data.index_columns
                        /\ new.index_kinds = data.index_kinds
<1>1. DOMAIN data = DataFields
  BY DEF PlanInv, OptionsInv
<1>2. ASSUME NEW new, Consume(option, new), Fits(new), option \notin IndexOptions PROVE PlanInv'
  BY <1>2, Consumed, IndexesKept DEF PlanInv
<1>3. CASE SetMode(option)
  <2>1. option \notin IndexOptions
    BY <1>3, KindsApart DEF SetMode
  <2> DEFINE new == [data EXCEPT !.has_write_mode = TRUE,
                       !.mode = IF options[option] = <<>> \/ options[option] = <<TRUE>> THEN option ELSE @]
  <2>2. Consume(option, new)
    BY <1>3 DEF SetMode
  <2>3. Fits(new)
    BY <1>1 DEF DataFields
  <2> HIDE DEF new, Fits
  <2> QED BY <1>2, <2>1, <2>2, <2>3
<1>4. CASE SetSize(option)
  <2>1. option \in Sizes /\ option \notin IndexOptions
    BY <1>4, KindsApart DEF SetSize
  <2> DEFINE new == [data EXCEPT !.sizes[option] = options[option][1]]
  <2>2. Consume(option, new)
    BY <1>4 DEF SetSize
  <2>3. Fits(new)
    BY <1>1 DEF DataFields
  <2> HIDE DEF new, Fits
  <2> QED BY <1>2, <2>1, <2>2, <2>3
<1>5. CASE SetStorageVersion(option)
  <2>1. option \notin IndexOptions
    BY <1>5, KindsApart DEF SetStorageVersion
  <2> DEFINE new == [data EXCEPT !.storage_version = options[option][1]]
  <2>2. Consume(option, new)
    BY <1>5 DEF SetStorageVersion
  <2>3. Fits(new)
    BY <1>1 DEF DataFields
  <2> HIDE DEF new, Fits
  <2> QED BY <1>2, <2>1, <2>2, <2>3
<1>6. CASE ParseColumnSettings(option)
  <2>1. option \notin IndexOptions
    BY <1>6, KindsApart DEF ParseColumnSettings
  <2> DEFINE entries == options[option]
             all == FoldLeft(LAMBDA encodings, e : ApplySetting(encodings, SettingOf[option], e),
                             data.column_encodings, entries)
             new == [data EXCEPT !.column_encodings = all]
  <2>2. Consume(option, new)
    BY <1>6 DEF ParseColumnSettings
  <2>3. Fits(new)
    <3> HIDE DEF all
    <3> QED BY <1>1 DEF DataFields
  <2> HIDE DEF new, Fits
  <2> QED BY <1>2, <2>1, <2>2, <2>3
<1>7. CASE ParseBlobColumns(option)
  <2>1. option \notin IndexOptions
    BY <1>7, KindsApart DEF ParseBlobColumns
  <2> DEFINE new == [data EXCEPT !.blob_columns = Canonical(options[option])]
  <2>2. Consume(option, new)
    BY <1>7 DEF ParseBlobColumns
  <2>3. Fits(new)
    BY <1>1 DEF DataFields
  <2> HIDE DEF new, Fits
  <2> QED BY <1>2, <2>1, <2>2, <2>3
<1> QED BY <1>3, <1>4, <1>5, <1>6, <1>7

LEMMA OptionsBound == ASSUME PlanInv, BindOption PROVE PlanInv'
<1>0. phase = "options"
  BY DEF BindOption
<1>1. PICK option \in DOMAIN options :
        \/ SetMode(option) \/ SetSize(option) \/ SetStorageVersion(option)
        \/ ParseColumnSettings(option) \/ ParseBlobColumns(option) \/ ParseIndexColumns(option)
        \/ option \notin KnownOptions /\ Reject
  BY DEF BindOption
<1> QED BY <1>0, <1>1, OptionsRejected, OthersParsed, IndexesParsed

LEMMA OptionsEnded == ASSUME PlanInv, EndOfOptions PROVE PlanInv'
<1> SUFFICES ASSUME ~Reject PROVE PlanInv'
  BY OptionsRejected
<1> DEFINE expressions == Padded([i \in DOMAIN generated |-> generated[i].expression])
<1>1. /\ phase = "options" /\ phase' = "bound" /\ options = <<>>
      /\ data' = [data EXCEPT !.generated_expressions = expressions]
      /\ UNCHANGED <<statement, options, generated, types, stored, indexes>>
  BY DEF EndOfOptions
<1> HIDE DEF expressions
<1>2. OptionsInv /\ GeneratedInv /\ TypesInv /\ IndexInv
  BY DEF PlanInv
<1>3. DOMAIN options = {}
  BY <1>1
<1>4. /\ DOMAIN data' = DataFields /\ data'.index_columns = data.index_columns
      /\ data'.index_kinds = data.index_kinds
  BY <1>1, <1>2 DEF OptionsInv, DataFields
<1>5. OptionsInv' /\ GeneratedInv' /\ OpenedInv'
  BY <1>1, <1>2, <1>3, <1>4 DEF OptionsInv, GeneratedInv, OpenedInv, Phases, Asked
<1>8. TypesInv'
  BY <1>1, <1>2, TypesKept DEF Queried
<1>6. Pairs' = Pairs /\ PairsAsked(IndexOptions \ DOMAIN options)' = PairsAsked(IndexOptions \ DOMAIN options)
  BY <1>1, <1>4 DEF Pairs, PairsAsked, Asked
<1>7. IndexInv'
  BY <1>1, <1>2, <1>4, <1>6 DEF IndexInv, Queried
<1> QED BY <1>5, <1>7, <1>8 DEF PlanInv

LEMMA PlanKept ==
  ASSUME types' = types, data' = data
  PROVE  /\ ArrowSchema' = ArrowSchema /\ WriteOptions' = WriteOptions
         /\ ColumnEncodings' = ColumnEncodings /\ Indexes' = Indexes
<1>1. ArrowSchema' = ArrowSchema
  BY DEF ArrowSchema
<1>2. WriteOptions' = WriteOptions
  BY DEF WriteOptions
<1>3. ColumnEncodings' = ColumnEncodings
  BY DEF ColumnEncodings
<1>4. Indexes' = Indexes
  BY DEF Indexes
<1> QED BY <1>1, <1>2, <1>3, <1>4

LEMMA DatasetOpened == ASSUME PlanInv, LanceConversionOpen PROVE PlanInv'
<1>1. /\ phase = "bound" /\ phase' \in {"opened", "failed"}
      /\ UNCHANGED <<statement, options, generated, types, data>>
  BY DEF LanceConversionOpen
<1>2. OptionsInv /\ GeneratedInv /\ TypesInv /\ IndexInv
  BY DEF PlanInv
<1>3. OptionsInv' /\ GeneratedInv'
  BY <1>1, <1>2 DEF OptionsInv, GeneratedInv, Phases, Asked
<1>7. TypesInv'
  BY <1>1, <1>2, TypesKept DEF Queried
<1>4. Pairs' = Pairs /\ PairsAsked(IndexOptions \ DOMAIN options)' = PairsAsked(IndexOptions \ DOMAIN options)
  BY <1>1 DEF Pairs, PairsAsked, Asked
<1>5. IndexInv'
  BY <1>1, <1>2, <1>4 DEF IndexInv, Queried
<1>6. OpenedInv'
  <2> SUFFICES ASSUME phase' = "opened" PROVE OpenedInv'
    BY DEF OpenedInv
  <2> DEFINE table == ConfigureColumnStorage(ArrowSchema, WriteOptions, ColumnEncodings)
  <2>1. /\ stored' = table /\ indexes' = Indexes
        /\ IsInjective([i \in DOMAIN data.column_encodings |-> data.column_encodings[i].column])
        /\ ValidColumnStorage(ArrowSchema, WriteOptions, ColumnEncodings)
        /\ ValidIndexPlan(table, Indexes)
    BY DEF LanceConversionOpen
  <2>2. /\ ArrowSchema' = ArrowSchema /\ WriteOptions' = WriteOptions
        /\ ColumnEncodings' = ColumnEncodings /\ Indexes' = Indexes
    BY <1>1, PlanKept
  <2> QED BY <1>1, <2>1, <2>2 DEF OpenedInv
<1> QED BY <1>3, <1>5, <1>6, <1>7 DEF PlanInv

LEMMA PlanInvariant == PlanSpec => []PlanInv
<1>1. PlanInv /\ [PlanNext]_planVars => PlanInv'
  <2> SUFFICES ASSUME PlanInv, [PlanNext]_planVars PROVE PlanInv'
    OBVIOUS
  <2>1. CASE UNCHANGED planVars
    <3>1. ArrowSchema' = ArrowSchema /\ WriteOptions' = WriteOptions /\ ColumnEncodings' = ColumnEncodings
          /\ Indexes' = Indexes
      BY <2>1, PlanKept DEF planVars
    <3>2. Pairs' = Pairs /\ PairsAsked(IndexOptions \ DOMAIN options)' = PairsAsked(IndexOptions \ DOMAIN options)
      BY <2>1 DEF planVars, Pairs, PairsAsked, Asked
    <3>3. OptionsInv' /\ GeneratedInv' /\ TypesInv'
      BY <2>1, TypesKept DEF planVars, PlanInv, OptionsInv, GeneratedInv, Asked
    <3>4. IndexInv' /\ OpenedInv'
      BY <2>1, <3>1, <3>2 DEF planVars, PlanInv, IndexInv, OpenedInv
    <3> QED BY <3>3, <3>4 DEF PlanInv
  <2> QED BY <2>1, OptionsTaken, SourceBound, OptionsBound, OptionsEnded, DatasetOpened DEF PlanNext
<1> QED BY <1>1, OptionsInit, PTL DEF PlanSpec

\* Whatever order the options are met in, the plan of the opened dataset has
\* exactly the asked indexes, one per column, none of them on a blob
\* (lance_copy.cpp, ParseIndexColumns, LanceInitialize; index.rs).
THEOREM PlannedAsAsked == PlanSpec => []IndexesAsAsked
<1>1. PlanInv => IndexesAsAsked
  <2> SUFFICES ASSUME PlanInv, phase = "opened" PROVE IndexesAsAsked
    BY DEF IndexesAsAsked
  <2>1. /\ indexes = Indexes /\ ValidIndexPlan(stored, indexes) /\ DOMAIN options = {}
        /\ data.index_columns \in Seq(ToSet(types.columns)) /\ data.index_kinds \in Seq(IndexOptions)
        /\ Len(data.index_columns) = Len(data.index_kinds)
        /\ Pairs = PairsAsked(IndexOptions \ DOMAIN options)
    BY DEF PlanInv, OptionsInv, IndexInv, OpenedInv, Queried
  <2>2. DOMAIN indexes = DOMAIN data.index_kinds
    BY <2>1 DEF Indexes
  <2>3. \A i \in DOMAIN indexes : indexes[i].column = data.index_columns[i] /\ indexes[i].kind = data.index_kinds[i]
    BY <2>1 DEF Indexes
  <2>4. {<<Column(indexes[i].column), indexes[i].kind>> : i \in DOMAIN indexes} = Pairs
    BY <2>2, <2>3 DEF Pairs
  <2>5. PairsAsked(IndexOptions \ DOMAIN options)
          = {asked \in (DOMAIN types.fields) \X IndexOptions :
               /\ Len(asked[1]) = 1
               /\ \E name \in ToSet(Asked(asked[2])) : SameName(name, asked[1][1])}
    BY <2>1 DEF PairsAsked
  <2>6. \A i, j \in DOMAIN indexes : indexes[i].column = indexes[j].column => i = j
    BY <2>1 DEF ValidIndexPlan
  <2>7. ASSUME NEW i \in DOMAIN indexes PROVE stored.fields[Column(indexes[i].column)].type # "blob"
    <3>1. indexes[i].kind \in IndexOptions
      BY <2>1, <2>2, <2>3
    <3>2. stored.fields[Column(indexes[i].column)].type \in IndexTypes(indexes[i].kind)
      BY <2>1 DEF ValidIndexPlan, ValidateIndexType
    <3>3. \A kind \in IndexOptions : "blob" \notin IndexTypes(kind)
      BY DEF IndexOptions, IndexTypes
    <3> QED BY <3>1, <3>2, <3>3
  <2> QED BY <2>1, <2>4, <2>5, <2>6, <2>7 DEF IndexesAsAsked
<1> QED BY <1>1, PlanInvariant, PTL
-----------------------------------------------------------------------------
(***************************************************************************)
(* What the encodings do to the fields, whatever their order.              *)
(***************************************************************************)
Field(f) == f = [type |-> f.type, metadata |-> [key \in MetadataKeys |-> f.metadata[key]]]
Fields(F) == F = [path \in DOMAIN F |-> F[path]] /\ \A path \in DOMAIN F : Field(F[path])
Target(schema, name) == CHOOSE p \in EncodingTarget(schema, name) : TRUE

\* The last of the entries that set the key of the field did, or none does.
Encoded(schema, E, path, key, value) ==
  \/ \E name \in DOMAIN E :
       Target(schema, name) = path /\ Settings(E[name])[key] # "" /\ value = Settings(E[name])[key]
  \/ /\ value = schema.fields[path].metadata[key]
     /\ \A name \in DOMAIN E : Target(schema, name) = path => Settings(E[name])[key] = ""

SetOnce(schema, c, name, encoding, new) ==
  /\ Fields(new) /\ DOMAIN new = DOMAIN c
  /\ \A path \in DOMAIN c :
       /\ new[path].type = c[path].type
       /\ \A key \in MetadataKeys :
            new[path].metadata[key] =
              IF Target(schema, name) = path /\ Settings(encoding)[key] # ""
              THEN Settings(encoding)[key] ELSE c[path].metadata[key]

LEMMA OneEncoded ==
  ASSUME NEW schema, NEW c, Fields(c), NEW name, NEW encoding
  PROVE  SetOnce(schema, c, name, encoding, EncodeField(schema, c, name, encoding))
<1> DEFINE target == Target(schema, name)
           new == EncodeField(schema, c, name, encoding)
           S == Settings(encoding)
<1>1. new = [c EXCEPT ![target].metadata = Extend(@, S)]
  BY DEF EncodeField, FromConfigured, Target
<1> HIDE DEF target, new, S
<1>2. DOMAIN new = DOMAIN c /\ new = [path \in DOMAIN new |-> new[path]]
  BY <1>1 DEF Fields
<1>3. \A path \in DOMAIN c : path # target => new[path] = c[path]
  BY <1>1 DEF Fields
<1>4. \A path \in DOMAIN c : path = target => new[path] = [c[path] EXCEPT !.metadata = Extend(@, S)]
  BY <1>1 DEF Fields
<1>5. ASSUME NEW path \in DOMAIN c
      PROVE  /\ Field(new[path]) /\ new[path].type = c[path].type
             /\ \A key \in MetadataKeys :
                  new[path].metadata[key] =
                    IF target = path /\ S[key] # "" THEN S[key] ELSE c[path].metadata[key]
  <2>1. Field(c[path])
    BY DEF Fields
  <2>2. CASE path # target
    BY <1>3, <2>1, <2>2
  <2>3. CASE path = target
    <3>1. new[path] = [type |-> c[path].type, metadata |-> Extend(c[path].metadata, S)]
      BY <1>4, <2>1, <2>3 DEF Field
    <3>2. new[path].type = c[path].type /\ new[path].metadata = Extend(c[path].metadata, S)
      BY <3>1
    <3>3. new[path].metadata = [key \in MetadataKeys |-> IF S[key] # "" THEN S[key] ELSE c[path].metadata[key]]
      BY <3>2 DEF Extend
    <3> QED BY <2>3, <3>1, <3>2, <3>3 DEF Field
  <2> QED BY <2>2, <2>3
<1>6. Fields(new)
  BY <1>2, <1>5 DEF Fields
<1> QED BY <1>2, <1>5, <1>6 DEF target, new, S, SetOnce

\* The values a field has or is given.
Worded(schema, E) ==
  [type     : {schema.fields[path].type : path \in DOMAIN schema.fields},
   metadata : [MetadataKeys -> {schema.fields[p[1]].metadata[p[2]] : p \in (DOMAIN schema.fields) \X MetadataKeys}
                                 \cup {Settings(E[p[1]])[p[2]] : p \in (DOMAIN E) \X MetadataKeys}]]

LEMMA EncodedWithin ==
  ASSUME NEW schema, NEW E, NEW c \in [DOMAIN schema.fields -> Worded(schema, E)], NEW name \in DOMAIN E
  PROVE  /\ Fields(c)
         /\ EncodeField(schema, c, name, E[name]) \in [DOMAIN schema.fields -> Worded(schema, E)]
<1> DEFINE D == DOMAIN schema.fields
           Types == {schema.fields[path].type : path \in D}
           Values == {schema.fields[p[1]].metadata[p[2]] : p \in D \X MetadataKeys}
                       \cup {Settings(E[p[1]])[p[2]] : p \in (DOMAIN E) \X MetadataKeys}
           new == EncodeField(schema, c, name, E[name])
<1>0. Worded(schema, E) = [type : Types, metadata : [MetadataKeys -> Values]]
  BY DEF Worded
<1>a. \A key \in MetadataKeys : Settings(E[name])[key] \in Values
  <2>1. ASSUME NEW key \in MetadataKeys PROVE Settings(E[name])[key] \in Values
    <3>1. <<name, key>> \in (DOMAIN E) \X MetadataKeys /\ <<name, key>>[1] = name /\ <<name, key>>[2] = key
      OBVIOUS
    <3> QED BY <3>1
  <2> QED BY <2>1
<1> HIDE DEF Values, Types
<1>1. \A path \in D : c[path] \in [type : Types, metadata : [MetadataKeys -> Values]]
  BY <1>0
<1>2. \A f \in [type : Types, metadata : [MetadataKeys -> Values]] : Field(f)
  BY DEF Field
<1>3. Fields(c)
  BY <1>1, <1>2 DEF Fields
<1>4. /\ Fields(new) /\ DOMAIN new = D
      /\ \A path \in D :
           /\ new[path].type = c[path].type
           /\ \A key \in MetadataKeys :
                new[path].metadata[key] =
                  IF Target(schema, name) = path /\ Settings(E[name])[key] # ""
                  THEN Settings(E[name])[key] ELSE c[path].metadata[key]
  <2>1. DOMAIN c = D
    OBVIOUS
  <2> HIDE DEF D
  <2>2. SetOnce(schema, c, name, E[name], new)
    BY <1>3, OneEncoded
  <2> HIDE DEF new
  <2> QED BY <2>1, <2>2 DEF SetOnce
<1> HIDE DEF new
<1>5. ASSUME NEW path \in D PROVE new[path] \in Worded(schema, E)
  <2>1. new[path] = [type |-> new[path].type, metadata |-> [key \in MetadataKeys |-> new[path].metadata[key]]]
    BY <1>4 DEF Fields, Field
  <2>2. new[path].type \in Types
    BY <1>1, <1>4
  <2>3. \A key \in MetadataKeys : c[path].metadata[key] \in Values
    BY <1>1
  <2>4. \A key \in MetadataKeys : new[path].metadata[key] \in Values
    BY <1>4, <1>a, <2>3
  <2> QED BY <1>0, <2>1, <2>2, <2>4
<1>6. new = [path \in D |-> new[path]]
  BY <1>4 DEF Fields
<1>7. new \in [D -> Worded(schema, E)]
  BY <1>5, <1>6
<1> QED BY <1>3, <1>7 DEF new

Stepwise(schema, E, n, q, h) ==
  /\ h[0] = schema.fields
  /\ \A k \in 0 .. n - 1 : h[k + 1] = EncodeField(schema, h[k], q[k + 1], E[q[k + 1]])

LEMMA EncodingFolds ==
  ASSUME NEW schema, NEW E, IsFiniteSet(DOMAIN E), Fields(schema.fields)
  PROVE  \E h \in [0 .. Cardinality(DOMAIN E) -> [DOMAIN schema.fields -> Worded(schema, E)]] :
           /\ Stepwise(schema, E, Cardinality(DOMAIN E), SetToSeq(DOMAIN E), h)
           /\ ConfigureColumnEncoding(schema, E) = [schema EXCEPT !.fields = h[Cardinality(DOMAIN E)]]
<1> DEFINE n == Cardinality(DOMAIN E)
           q == SetToSeq(DOMAIN E)
           V == [DOMAIN schema.fields -> Worded(schema, E)]
           Op(i, c) == EncodeField(schema, c, q[i], E[q[i]])
           F == [p \in (1 .. n) \X V |-> Op(p[1], p[2])]
           Body(g, s) == IF s = {} THEN schema.fields ELSE Op(Max(s), g[s \ {Max(s)}])
           g == CHOOSE iter : iter = [s \in SUBSET DOMAIN q |-> Body(iter, s)]
<1>1. /\ n \in Nat /\ DOMAIN q = 1 .. n /\ \A i \in 1 .. n : q[i] \in DOMAIN E
  BY SetAsSeq
<1>2. schema.fields \in V
  <2>1. ASSUME NEW path \in DOMAIN schema.fields PROVE schema.fields[path] \in Worded(schema, E)
    <3> DEFINE f == schema.fields[path]
    <3>1. f = [type |-> f.type, metadata |-> [key \in MetadataKeys |-> f.metadata[key]]]
      BY DEF Fields, Field
    <3>2. \A key \in MetadataKeys : <<path, key>> \in (DOMAIN schema.fields) \X MetadataKeys
                                    /\ <<path, key>>[1] = path /\ <<path, key>>[2] = key
      OBVIOUS
    <3>3. \A key \in MetadataKeys :
            f.metadata[key] \in {schema.fields[p[1]].metadata[p[2]] : p \in (DOMAIN schema.fields) \X MetadataKeys}
      BY <3>2
    <3>4. f.type \in {schema.fields[p].type : p \in DOMAIN schema.fields}
      OBVIOUS
    <3> DEFINE words == [key \in MetadataKeys |-> f.metadata[key]]
    <3> HIDE DEF f
    <3>5. words \in [MetadataKeys -> {schema.fields[p[1]].metadata[p[2]] : p \in (DOMAIN schema.fields) \X MetadataKeys}
                                       \cup {Settings(E[p[1]])[p[2]] : p \in (DOMAIN E) \X MetadataKeys}]
      BY <3>3
    <3>6. f = [type |-> f.type, metadata |-> words]
      BY <3>1
    <3> HIDE DEF words
    <3>7. f \in Worded(schema, E)
      BY <3>4, <3>5, <3>6 DEF Worded
    <3> QED BY <3>7 DEF f
  <2>2. schema.fields = [path \in DOMAIN schema.fields |-> schema.fields[path]]
    BY DEF Fields
  <2> QED BY <2>1, <2>2
<1>3. F \in [(1 .. n) \X V -> V]
  <2>1. ASSUME NEW p \in (1 .. n) \X V PROVE Op(p[1], p[2]) \in V
    <3>1. p[1] \in 1 .. n /\ p[2] \in V
      OBVIOUS
    <3>2. q[p[1]] \in DOMAIN E
      BY <1>1, <3>1
    <3> HIDE DEF q
    <3> QED BY <3>1, <3>2, EncodedWithin
  <2> QED BY <2>1
<1>4. \E x : x = [s \in SUBSET DOMAIN q |-> Body(x, s)]
  <2>0. PICK x \in [SUBSET (1 .. n) -> V] : FoldsAs(n, schema.fields, F, x)
    <3> HIDE DEF F, V, n
    <3> QED BY <1>1, <1>2, <1>3, FoldsExist
  <2>1. \A s \in SUBSET (1 .. n) : x[s] = IF s = {} THEN schema.fields ELSE F[<<Max(s), x[s \ {Max(s)}]>>]
    <3> HIDE DEF F, V, n
    <3> QED BY <2>0 DEF FoldsAs
  <2>2. ASSUME NEW s \in SUBSET (1 .. n) PROVE x[s] = Body(x, s)
    <3>1. CASE s = {}
      BY <2>1, <3>1
    <3>2. CASE s # {}
      <4>1. Max(s) \in 1 .. n
        <5>1. Max(s) \in s
          BY <1>1, <3>2, MaxIn
        <5> QED BY <5>1
      <4>2. <<Max(s), x[s \ {Max(s)}]>> \in (1 .. n) \X V
        BY <2>1, <4>1
      <4>3. F[<<Max(s), x[s \ {Max(s)}]>>] = Op(Max(s), x[s \ {Max(s)}])
        <5> HIDE DEF V, Op
        <5> QED BY <4>2
      <4> HIDE DEF F, Op
      <4> QED BY <2>1, <3>2, <4>3
    <3> QED BY <3>1, <3>2
  <2>3. x = [s \in SUBSET DOMAIN q |-> Body(x, s)]
    <3> HIDE DEF Body, q
    <3> QED BY <1>1, <2>1, <2>2
  <2> HIDE DEF Body
  <2> QED BY <2>3
<1>5. g = [s \in SUBSET DOMAIN q |-> Body(g, s)]
  <2> HIDE DEF Body, q
  <2> QED BY <1>4
<1>6. ConfigureColumnEncoding(schema, E) = [schema EXCEPT !.fields = g[DOMAIN q]]
  BY DEF ConfigureColumnEncoding, FoldLeft, MapThenFoldSet
<1> HIDE DEF g
<1> DEFINE h == [k \in 0 .. n |-> g[1 .. k]]
           T == {k \in Nat : k <= n => g[1 .. k] \in V}
<1>7. g[1 .. 0] = schema.fields
  <2>1. 1 .. 0 \in SUBSET DOMAIN q /\ 1 .. 0 = {}
    BY <1>1
  <2> HIDE DEF q, Op
  <2> QED BY <1>5, <2>1
<1>8. ASSUME NEW k \in 0 .. n - 1 PROVE g[1 .. k + 1] = Op(k + 1, g[1 .. k])
  <2>0. n \in Int /\ k \in Nat
    BY <1>1
  <2>1. 1 .. k + 1 \in SUBSET DOMAIN q
    BY <1>1, <2>0
  <2>2. Max(1 .. k + 1) = k + 1 /\ 1 .. k + 1 # {} /\ (1 .. k + 1) \ {k + 1} = 1 .. k
    BY <2>0, LastPosition
  <2>3. g[1 .. k + 1] = Body(g, 1 .. k + 1)
    <3> HIDE DEF Body, q
    <3> QED BY <1>5, <2>1
  <2> HIDE DEF q, Op
  <2> QED BY <2>2, <2>3
<1>9. \A k \in Nat : k \in T
  <2>1. 0 \in T
    BY <1>2, <1>7
  <2>2. ASSUME NEW k \in Nat, k \in T PROVE k + 1 \in T
    <3> SUFFICES ASSUME k + 1 <= n PROVE g[1 .. k + 1] \in V
      OBVIOUS
    <3>1. k \in 0 .. n - 1 /\ k + 1 \in 1 .. n /\ k <= n
      BY <1>1
    <3>2. g[1 .. k] \in V
      BY <2>2, <3>1
    <3>3. g[1 .. k + 1] = Op(k + 1, g[1 .. k])
      BY <1>8, <3>1
    <3>4. q[k + 1] \in DOMAIN E
      BY <1>1, <3>1
    <3> HIDE DEF q
    <3> QED BY <3>2, <3>3, <3>4, EncodedWithin
  <2> HIDE DEF T
  <2> QED BY <2>1, <2>2, Induction
<1>10. h \in [0 .. n -> V]
  <2>1. \A k \in 0 .. n : g[1 .. k] \in V
    <3> HIDE DEF V
    <3> QED BY <1>1, <1>9
  <2> HIDE DEF V
  <2> QED BY <2>1
<1>11. Stepwise(schema, E, n, q, h)
  <2>1. h[0] = schema.fields
    BY <1>1, <1>7
  <2>2. \A k \in 0 .. n - 1 : h[k + 1] = Op(k + 1, h[k])
    <3>1. \A k \in 0 .. n - 1 : k \in 0 .. n /\ k + 1 \in 0 .. n
      BY <1>1
    <3> HIDE DEF Op
    <3> QED BY <1>8, <3>1
  <2> HIDE DEF h, q
  <2> QED BY <2>1, <2>2 DEF Stepwise
<1>12. ConfigureColumnEncoding(schema, E) = [schema EXCEPT !.fields = h[n]]
  BY <1>1, <1>6
<1> HIDE DEF h, q, n, V
<1> QED BY <1>10, <1>11, <1>12 DEF h, q, n, V
-----------------------------------------------------------------------------
(***************************************************************************)
(* The sizes, the blob columns and the expressions that were bound.        *)
(***************************************************************************)
SizesFit(sizes) ==
  sizes \in [Sizes -> Nat] /\ \A o \in Sizes \ {"blob_inline_size_threshold"} : sizes[o] # 0
BlobsFit(columns) ==
  /\ columns \in Seq(ToSet(types.columns)) /\ IsInjective(columns)
  /\ \A name \in ToSet(columns) : types.fields[Column(name)].type = "string"
Expressions == [i \in DOMAIN generated |-> generated[i].expression]
DataInv ==
  /\ SizesFit(data.sizes)
  /\ phase \in Queried => BlobsFit(data.blob_columns)
  /\ phase \in {"bound", "opened", "failed"} =>
       data.generated_expressions = Padded(Expressions) /\ ValidateIndexColumns

LEMMA DataInit == PlanInit => DataInv
<1> SUFFICES ASSUME PlanInit PROVE SizesFit(data.sizes)
  BY DEF PlanInit, DataInv, Queried
<1>1. data.sizes = DefaultSize /\ DefaultSize \in [Sizes -> Nat \ {0}]
  BY PlanAssumption DEF PlanInit
<1> QED BY <1>1 DEF SizesFit

\* A step that leaves the data alone.
LEMMA DataKept ==
  ASSUME DataInv, UNCHANGED <<generated, types, data>>, phase' \in Queried => phase \in Queried,
         phase' \in {"bound", "opened", "failed"} => phase \in {"bound", "opened", "failed"}
  PROVE  DataInv'
<1>1. /\ BlobsFit(data.blob_columns)' = BlobsFit(data.blob_columns)
      /\ Padded(Expressions)' = Padded(Expressions) /\ ValidateIndexColumns' = ValidateIndexColumns
  BY DEF BlobsFit, Padded, Expressions, ValidateIndexColumns
<1> QED BY <1>1 DEF DataInv

\* An option that sets something else.
LEMMA DataConsumed ==
  ASSUME DataInv, phase = "options", NEW option, NEW new, Consume(option, new),
         SizesFit(new.sizes), BlobsFit(new.blob_columns)
  PROVE  DataInv'
<1>1. data' = new /\ phase' = "options" /\ types' = types
  BY DEF Consume
<1>2. BlobsFit(data.blob_columns)'
  BY <1>1 DEF BlobsFit
<1> QED BY <1>1, <1>2 DEF DataInv

LEMMA SizeSet ==
  ASSUME PlanInv, DataInv, phase = "options", NEW option \in DOMAIN options, SetSize(option), ~Reject
  PROVE  DataInv'
<1> DEFINE value == options[option][1]
           new == [data EXCEPT !.sizes[option] = value]
<1>1. /\ option \in Sizes /\ Len(options[option]) = 1 /\ value >= 0
      /\ option # "blob_inline_size_threshold" => value # 0
      /\ Consume(option, new)
  BY DEF SetSize
<1>2. value \in Nat
  <2>1. statement \in Statements /\ option \in DOMAIN statement.options /\ options[option] = statement.options[option]
    BY DEF PlanInv, OptionsInv
  <2>2. /\ options[option] \in Seq(ToSet(options[option])) /\ ToSet(options[option]) \subseteq Int
    BY <1>1, <2>1, PlanAssumption DEF OptionAssumption
  <2>3. value \in ToSet(options[option])
    BY <1>1, <2>2
  <2> QED BY <1>1, <2>2, <2>3
<1>3. /\ DOMAIN data = DataFields /\ SizesFit(data.sizes) /\ BlobsFit(data.blob_columns)
  BY DEF PlanInv, OptionsInv, DataInv, Queried
<1> HIDE DEF value
<1>4. new.sizes = [data.sizes EXCEPT ![option] = value] /\ new.blob_columns = data.blob_columns
  BY <1>3 DEF DataFields
<1>5. SizesFit(new.sizes)
  BY <1>1, <1>2, <1>3, <1>4 DEF SizesFit
<1> HIDE DEF new
<1> QED BY <1>1, <1>3, <1>4, <1>5, DataConsumed

LEMMA BlobsParsed ==
  ASSUME PlanInv, DataInv, phase = "options", NEW option \in DOMAIN options, ParseBlobColumns(option), ~Reject
  PROVE  DataInv'
<1> DEFINE requested == options[option]
           names == Canonical(requested)
           new == [data EXCEPT !.blob_columns = names]
<1>1. /\ KnownColumns(requested) /\ Distinct(requested) /\ Consume(option, new)
      /\ \A name \in ToSet(names) : types.fields[Column(name)].type = "string"
  BY DEF ParseBlobColumns
<1>2. requested \in Seq(ToSet(requested))
  <2>1. statement \in Statements /\ option \in DOMAIN statement.options /\ requested = statement.options[option]
    BY DEF PlanInv, OptionsInv
  <2> QED BY <2>1, PlanAssumption DEF OptionAssumption
<1>3. Tabular(types) /\ SizesFit(data.sizes) /\ DOMAIN data = DataFields
  BY DEF PlanInv, OptionsInv, TypesInv, DataInv, Queried
<1>4. /\ names \in Seq(ToSet(types.columns)) /\ Len(names) = Len(requested)
      /\ \A i \in DOMAIN requested : SameName(requested[i], names[i])
  <2> HIDE DEF requested
  <2> QED BY <1>1, <1>2, <1>3, CanonicalNames
<1>5. new.sizes = data.sizes /\ new.blob_columns = names
  BY <1>3 DEF DataFields
<1>6. DOMAIN names = DOMAIN requested
  BY <1>2, <1>4
<1> HIDE DEF names, requested
<1>7. IsInjective(names)
  <2> SUFFICES ASSUME NEW i \in DOMAIN names, NEW j \in DOMAIN names, names[i] = names[j] PROVE i = j
    BY DEF IsInjective
  <2>1. SameName(requested[i], names[i]) /\ SameName(requested[j], names[i])
    BY <1>4, <1>6
  <2>2. SameName(requested[i], requested[j])
    BY <2>1, SameNames
  <2> QED BY <1>1, <1>6, <2>2 DEF Distinct
<1>8. BlobsFit(new.blob_columns)
  BY <1>1, <1>4, <1>5, <1>7 DEF BlobsFit
<1> HIDE DEF new
<1> QED BY <1>1, <1>3, <1>5, <1>8, DataConsumed

LEMMA OthersLeaveData ==
  ASSUME PlanInv, DataInv, phase = "options", NEW option \in DOMAIN options, ~Reject,
         \/ SetMode(option) \/ SetStorageVersion(option)
         \/ ParseColumnSettings(option) \/ ParseIndexColumns(option)
  PROVE  DataInv'
<1>1. DOMAIN data = DataFields /\ SizesFit(data.sizes) /\ BlobsFit(data.blob_columns)
  BY DEF PlanInv, OptionsInv, DataInv, Queried
<1>2. ASSUME NEW new, Consume(option, new), new.sizes = data.sizes, new.blob_columns = data.blob_columns
      PROVE  DataInv'
  BY <1>1, <1>2, DataConsumed
<1>3. CASE SetMode(option)
  <2> DEFINE new == [data EXCEPT !.has_write_mode = TRUE,
                       !.mode = IF options[option] = <<>> \/ options[option] = <<TRUE>> THEN option ELSE @]
  <2>1. Consume(option, new)
    BY <1>3 DEF SetMode
  <2>2. new.sizes = data.sizes /\ new.blob_columns = data.blob_columns
    BY <1>1 DEF DataFields
  <2> HIDE DEF new
  <2> QED BY <1>2, <2>1, <2>2
<1>4. CASE SetStorageVersion(option)
  <2> DEFINE new == [data EXCEPT !.storage_version = options[option][1]]
  <2>1. Consume(option, new)
    BY <1>4 DEF SetStorageVersion
  <2>2. new.sizes = data.sizes /\ new.blob_columns = data.blob_columns
    BY <1>1 DEF DataFields
  <2> HIDE DEF new
  <2> QED BY <1>2, <2>1, <2>2
<1>5. CASE ParseColumnSettings(option)
  <2> DEFINE all == FoldLeft(LAMBDA encodings, e : ApplySetting(encodings, SettingOf[option], e),
                             data.column_encodings, options[option])
             new == [data EXCEPT !.column_encodings = all]
  <2>1. Consume(option, new)
    BY <1>5 DEF ParseColumnSettings
  <2> HIDE DEF all
  <2>2. new.sizes = data.sizes /\ new.blob_columns = data.blob_columns
    BY <1>1 DEF DataFields
  <2> HIDE DEF new
  <2> QED BY <1>2, <2>1, <2>2
<1>6. CASE ParseIndexColumns(option)
  <2> DEFINE new == [data EXCEPT !.index_columns = @ \o Canonical(options[option]),
                                 !.index_kinds   = @ \o KindPerColumn(options[option], option)]
  <2>1. Consume(option, new)
    BY <1>6 DEF ParseIndexColumns
  <2>2. new.sizes = data.sizes /\ new.blob_columns = data.blob_columns
    BY <1>1 DEF DataFields
  <2> HIDE DEF new
  <2> QED BY <1>2, <2>1, <2>2
<1> QED BY <1>3, <1>4, <1>5, <1>6

LEMMA DataEnded == ASSUME PlanInv, DataInv, EndOfOptions, ~Reject PROVE DataInv'
<1> DEFINE padded == Padded(Expressions)
           new == [data EXCEPT !.generated_expressions = padded]
<1>1. /\ phase = "options" /\ phase' = "bound" /\ ValidateIndexColumns
      /\ data' = new /\ UNCHANGED <<generated, types>>
  BY DEF EndOfOptions, Expressions
<1>2. padded' = padded
  BY <1>1 DEF Padded, Expressions
<1>3. DOMAIN data = DataFields /\ SizesFit(data.sizes) /\ BlobsFit(data.blob_columns)
  BY <1>1 DEF PlanInv, OptionsInv, DataInv, Queried
<1> HIDE DEF padded
<1>4. /\ data'.sizes = data.sizes /\ data'.blob_columns = data.blob_columns
      /\ data'.index_columns = data.index_columns /\ data'.generated_expressions = padded
  BY <1>1, <1>3 DEF DataFields
<1>5. BlobsFit(data.blob_columns)'
  BY <1>1, <1>3, <1>4 DEF BlobsFit
<1>6. ValidateIndexColumns'
  BY <1>1, <1>4 DEF ValidateIndexColumns, Distinct, SameName
<1> QED BY <1>2, <1>3, <1>4, <1>5, <1>6 DEF DataInv, padded

LEMMA DataInvariant == PlanSpec => []DataInv
<1>1. PlanInv /\ DataInv /\ [PlanNext]_planVars => DataInv'
  <2> SUFFICES ASSUME PlanInv, DataInv, [PlanNext]_planVars PROVE DataInv'
    OBVIOUS
  <2>1. CASE UNCHANGED planVars
    BY <2>1, DataKept DEF planVars
  <2>2. CASE Reject
    <3>1. phase' = "rejected" /\ data' = data
      BY <2>2 DEF Reject
    <3> QED BY <3>1 DEF DataInv, Queried
  <2>3. CASE TakeOptions /\ ~Reject
    <3>1. phase' = "source" /\ data' = data
      BY <2>3 DEF TakeOptions
    <3> QED BY <3>1 DEF DataInv, Queried
  <2>4. CASE BindSource /\ ~Reject
    <3>1. phase = "source" /\ phase' = "options" /\ data' = data
      BY <2>4 DEF BindSource
    <3>2. data.blob_columns = <<>>
      <4>1. data = FirstData
        BY <3>1 DEF PlanInv, OptionsInv
      <4> QED BY <4>1 DEF FirstData
    <3>3. BlobsFit(data.blob_columns)'
      <4>1. \A S : <<>> \in Seq(S)
        OBVIOUS
      <4>2. IsInjective(<<>>) /\ ToSet(<<>>) = {}
        BY DEF IsInjective, ToSet
      <4> QED BY <3>1, <3>2, <4>1, <4>2 DEF BlobsFit
    <3> QED BY <3>1, <3>3 DEF DataInv
  <2>5. CASE BindOption /\ ~Reject
    <3>1. phase = "options"
      BY <2>5 DEF BindOption
    <3>2. PICK option \in DOMAIN options :
            \/ SetMode(option) \/ SetSize(option) \/ SetStorageVersion(option)
            \/ ParseColumnSettings(option) \/ ParseBlobColumns(option) \/ ParseIndexColumns(option)
      BY <2>5 DEF BindOption
    <3> QED BY <2>5, <3>1, <3>2, SizeSet, BlobsParsed, OthersLeaveData
  <2>6. CASE EndOfOptions /\ ~Reject
    BY <2>6, DataEnded
  <2>7. CASE LanceConversionOpen
    <3>1. phase = "bound" /\ phase' \in {"opened", "failed"} /\ UNCHANGED <<generated, types, data>>
      BY <2>7 DEF LanceConversionOpen
    <3> QED BY <3>1, DataKept DEF Queried
  <2> QED BY <2>1, <2>2, <2>3, <2>4, <2>5, <2>6, <2>7 DEF PlanNext
<1> QED BY <1>1, DataInit, PlanInvariant, PTL DEF PlanSpec

\* What the first k of the entries did to the field.
EncodedBy(schema, E, q, k, path, key, value) ==
  \/ \E i \in 1 .. k : /\ Target(schema, q[i]) = path /\ Settings(E[q[i]])[key] # ""
                       /\ value = Settings(E[q[i]])[key]
  \/ /\ value = schema.fields[path].metadata[key]
     /\ \A i \in 1 .. k : Target(schema, q[i]) = path => Settings(E[q[i]])[key] = ""
AfterEntries(schema, E, q, k, c) ==
  /\ Fields(c) /\ DOMAIN c = DOMAIN schema.fields
  /\ \A path \in DOMAIN c :
       /\ c[path].type = schema.fields[path].type
       /\ \A key \in MetadataKeys : EncodedBy(schema, E, q, k, path, key, c[path].metadata[key])

LEMMA OneMoreEntry ==
  ASSUME NEW schema, NEW E, NEW q, NEW k \in Nat, NEW c, AfterEntries(schema, E, q, k, c)
  PROVE  AfterEntries(schema, E, q, k + 1, EncodeField(schema, c, q[k + 1], E[q[k + 1]]))
<1> DEFINE name == q[k + 1]
           new == EncodeField(schema, c, name, E[name])
<1>1. Fields(c) /\ DOMAIN c = DOMAIN schema.fields
  BY DEF AfterEntries
<1>2. SetOnce(schema, c, name, E[name], new)
  BY <1>1, OneEncoded
<1> HIDE DEF new, name
<1>3. Fields(new) /\ DOMAIN new = DOMAIN c
  BY <1>2 DEF SetOnce
<1>4. ASSUME NEW path \in DOMAIN c, NEW key \in MetadataKeys
      PROVE  EncodedBy(schema, E, q, k + 1, path, key, new[path].metadata[key])
  <2> DEFINE was == c[path].metadata[key]   now == new[path].metadata[key]
  <2>1. EncodedBy(schema, E, q, k, path, key, was)
    BY DEF AfterEntries
  <2>2. now = IF Target(schema, name) = path /\ Settings(E[name])[key] # ""
              THEN Settings(E[name])[key] ELSE was
    BY <1>2 DEF SetOnce
  <2>3. \A i \in 1 .. k + 1 : i \in 1 .. k \/ i = k + 1
    OBVIOUS
  <2>4. \A i \in 1 .. k : i \in 1 .. k + 1
    OBVIOUS
  <2>5. k + 1 \in 1 .. k + 1
    OBVIOUS
  <2> HIDE DEF was, now
  <2>6. CASE Target(schema, name) = path /\ Settings(E[name])[key] # ""
    <3>1. now = Settings(E[q[k + 1]])[key] /\ Target(schema, q[k + 1]) = path /\ Settings(E[q[k + 1]])[key] # ""
      BY <2>2, <2>6 DEF name
    <3>2. \E i \in 1 .. k + 1 : /\ Target(schema, q[i]) = path /\ Settings(E[q[i]])[key] # ""
                                /\ now = Settings(E[q[i]])[key]
      BY <2>5, <3>1
    <3>3. EncodedBy(schema, E, q, k + 1, path, key, now)
      BY <3>2 DEF EncodedBy
    <3> QED BY <3>3 DEF now
  <2>7. CASE ~(Target(schema, name) = path /\ Settings(E[name])[key] # "")
    <3>1. now = was
      BY <2>2, <2>7
    <3>2. Target(schema, q[k + 1]) = path => Settings(E[q[k + 1]])[key] = ""
      BY <2>7 DEF name
    <3>3. EncodedBy(schema, E, q, k + 1, path, key, was)
      BY <2>1, <2>3, <2>4, <3>2 DEF EncodedBy
    <3> QED BY <3>1, <3>3 DEF now
  <2> QED BY <2>6, <2>7
<1>5. \A path \in DOMAIN c : new[path].type = schema.fields[path].type
  BY <1>2 DEF SetOnce, AfterEntries
<1>6. AfterEntries(schema, E, q, k + 1, new)
  BY <1>1, <1>3, <1>4, <1>5 DEF AfterEntries
<1> QED BY <1>6 DEF new, name

EncodesAs(schema, E, c) ==
  /\ Fields(c) /\ DOMAIN c = DOMAIN schema.fields
  /\ \A path \in DOMAIN c :
       /\ c[path].type = schema.fields[path].type
       /\ \A key \in MetadataKeys : Encoded(schema, E, path, key, c[path].metadata[key])

LEMMA Encodings ==
  ASSUME NEW schema, NEW E, IsFiniteSet(DOMAIN E), Fields(schema.fields), "fields" \in DOMAIN schema
  PROVE  EncodesAs(schema, E, ConfigureColumnEncoding(schema, E).fields)
<1> DEFINE n == Cardinality(DOMAIN E)
           q == SetToSeq(DOMAIN E)
<1>1. /\ n \in Nat /\ \A i \in 1 .. n : q[i] \in DOMAIN E
      /\ \A x \in DOMAIN E : \E i \in 1 .. n : q[i] = x
  BY SetAsSeq
<1>2. PICK h \in [0 .. n -> [DOMAIN schema.fields -> Worded(schema, E)]] :
        /\ Stepwise(schema, E, n, q, h)
        /\ ConfigureColumnEncoding(schema, E) = [schema EXCEPT !.fields = h[n]]
  BY EncodingFolds
<1> HIDE DEF n, q
<1> DEFINE T == {k \in Nat : k <= n => AfterEntries(schema, E, q, k, h[k])}
<1>3. 0 \in T
  <2>1. h[0] = schema.fields /\ 1 .. 0 = {}
    BY <1>2 DEF Stepwise
  <2>2. AfterEntries(schema, E, q, 0, schema.fields)
    BY <2>1 DEF AfterEntries, EncodedBy
  <2> QED BY <2>1, <2>2
<1>4. ASSUME NEW k \in Nat, k \in T PROVE k + 1 \in T
  <2> SUFFICES ASSUME k + 1 <= n PROVE AfterEntries(schema, E, q, k + 1, h[k + 1])
    OBVIOUS
  <2>1. k <= n /\ k \in 0 .. n - 1
    BY <1>1
  <2>2. h[k + 1] = EncodeField(schema, h[k], q[k + 1], E[q[k + 1]])
    BY <1>2, <2>1 DEF Stepwise
  <2>3. AfterEntries(schema, E, q, k, h[k])
    BY <1>4, <2>1
  <2>4. AfterEntries(schema, E, q, k + 1, EncodeField(schema, h[k], q[k + 1], E[q[k + 1]]))
    BY <2>3, OneMoreEntry
  <2> QED BY <2>2, <2>4
<1>5. n \in T
  <2> HIDE DEF T
  <2> QED BY <1>1, <1>3, <1>4, Induction
<1> DEFINE c == h[n]
<1>6. AfterEntries(schema, E, q, n, c)
  BY <1>1, <1>5
<1>7. ConfigureColumnEncoding(schema, E).fields = c
  BY <1>2
<1> HIDE DEF c
<1>8. ASSUME NEW path, NEW key, NEW value, EncodedBy(schema, E, q, n, path, key, value)
      PROVE  Encoded(schema, E, path, key, value)
  <2>1. CASE \E i \in 1 .. n : /\ Target(schema, q[i]) = path /\ Settings(E[q[i]])[key] # ""
                              /\ value = Settings(E[q[i]])[key]
    <3>1. PICK i \in 1 .. n : /\ Target(schema, q[i]) = path /\ Settings(E[q[i]])[key] # ""
                              /\ value = Settings(E[q[i]])[key]
      BY <2>1
    <3>2. q[i] \in DOMAIN E
      BY <1>1
    <3> QED BY <3>1, <3>2, Zenon DEF Encoded
  <2>2. CASE /\ value = schema.fields[path].metadata[key]
             /\ \A i \in 1 .. n : Target(schema, q[i]) = path => Settings(E[q[i]])[key] = ""
    <3>1. ASSUME NEW name \in DOMAIN E, Target(schema, name) = path PROVE Settings(E[name])[key] = ""
      <4>1. PICK i \in 1 .. n : q[i] = name
        BY <1>1
      <4> QED BY <2>2, <3>1, <4>1, Zenon
    <3> QED BY <2>2, <3>1, Zenon DEF Encoded
  <2> QED BY <1>8, <2>1, <2>2, Zenon DEF EncodedBy
<1>9. EncodesAs(schema, E, c)
  BY <1>6, <1>8 DEF AfterEntries, EncodesAs
<1> QED BY <1>7, <1>9
-----------------------------------------------------------------------------
(***************************************************************************)
(* The schema that crosses the C ABI, and the blobs and texts in it.       *)
(***************************************************************************)
\* Every field with its type, what DuckDB's type says of its source, and the
\* expressions by position.
Arrowed(F, expressions, A) ==
  /\ Fields(A) /\ DOMAIN A = DOMAIN F
  /\ \A path \in DOMAIN A :
       /\ A[path].type = F[path].type
       /\ \A key \in MetadataKeys \ {"generated_expression"} :
            A[path].metadata[key] = Exported(F, path)[key]
       /\ \A i \in DOMAIN expressions :
            Column(types.columns[i]) = path => A[path].metadata.generated_expression = expressions[i]
       /\ (\A i \in DOMAIN expressions : Column(types.columns[i]) # path)
            => A[path].metadata.generated_expression = ""

LEMMA ExportedKeys ==
  ASSUME NEW F, NEW path
  PROVE  /\ Exported(F, path) = [key \in MetadataKeys |-> Exported(F, path)[key]]
         /\ \A key \in MetadataKeys \ {"source_type", "storage_policy"} : Exported(F, path)[key] = ""
BY DEF Exported, NoMetadata, MetadataKeys

LEMMA ArrowFields ==
  ASSUME Tabular(types), DOMAIN data.generated_expressions = DOMAIN types.columns
  PROVE  /\ Arrowed(types.fields, data.generated_expressions, ArrowSchema.fields)
         /\ "fields" \in DOMAIN ArrowSchema /\ ArrowSchema.columns = types.columns
<1> DEFINE F == types.fields
           values == data.generated_expressions
           base == ExportSourceMetadata(types)
           A == ArrowSchema.fields
           key0 == "generated_expression"
           Positions(path) == {i \in DOMAIN values : Column(types.columns[i]) = path}
<1>1. /\ base.columns = types.columns /\ DOMAIN base = {"columns", "metadata", "fields"}
      /\ base.fields = [path \in DOMAIN F |-> [type |-> F[path].type, metadata |-> Exported(F, path)]]
  BY DEF ExportSourceMetadata
<1>2. /\ ArrowSchema = [base EXCEPT !.fields = [path \in DOMAIN base.fields |->
            IF Positions(path) = {} THEN base.fields[path]
            ELSE [base.fields[path] EXCEPT !.metadata[key0] = values[CHOOSE i \in Positions(path) : TRUE]]]]
  BY <1>1 DEF ArrowSchema, ExportFieldMetadata
<1> HIDE DEF base
<1>3. /\ ArrowSchema.columns = types.columns /\ "fields" \in DOMAIN ArrowSchema
  BY <1>1, <1>2
<1>4. A = [path \in DOMAIN base.fields |->
            IF Positions(path) = {} THEN base.fields[path]
            ELSE [base.fields[path] EXCEPT !.metadata[key0] = values[CHOOSE i \in Positions(path) : TRUE]]]
  BY <1>1, <1>2
<1>5. DOMAIN base.fields = DOMAIN F
  BY <1>1
<1> HIDE DEF A
<1>6. ASSUME NEW path \in DOMAIN F
      PROVE  /\ Field(A[path]) /\ A[path].type = F[path].type
             /\ \A key \in MetadataKeys \ {key0} : A[path].metadata[key] = Exported(F, path)[key]
             /\ Positions(path) = {} => A[path].metadata[key0] = ""
             /\ Positions(path) # {} => A[path].metadata[key0] = values[CHOOSE i \in Positions(path) : TRUE]
  <2>1. base.fields[path] = [type |-> F[path].type, metadata |-> Exported(F, path)]
    BY <1>1
  <2>2. /\ Exported(F, path) = [key \in MetadataKeys |-> Exported(F, path)[key]]
        /\ key0 \in MetadataKeys /\ Exported(F, path)[key0] = ""
    <3>1. key0 \in MetadataKeys \ {"source_type", "storage_policy"}
      BY DEF MetadataKeys
    <3> HIDE DEF key0, F
    <3>2. Exported(F, path)[key0] = "" /\ key0 \in MetadataKeys
      BY <3>1, ExportedKeys
    <3>3. Exported(F, path) = [key \in MetadataKeys |-> Exported(F, path)[key]]
      BY ExportedKeys
    <3> QED BY <3>2, <3>3
  <2> DEFINE old == Exported(F, path)
  <2> HIDE DEF old
  <2>3. CASE Positions(path) = {}
    <3>1. A[path] = [type |-> F[path].type, metadata |-> old]
      BY <1>4, <1>5, <2>1, <2>3 DEF old
    <3> HIDE DEF Positions, F, key0
    <3>2. A[path].type = F[path].type /\ A[path].metadata = old
      BY <3>1
    <3>3. old = [key \in MetadataKeys |-> old[key]] /\ old[key0] = ""
      BY <2>2 DEF old
    <3>4. Field(A[path])
      BY <3>1, <3>2, <3>3 DEF Field
    <3>5. A[path].metadata[key0] = ""
      BY <3>2, <3>3
    <3>6. \A key \in MetadataKeys \ {key0} : A[path].metadata[key] = Exported(F, path)[key]
      BY <3>2 DEF old
    <3> QED BY <2>3, <3>2, <3>4, <3>5, <3>6
  <2>4. CASE Positions(path) # {}
    <3> DEFINE value == values[CHOOSE i \in Positions(path) : TRUE]
    <3>1. A[path] = [base.fields[path] EXCEPT !.metadata[key0] = value]
      BY <1>4, <1>5, <2>4
    <3> HIDE DEF value, Positions, F
    <3>2. A[path] = [type |-> F[path].type, metadata |-> [old EXCEPT ![key0] = value]]
      BY <2>1, <3>1 DEF old
    <3>3. A[path].type = F[path].type /\ A[path].metadata = [old EXCEPT ![key0] = value]
      BY <3>2
    <3>4. old = [key \in MetadataKeys |-> old[key]] /\ DOMAIN old = MetadataKeys
      BY <2>2 DEF old
    <3>5. /\ A[path].metadata = [key \in MetadataKeys |-> IF key = key0 THEN value ELSE old[key]]
      BY <3>3, <3>4
    <3>6. Field(A[path])
      BY <3>2, <3>3, <3>5 DEF Field
    <3>7. A[path].metadata[key0] = value
      BY <2>2, <3>5
    <3>8. \A key \in MetadataKeys \ {key0} : A[path].metadata[key] = old[key]
      BY <3>5
    <3> QED BY <2>4, <3>3, <3>6, <3>7, <3>8 DEF old, value
  <2> QED BY <2>3, <2>4
<1>7. Fields(A) /\ DOMAIN A = DOMAIN F
  <2>1. A = [path \in DOMAIN A |-> A[path]] /\ DOMAIN A = DOMAIN F
    BY <1>4, <1>5
  <2> QED BY <1>6, <2>1 DEF Fields
<1>8. ASSUME NEW path \in DOMAIN F, NEW i \in DOMAIN values, Column(types.columns[i]) = path
      PROVE  A[path].metadata[key0] = values[i]
  <2>1. \A j \in Positions(path) : j = i
    <3>1. ASSUME NEW j \in DOMAIN values, Column(types.columns[j]) = path PROVE j = i
      <4>1. types.columns[j] = types.columns[i]
        BY <1>8, <3>1, OneLong
      <4> QED BY <4>1, SameNames DEF Tabular, Distinct
    <3> QED BY <3>1
  <2>2. i \in Positions(path)
    BY <1>8
  <2>3. (CHOOSE j \in Positions(path) : TRUE) = i
    <3> HIDE DEF Positions
    <3> QED BY <2>1, <2>2
  <2> QED BY <1>6, <2>2, <2>3
<1>9. ASSUME NEW path \in DOMAIN F, \A i \in DOMAIN values : Column(types.columns[i]) # path
      PROVE  A[path].metadata[key0] = ""
  <2>1. Positions(path) = {}
    BY <1>9
  <2> QED BY <1>6, <2>1
<1>10. \A path \in DOMAIN F : A[path].metadata.generated_expression = A[path].metadata[key0]
  OBVIOUS
<1>11. Arrowed(F, values, A)
  <2> HIDE DEF F, values, key0, Positions
  <2> QED BY <1>6, <1>7, <1>8, <1>9, <1>10 DEF Arrowed, key0
<1> QED BY <1>3, <1>11 DEF A

IsBlobColumn(schema, opts, path) ==
  /\ Len(path) = 1
  /\ \/ path[1] \in ToSet(opts.blob_columns)
     \/ /\ Promotes(opts) /\ schema.fields[path].type = "binary"
        /\ StoragePolicy(schema.fields[path]) # "text"
InDocument(schema, path) ==
  schema.fields[path].type = "binary" /\ Through(schema.fields, {"struct", "list"}, path)
BecomesText(schema, opts, path) ==
  /\ ~IsBlobColumn(schema, opts, path) /\ InDocument(schema, path)
  /\ StoragePolicy(schema.fields[path]) = "text"
BecomesBlob(schema, opts, path) ==
  \/ IsBlobColumn(schema, opts, path)
  \/ InDocument(schema, path) /\ StoragePolicy(schema.fields[path]) = "blob" /\ Promotes(opts)

Blobbed(schema, opts, B) ==
  /\ Fields(B) /\ DOMAIN B = DOMAIN schema.fields
  /\ \A path \in DOMAIN B :
       /\ B[path].type = IF BecomesBlob(schema, opts, path) THEN "blob" ELSE schema.fields[path].type
       /\ \A key \in MetadataKeys :
            B[path].metadata[key] =
              IF /\ BecomesText(schema, opts, path) /\ key = "compression"
                 /\ schema.fields[path].metadata.compression = ""
              THEN "lz4" ELSE schema.fields[path].metadata[key]

LEMMA TextField ==
  ASSUME NEW f, Field(f)
  PROVE  /\ Field(AtifText(f)) /\ AtifText(f).type = f.type
         /\ \A key \in MetadataKeys : AtifText(f).metadata[key] =
              IF key = "compression" /\ f.metadata.compression = "" THEN "lz4" ELSE f.metadata[key]
<1> DEFINE lz4 == [NoMetadata EXCEPT !.compression = "lz4"]
           new == Extend(lz4, f.metadata)
<1>1. AtifText(f) = [f EXCEPT !.metadata = new]
  BY DEF AtifText
<1>2. lz4 = [key \in MetadataKeys |-> IF key = "compression" THEN "lz4" ELSE ""]
  BY DEF NoMetadata
<1>3. new = [key \in MetadataKeys |-> IF f.metadata[key] # "" THEN f.metadata[key] ELSE lz4[key]]
  BY DEF Extend
<1> HIDE DEF lz4, new
<1>4. AtifText(f) = [type |-> f.type, metadata |-> new]
  BY <1>1 DEF Field
<1>5. AtifText(f).type = f.type /\ AtifText(f).metadata = new
  BY <1>4
<1>6. Field(AtifText(f))
  BY <1>3, <1>4, <1>5 DEF Field
<1>7. ASSUME NEW key \in MetadataKeys
      PROVE  new[key] = IF key = "compression" /\ f.metadata.compression = "" THEN "lz4" ELSE f.metadata[key]
  BY <1>2, <1>3
<1> QED BY <1>5, <1>6, <1>7

LEMMA BlobOf ==
  ASSUME NEW f, Field(f)
  PROVE  Field(BlobField(f)) /\ BlobField(f).type = "blob" /\ BlobField(f).metadata = f.metadata
<1>1. BlobField(f) = [type |-> "blob", metadata |-> f.metadata]
  BY DEF BlobField, Field
<1>2. BlobField(f).type = "blob" /\ BlobField(f).metadata = f.metadata
  BY <1>1
<1>3. f.metadata = [key \in MetadataKeys |-> f.metadata[key]]
  BY DEF Field
<1> QED BY <1>1, <1>2, <1>3 DEF Field

LEMMA BlobFields ==
  ASSUME NEW schema, NEW opts, Fields(schema.fields), "fields" \in DOMAIN schema
  PROVE  /\ Blobbed(schema, opts, BlobSchema(schema, opts).fields)
         /\ "fields" \in DOMAIN BlobSchema(schema, opts)
<1> DEFINE B == BlobSchema(schema, opts).fields
<1>1. /\ B = [path \in DOMAIN schema.fields |->
                IF IsBlobColumn(schema, opts, path) THEN BlobField(schema.fields[path])
                ELSE ConfigureField(schema, opts, path)]
      /\ "fields" \in DOMAIN BlobSchema(schema, opts)
  BY DEF BlobSchema, IsBlobColumn
<1> HIDE DEF B
<1>2. ASSUME NEW path \in DOMAIN schema.fields
      PROVE  /\ Field(B[path])
             /\ B[path].type = IF BecomesBlob(schema, opts, path) THEN "blob" ELSE schema.fields[path].type
             /\ \A key \in MetadataKeys :
                  B[path].metadata[key] =
                    IF /\ BecomesText(schema, opts, path) /\ key = "compression"
                       /\ schema.fields[path].metadata.compression = ""
                    THEN "lz4" ELSE schema.fields[path].metadata[key]
  <2> DEFINE f == schema.fields[path]   policy == StoragePolicy(f)
  <2>1. Field(f)
    BY DEF Fields
  <2>2. CASE IsBlobColumn(schema, opts, path)
    <3>1. B[path] = BlobField(f)
      BY <1>1, <2>2
    <3> HIDE DEF f
    <3> QED BY <2>1, <2>2, <3>1, BlobOf DEF BecomesBlob, BecomesText, f
  <2>3. CASE ~IsBlobColumn(schema, opts, path) /\ ~InDocument(schema, path)
    <3>1. B[path] = f
      BY <1>1, <2>3 DEF ConfigureField, InDocument
    <3> QED BY <2>1, <2>3, <3>1 DEF BecomesBlob, BecomesText
  <2>4. CASE ~IsBlobColumn(schema, opts, path) /\ InDocument(schema, path)
    <3>1. B[path] = CASE policy = "text" -> AtifText(f)
                      [] policy = "blob" /\ Promotes(opts) -> BlobField(f)
                      [] OTHER -> f
      BY <1>1, <2>4 DEF ConfigureField, InDocument
    <3>2. /\ BecomesText(schema, opts, path) <=> policy = "text"
          /\ BecomesBlob(schema, opts, path) <=> policy = "blob" /\ Promotes(opts)
      BY <2>4 DEF BecomesText, BecomesBlob
    <3> HIDE DEF f, policy
    <3>3. CASE policy = "text"
      <4>1. B[path] = AtifText(f)
        BY <3>1, <3>3
      <4> QED BY <2>1, <3>2, <3>3, <4>1, TextField DEF f
    <3>4. CASE policy = "blob" /\ Promotes(opts)
      <4>1. B[path] = BlobField(f)
        BY <3>1, <3>4
      <4> QED BY <2>1, <3>2, <3>4, <4>1, BlobOf DEF f
    <3>5. CASE policy # "text" /\ ~(policy = "blob" /\ Promotes(opts))
      <4>1. B[path] = f
        BY <3>1, <3>5
      <4> QED BY <2>1, <3>2, <3>5, <4>1 DEF f
    <3> QED BY <3>3, <3>4, <3>5
  <2> QED BY <2>2, <2>3, <2>4
<1>3. B = [path \in DOMAIN B |-> B[path]] /\ DOMAIN B = DOMAIN schema.fields
  BY <1>1
<1>4. Fields(B)
  BY <1>2, <1>3 DEF Fields
<1> QED BY <1>1, <1>2, <1>3, <1>4 DEF Blobbed, B
-----------------------------------------------------------------------------
(***************************************************************************)
(* The field that a name stands for, in DuckDB and then in Rust.           *)
(***************************************************************************)
Spelled ==
  /\ \A path \in DOMAIN types.fields :
       path \in Seq(Seq(STRING)) /\ path # <<>> /\ Ancestors(path) \subseteq DOMAIN types.fields
  /\ \A p, q \in {path \in DOMAIN types.fields : Len(path) # 1 /\ Dotted(types.fields, path)} :
       SameName(FlattenSeq(p), FlattenSeq(q)) => p = q

LEMMA OnePart ==
  ASSUME NEW path \in Seq(Seq(STRING)), Len(path) = 1
  PROVE  FlattenSeq(path) = path[1] /\ path = Column(path[1]) /\ path[1] \in Seq(STRING)
<1>1. path[1] \in Seq(STRING) /\ path = <<path[1]>>
  OBVIOUS
<1>2. FlattenSeq(<<path[1]>>) = path[1]
  BY <1>1, FlattenOne
<1> QED BY <1>1, <1>2 DEF Column

LEMMA NoAncestors == \A name : Ancestors(Column(name)) = {}
<1> TAKE name
<1>1. Len(Column(name)) = 1
  BY OneLong
<1>2. 1 .. 1 - 1 = {}
  OBVIOUS
<1> QED BY <1>1, <1>2 DEF Ancestors

LEMMA BoundSpelled ==
  ASSUME PlanInv, phase \in Queried
  PROVE  Spelled
<1> DEFINE source == statement.source
           F == types.fields
           names == {c.name : c \in ToSet(generated)}
<1>1. SourceAssumption(source)
  <2>1. statement \in Statements
    BY DEF PlanInv, OptionsInv
  <2> QED BY <2>1, PlanAssumption
<1>2. F = BoundFields
  BY DEF PlanInv, TypesInv
<1>3. DOMAIN F = DOMAIN source.fields \cup {Column(c.name) : c \in ToSet(generated)}
  BY <1>2 DEF BoundFields
<1>4. ASSUME NEW path \in DOMAIN source.fields PROVE F[path].type = source.fields[path].type
  <2>1. path \in DOMAIN F
    BY <1>3
  <2>2. F[path] = [type |-> source.fields[path].type, properties |-> ImportSourceMetadata(source)[path]]
    BY <1>2, <1>3, <2>1 DEF BoundFields
  <2> QED BY <2>2
<1>5. \A c \in ToSet(generated) : c.name \in Seq(STRING)
  <2>1. generated = Asked("generated_columns") /\ statement \in Statements
    BY DEF PlanInv, OptionsInv, GeneratedInv, Queried
  <2>2. CASE "generated_columns" \in DOMAIN statement.options
    <3>1. OptionAssumption("generated_columns", generated)
      BY <2>1, <2>2, PlanAssumption DEF Asked
    <3> QED BY <3>1 DEF OptionAssumption
  <2>3. CASE "generated_columns" \notin DOMAIN statement.options
    <3>1. generated = <<>>
      BY <2>1, <2>3 DEF Asked
    <3> QED BY <3>1, SequenceElements
  <2> QED BY <2>2, <2>3
<1> HIDE DEF F, source
<1>6. ASSUME NEW path \in DOMAIN source.fields
      PROVE  /\ path \in Seq(Seq(STRING)) /\ path # <<>> /\ Ancestors(path) \subseteq DOMAIN source.fields
  BY <1>1 DEF SourceAssumption
<1>7. ASSUME NEW c \in ToSet(generated)
      PROVE  Column(c.name) \in Seq(Seq(STRING)) /\ Column(c.name) # <<>> /\ Ancestors(Column(c.name)) = {}
  <2>1. c.name \in Seq(STRING)
    BY <1>5
  <2>2. <<c.name>> \in Seq(Seq(STRING)) /\ <<c.name>> # <<>>
    BY <2>1
  <2> QED BY <2>2, NoAncestors DEF Column
<1>8. \A path \in DOMAIN F :
        path \in Seq(Seq(STRING)) /\ path # <<>> /\ Ancestors(path) \subseteq DOMAIN F
  BY <1>3, <1>6, <1>7
<1>9. ASSUME NEW p \in DOMAIN F, Len(p) # 1, Dotted(F, p)
      PROVE  p \in DOMAIN source.fields /\ Dotted(source.fields, p)
  <2>1. p \in DOMAIN source.fields
    BY <1>3, <1>9, OneLong
  <2>2. \A q \in Ancestors(p) : F[q].type = source.fields[q].type
    BY <1>4, <1>6, <2>1
  <2> QED BY <1>9, <2>1, <2>2 DEF Dotted, Through
<1>10. ASSUME NEW p \in DOMAIN F, NEW q \in DOMAIN F, Len(p) # 1, Dotted(F, p), Len(q) # 1, Dotted(F, q),
              SameName(FlattenSeq(p), FlattenSeq(q))
       PROVE  p = q
  <2>1. /\ p \in {path \in DOMAIN source.fields : Dotted(source.fields, path)}
        /\ q \in {path \in DOMAIN source.fields : Dotted(source.fields, path)}
    BY <1>9, <1>10
  <2> QED BY <1>1, <1>10, <2>1 DEF SourceAssumption
<1> QED BY <1>8, <1>10 DEF Spelled, F

\* The field p is what the name stands for, when it stands for one.
Spellings(a) == {name \in {FlattenSeq(path) : path \in DOMAIN types.fields} : SameName(name, a)}
Exact(a)     == {path \in DOMAIN types.fields : Len(path) = 1 /\ path[1] \in Spellings(a)}
StandsFor(a, p) ==
  /\ FieldOf(a) = {p} /\ p \in DOMAIN types.fields
  /\ ResolveEncodingColumn(a) = FlattenSeq(p) /\ SameName(FlattenSeq(p), a)
  /\ Len(p) = 1 \/ (Len(p) # 1 /\ Dotted(types.fields, p) /\ Exact(a) = {})

LEMMA FieldOfIs ==
  \A a : FieldOf(a) = IF Exact(a) # {} THEN Exact(a)
                      ELSE {path \in DOMAIN types.fields : Dotted(types.fields, path) /\ FlattenSeq(path) \in Spellings(a)}
BY DEF FieldOf, Named, Exact, Spellings

LEMMA OneField ==
  ASSUME Tabular(types), Spelled, NEW a, FieldOf(a) # {}
  PROVE  \E p : StandsFor(a, p)
<1> DEFINE F == types.fields
<1>1. PICK p : p \in FieldOf(a)
  OBVIOUS
<1>2. p \in DOMAIN F
  BY <1>1, FieldOfIs DEF Exact
<1>3. \A path \in DOMAIN F : Len(path) = 1 => FlattenSeq(path) = path[1] /\ path = Column(path[1])
  BY OnePart DEF Spelled
<1>4. SameName(FlattenSeq(p), a)
  <2>1. CASE Exact(a) # {}
    <3>1. Len(p) = 1 /\ p[1] \in Spellings(a)
      BY <1>1, <2>1, FieldOfIs DEF Exact
    <3> QED BY <1>2, <1>3, <3>1 DEF Spellings
  <2>2. CASE Exact(a) = {}
    BY <1>1, <2>2, FieldOfIs DEF Spellings
  <2> QED BY <2>1, <2>2
<1>5. \A path \in DOMAIN F : Len(path) = 1 /\ SameName(FlattenSeq(path), a) => path \in Exact(a)
  BY <1>3 DEF Exact, Spellings
<1>6. CASE Exact(a) # {}
  <2>1. FieldOf(a) = Exact(a) /\ Len(p) = 1
    BY <1>1, <1>6, FieldOfIs DEF Exact
  <2>2. ASSUME NEW q \in Exact(a) PROVE q = p
    <3>1. q \in DOMAIN F /\ Len(q) = 1 /\ SameName(q[1], a)
      BY <2>2 DEF Exact, Spellings
    <3>2. SameName(p[1], a)
      BY <1>2, <1>3, <1>4, <2>1
    <3>3. SameName(q[1], p[1])
      BY <3>1, <3>2, SameNames
    <3>4. PICK x \in ToSet(types.columns) : p = Column(x)
      BY <1>2, <2>1 DEF Tabular
    <3>5. PICK y \in ToSet(types.columns) : q = Column(y)
      BY <3>1 DEF Tabular
    <3>6. SameName(y, x)
      BY <3>3, <3>4, <3>5, OneLong
    <3>7. x = y
      <4>1. \A i, j \in DOMAIN types.columns : SameName(types.columns[i], types.columns[j]) => i = j
        BY DEF Tabular, Distinct
      <4>2. \E i \in DOMAIN types.columns : types.columns[i] = x
        BY <3>4 DEF ToSet
      <4>3. \E i \in DOMAIN types.columns : types.columns[i] = y
        BY <3>5 DEF ToSet
      <4> QED BY <3>6, <4>1, <4>2, <4>3
    <3> QED BY <3>4, <3>5, <3>7
  <2>3. FieldOf(a) = {p}
    BY <1>1, <2>1, <2>2
  <2>4. ResolveEncodingColumn(a) = FlattenSeq(p)
    BY <2>3 DEF ResolveEncodingColumn
  <2> QED BY <1>2, <1>4, <2>1, <2>3, <2>4 DEF StandsFor
<1>7. CASE Exact(a) = {}
  <2>1. FieldOf(a) = {path \in DOMAIN F : Dotted(F, path) /\ FlattenSeq(path) \in Spellings(a)}
    BY <1>7, FieldOfIs
  <2>2. ASSUME NEW q \in FieldOf(a) PROVE q \in DOMAIN F /\ Dotted(F, q) /\ SameName(FlattenSeq(q), a) /\ Len(q) # 1
    <3>1. q \in DOMAIN F /\ Dotted(F, q) /\ SameName(FlattenSeq(q), a)
      BY <2>1, <2>2 DEF Spellings
    <3> QED BY <1>5, <1>7, <3>1
  <2>3. ASSUME NEW q \in FieldOf(a) PROVE q = p
    <3>1. SameName(FlattenSeq(q), FlattenSeq(p))
      BY <1>1, <2>2, <2>3, SameNames
    <3> QED BY <1>1, <2>2, <2>3, <3>1 DEF Spelled
  <2>4. FieldOf(a) = {p}
    BY <1>1, <2>3
  <2>5. ResolveEncodingColumn(a) = FlattenSeq(p)
    BY <2>4 DEF ResolveEncodingColumn
  <2> QED BY <1>1, <1>2, <1>4, <1>7, <2>2, <2>4, <2>5 DEF StandsFor
<1> QED BY <1>6, <1>7

\* Names that differ in case stand for the same field, under one name.
LEMMA SameField ==
  ASSUME Tabular(types), Spelled, NEW a, NEW b, FieldOf(a) # {}, FieldOf(b) # {},
         SameName(ResolveEncodingColumn(a), ResolveEncodingColumn(b))
  PROVE  FieldOf(a) = FieldOf(b) /\ ResolveEncodingColumn(a) = ResolveEncodingColumn(b)
<1>1. PICK p : StandsFor(a, p)
  BY OneField
<1>2. PICK q : StandsFor(b, q)
  BY OneField
<1>3. SameName(a, b)
  BY <1>1, <1>2, SameNames DEF StandsFor
<1>4. \A name : SameName(name, a) <=> SameName(name, b)
  BY <1>3, SameNames
<1>5. Spellings(a) = Spellings(b)
  BY <1>4 DEF Spellings
<1>6. Exact(a) = Exact(b)
  BY <1>5 DEF Exact
<1>7. FieldOf(a) = FieldOf(b)
  BY <1>5, <1>6, FieldOfIs
<1> QED BY <1>7 DEF ResolveEncodingColumn

\* A column of that name is the field.
LEMMA ColumnFirst ==
  ASSUME Tabular(types), Spelled, NEW a, NEW p, StandsFor(a, p),
         Column(ResolveEncodingColumn(a)) \in DOMAIN types.fields
  PROVE  Len(p) = 1
<1> DEFINE c == Column(ResolveEncodingColumn(a))
<1>1. c \in DOMAIN types.fields /\ Len(c) = 1 /\ c[1] = FlattenSeq(p)
  BY OneLong DEF StandsFor
<1>2. c[1] \in Spellings(a)
  BY <1>1 DEF StandsFor, Spellings
<1>3. c \in Exact(a)
  BY <1>1, <1>2 DEF Exact
<1> QED BY <1>3 DEF StandsFor

\* The Rust sink finds the same field by the exact name.
LEMMA TargetOf ==
  ASSUME Tabular(types), Spelled, NEW a, NEW p, StandsFor(a, p), NEW schema,
         DOMAIN schema.fields = DOMAIN types.fields,
         \A path \in DOMAIN types.fields : Dotted(schema.fields, path) <=> Dotted(types.fields, path)
  PROVE  EncodingTarget(schema, FlattenSeq(p)) = {p}
<1> DEFINE D == DOMAIN types.fields
           n == FlattenSeq(p)
           exact == {path \in D : Len(path) = 1 /\ path[1] \in {n}}
<1>1. EncodingTarget(schema, n) =
        IF exact # {} THEN exact
        ELSE {path \in D : Dotted(schema.fields, path) /\ FlattenSeq(path) \in {n}}
  BY DEF EncodingTarget, Named
<1>2. \A path \in D : Len(path) = 1 => FlattenSeq(path) = path[1] /\ path = Column(path[1])
  BY OnePart DEF Spelled
<1>3. p \in D
  BY DEF StandsFor
<1>4. CASE Len(p) = 1
  <2>1. p \in exact
    BY <1>2, <1>3, <1>4
  <2>2. ASSUME NEW path \in exact PROVE path = p
    <3>1. path = Column(n) /\ p = Column(n)
      BY <1>2, <1>3, <1>4, <2>2
    <3> QED BY <3>1
  <2>3. exact = {p}
    <3> HIDE DEF exact
    <3> QED BY <2>1, <2>2
  <2> HIDE DEF exact
  <2> QED BY <1>1, <2>3
<1>5. CASE Len(p) # 1
  <2>1. Dotted(types.fields, p) /\ Exact(a) = {}
    BY <1>5 DEF StandsFor
  <2>2. exact = {}
    <3> SUFFICES ASSUME NEW path \in D, Len(path) = 1, path[1] = n PROVE FALSE
      OBVIOUS
    <3>1. path[1] \in Spellings(a)
      BY <1>3 DEF Spellings, StandsFor
    <3> QED BY <2>1, <3>1 DEF Exact
  <2>3. EncodingTarget(schema, n) = {path \in D : Dotted(schema.fields, path) /\ FlattenSeq(path) = n}
    BY <1>1, <2>2
  <2>4. ASSUME NEW path \in D, Dotted(schema.fields, path), FlattenSeq(path) = n PROVE path = p
    <3>1. Len(path) # 1
      BY <1>2, <2>2, <2>4
    <3>2. Dotted(types.fields, path) /\ SameName(FlattenSeq(path), FlattenSeq(p))
      BY <2>4, SameNames
    <3> QED BY <1>3, <1>5, <2>1, <3>1, <3>2 DEF Spelled
  <2>5. Dotted(schema.fields, p)
    BY <1>3, <2>1
  <2> QED BY <1>3, <2>3, <2>4, <2>5
<1> QED BY <1>4, <1>5
-----------------------------------------------------------------------------
(***************************************************************************)
(* The entries that the settings make: one for each field, whatever the    *)
(* options it is named in and their order.                                 *)
(***************************************************************************)
SettingKeys == {"compression", "compression_level", "structural_encoding"}
EntryKeys   == SettingKeys \cup {"column"}
Entry(e)    == e = [key \in EntryKeys |-> e[key]]
NewEntry(column) == [column |-> column, compression |-> "", compression_level |-> "",
                     structural_encoding |-> ""]
ColumnOf(d) == ResolveEncodingColumn(d[2].column)

\* The entries hold the settings of D, pairs of a key and an entry of an option.
Kept(encodings, D) ==
  /\ encodings \in Seq(ToSet(encodings)) /\ \A i \in DOMAIN encodings : Entry(encodings[i])
  /\ \A i, j \in DOMAIN encodings : SameName(encodings[i].column, encodings[j].column) => i = j
  /\ \A d \in D : \E i \in DOMAIN encodings :
       encodings[i].column = ColumnOf(d) /\ encodings[i][d[1]] = d[2].value
  /\ \A i \in DOMAIN encodings : \A key \in SettingKeys :
       encodings[i][key] # "" =>
         \E d \in D : d[1] = key /\ ColumnOf(d) = encodings[i].column /\ d[2].value = encodings[i][key]
Recorded(encodings, D) ==
  /\ Kept(encodings, D)
  /\ \A i \in DOMAIN encodings : \E d \in D : encodings[i].column = ColumnOf(d)
Found(encodings, D, column) ==
  /\ Kept(encodings, D)
  /\ \A i \in DOMAIN encodings : encodings[i].column = column \/ \E d \in D : encodings[i].column = ColumnOf(d)
  /\ \E i \in DOMAIN encodings : encodings[i].column = column
  /\ \A i \in DOMAIN encodings : SameName(encodings[i].column, column) => encodings[i].column = column

\* A setting an entry holds was made for its column.
HasSetting(e, key) == e[key] # ""
LEMMA KeptFrom ==
  ASSUME NEW q, NEW D, Kept(q, D), NEW i \in DOMAIN q, NEW key \in SettingKeys, HasSetting(q[i], key)
  PROVE  \E d \in D : d[1] = key /\ ColumnOf(d) = q[i].column
BY DEF Kept, HasSetting

LEMMA NewEntryIs ==
  \A column : /\ Entry(NewEntry(column)) /\ NewEntry(column).column = column
              /\ \A key \in SettingKeys : NewEntry(column)[key] = ""
<1> TAKE column
<1> DEFINE e == NewEntry(column)
<1>1. DOMAIN e = EntryKeys
  BY DEF NewEntry, EntryKeys, SettingKeys
<1>2. e["column"] = column /\ e["compression"] = "" /\ e["compression_level"] = "" /\ e["structural_encoding"] = ""
  BY DEF NewEntry
<1>3. e = [key \in DOMAIN e |-> e[key]]
  BY DEF NewEntry
<1> HIDE DEF e
<1>4. \A key \in SettingKeys : e[key] = ""
  BY <1>2 DEF SettingKeys
<1> QED BY <1>1, <1>2, <1>3, <1>4 DEF Entry, e

LEMMA Appended ==
  ASSUME NEW q, q \in Seq(ToSet(q)), NEW e
  PROVE  /\ Append(q, e) \in Seq(ToSet(Append(q, e)))
         /\ Len(q) \in Nat /\ DOMAIN q = 1 .. Len(q) /\ DOMAIN Append(q, e) = 1 .. Len(q) + 1
         /\ \A i \in 1 .. Len(q) : i \in DOMAIN Append(q, e) /\ Append(q, e)[i] = q[i]
         /\ Append(q, e)[Len(q) + 1] = e
<1> DEFINE S == ToSet(q) \cup {e}   r == Append(q, e)
<1>1. q \in Seq(S)
  <2>1. \A T : \A p \in Seq(T) : \A U : T \subseteq U => p \in Seq(U)
    OBVIOUS
  <2> QED BY <2>1
<1>2. e \in S
  OBVIOUS
<1> HIDE DEF S
<1>3. /\ Len(q) \in Nat /\ DOMAIN q = 1 .. Len(q) /\ DOMAIN r = 1 .. Len(q) + 1 /\ r \in Seq(S)
      /\ \A i \in 1 .. Len(q) : r[i] = q[i]
  BY <1>1, <1>2
<1>4. r[Len(q) + 1] = e
  BY <1>1, <1>2
<1>5. \A i \in 1 .. Len(q) : i \in 1 .. Len(q) + 1
  BY <1>3
<1>6. r \in Seq(ToSet(r))
  BY <1>3, SequenceElements
<1> QED BY <1>3, <1>4, <1>5, <1>6

LEMMA EntryFound ==
  ASSUME NEW encodings, NEW D, Recorded(encodings, D), NEW column,
         \A d \in D : SameName(ColumnOf(d), column) => ColumnOf(d) = column
  PROVE  Found(FindOrAddColumnEncoding(encodings, column), D, column)
<1>1. CASE \E i \in DOMAIN encodings : SameName(encodings[i].column, column)
  <2>1. FindOrAddColumnEncoding(encodings, column) = encodings
    BY <1>1 DEF FindOrAddColumnEncoding
  <2>2. \A i \in DOMAIN encodings : SameName(encodings[i].column, column) => encodings[i].column = column
    BY DEF Recorded
  <2> QED BY <1>1, <2>1, <2>2 DEF Found, Recorded
<1>2. CASE ~\E i \in DOMAIN encodings : SameName(encodings[i].column, column)
  <2> DEFINE e == NewEntry(column)   r == Append(encodings, e)   n == Len(encodings)
  <2>1. FindOrAddColumnEncoding(encodings, column) = r
    BY <1>2 DEF FindOrAddColumnEncoding, NewEntry
  <2>2. Entry(e) /\ e.column = column /\ \A key \in SettingKeys : e[key] = ""
    BY NewEntryIs
  <2>3. encodings \in Seq(ToSet(encodings)) /\ Kept(encodings, D)
    BY DEF Recorded, Kept
  <2> HIDE DEF e
  <2>4. /\ r \in Seq(ToSet(r)) /\ n \in Nat /\ DOMAIN encodings = 1 .. n /\ DOMAIN r = 1 .. n + 1
        /\ \A i \in 1 .. n : i \in DOMAIN r /\ r[i] = encodings[i]
        /\ r[n + 1] = e
    BY <2>3, Appended
  <2> HIDE DEF r, n
  <2>5. \A i \in DOMAIN r : (i \in DOMAIN encodings /\ r[i] = encodings[i]) \/ (i = n + 1 /\ r[i] = e)
    BY <2>4
  <2>6. \A i \in DOMAIN encodings : i \in DOMAIN r /\ r[i] = encodings[i]
    BY <2>4
  <2>7. \A i, j \in DOMAIN r : SameName(r[i].column, r[j].column) => i = j
    <3>1. \A i \in DOMAIN encodings : ~SameName(encodings[i].column, column) /\ ~SameName(column, encodings[i].column)
      BY <1>2, SameNames
    <3>2. \A i, j \in DOMAIN encodings : SameName(encodings[i].column, encodings[j].column) => i = j
      BY <2>3 DEF Kept
    <3> SUFFICES ASSUME NEW i \in DOMAIN r, NEW j \in DOMAIN r, SameName(r[i].column, r[j].column) PROVE i = j
      OBVIOUS
    <3>3. CASE i \in DOMAIN encodings /\ j \in DOMAIN encodings
      BY <2>6, <3>2, <3>3
    <3>4. CASE i \in DOMAIN encodings /\ j \notin DOMAIN encodings
      <4>1. r[i] = encodings[i] /\ r[j] = e
        BY <2>5, <2>6, <3>4
      <4> QED BY <2>2, <3>1, <3>4, <4>1
    <3>5. CASE i \notin DOMAIN encodings /\ j \in DOMAIN encodings
      <4>1. r[j] = encodings[j] /\ r[i] = e
        BY <2>5, <2>6, <3>5
      <4> QED BY <2>2, <3>1, <3>5, <4>1
    <3>6. CASE i \notin DOMAIN encodings /\ j \notin DOMAIN encodings
      BY <2>5, <3>6
    <3> QED BY <3>3, <3>4, <3>5, <3>6
  <2>8. \A i \in DOMAIN r : Entry(r[i])
    BY <2>2, <2>3, <2>5 DEF Kept
  <2>9. ASSUME NEW d \in D PROVE \E i \in DOMAIN r : r[i].column = ColumnOf(d) /\ r[i][d[1]] = d[2].value
    <3>1. PICK i \in DOMAIN encodings : encodings[i].column = ColumnOf(d) /\ encodings[i][d[1]] = d[2].value
      BY <2>3 DEF Kept
    <3>2. i \in DOMAIN r /\ r[i] = encodings[i]
      BY <2>6
    <3> QED BY <3>1, <3>2
  <2>10. ASSUME NEW i \in DOMAIN r, NEW key \in SettingKeys, r[i][key] # ""
         PROVE  \E d \in D : d[1] = key /\ ColumnOf(d) = r[i].column /\ d[2].value = r[i][key]
    <3>1. i \in DOMAIN encodings /\ r[i] = encodings[i]
      <4>1. CASE i = n + 1 /\ r[i] = e
        <5>1. r[i][key] = ""
          BY <2>2, <4>1
        <5> QED BY <2>10, <5>1
      <4> QED BY <2>5, <4>1
    <3>2. \E d \in D : d[1] = key /\ ColumnOf(d) = encodings[i].column /\ d[2].value = encodings[i][key]
      <4>1. encodings[i][key] # ""
        BY <2>10, <3>1
      <4>2. \A k \in SettingKeys : encodings[i][k] # "" =>
              \E d \in D : d[1] = k /\ ColumnOf(d) = encodings[i].column /\ d[2].value = encodings[i][k]
        BY <2>3, <3>1 DEF Kept
      <4> QED BY <4>1, <4>2
    <3> QED BY <3>1, <3>2
  <2>11. Kept(r, D)
    BY <2>4, <2>7, <2>8, <2>9, <2>10 DEF Kept
  <2>12. \A i \in DOMAIN r : r[i].column = column \/ \E d \in D : r[i].column = ColumnOf(d)
    BY <2>2, <2>5 DEF Recorded
  <2>13. n + 1 \in DOMAIN r /\ r[n + 1].column = column
    <3>1. n + 1 \in DOMAIN r
      BY <2>4
    <3>2. r[n + 1] = e
      BY <2>4
    <3> QED BY <2>2, <3>1, <3>2
  <2>14. \A i \in DOMAIN r : SameName(r[i].column, column) => r[i].column = column
    BY <1>2, <2>2, <2>5
  <2> QED BY <2>1, <2>11, <2>12, <2>13, <2>14 DEF Found
<1> QED BY <1>1, <1>2

LEMMA EntrySet ==
  ASSUME NEW e, Entry(e), NEW key \in SettingKeys, NEW value
  PROVE  LET new == [e EXCEPT ![key] = value] IN
           /\ Entry(new) /\ new.column = e.column /\ new[key] = value
           /\ \A k \in SettingKeys : k # key => new[k] = e[k]
<1> DEFINE new == [e EXCEPT ![key] = value]
<1>1. DOMAIN e = EntryKeys /\ key \in EntryKeys /\ key # "column" /\ "column" \in EntryKeys
  BY DEF Entry, EntryKeys, SettingKeys
<1>2. new = [k \in EntryKeys |-> IF k = key THEN value ELSE e[k]]
  BY <1>1
<1>3. \A k \in SettingKeys : k \in EntryKeys
  BY DEF EntryKeys
<1> HIDE DEF new
<1>4. Entry(new)
  BY <1>2 DEF Entry
<1>5. new["column"] = e["column"]
  BY <1>1, <1>2
<1> QED BY <1>1, <1>2, <1>3, <1>4, <1>5 DEF new

LEMMA EntryApplied ==
  ASSUME NEW all, NEW D, NEW column, Found(all, D, column), NEW key \in SettingKeys, NEW e,
         column = ResolveEncodingColumn(e.column),
         \A d \in D : ColumnOf(d) = column => d[1] # key,
         \A d \in D : d[1] \in SettingKeys
  PROVE  Recorded([i \in DOMAIN all |->
                     IF SameName(all[i].column, column) THEN [all[i] EXCEPT ![key] = e.value] ELSE all[i]],
                  D \cup {<<key, e>>})
<1> DEFINE new == [i \in DOMAIN all |->
                     IF SameName(all[i].column, column) THEN [all[i] EXCEPT ![key] = e.value] ELSE all[i]]
           d0 == <<key, e>>
           more == D \cup {d0}
<1>1. Kept(all, D)
  BY DEF Found
<1>2. all \in Seq(ToSet(all)) /\ \A i \in DOMAIN all : Entry(all[i])
  BY <1>1 DEF Kept
<1>3. DOMAIN new = DOMAIN all /\ DOMAIN all = 1 .. Len(all) /\ Len(all) \in Nat
  BY <1>2
<1>4. \A i \in DOMAIN all :
        /\ SameName(all[i].column, column) => new[i] = [all[i] EXCEPT ![key] = e.value]
        /\ ~SameName(all[i].column, column) => new[i] = all[i]
  OBVIOUS
<1>5. new \in Seq(ToSet(new))
  <2>1. \A n \in Nat : \A q, S : q = [i \in 1 .. n |-> q[i]] /\ (\A i \in 1 .. n : q[i] \in S) => q \in Seq(S)
    OBVIOUS
  <2>2. new = [i \in 1 .. Len(all) |-> new[i]]
    BY <1>3
  <2> HIDE DEF new
  <2>3. \A i \in 1 .. Len(all) : new[i] \in ToSet(new)
    BY <1>3 DEF ToSet
  <2> QED BY <1>3, <2>1, <2>2, <2>3
<1> HIDE DEF new
<1>6. ASSUME NEW i \in DOMAIN all
      PROVE  /\ Entry(new[i]) /\ new[i].column = all[i].column
             /\ \A k \in SettingKeys :
                  new[i][k] = IF k = key /\ SameName(all[i].column, column) THEN e.value ELSE all[i][k]
  <2>1. CASE SameName(all[i].column, column)
    <3> DEFINE was == all[i]   now == [was EXCEPT ![key] = e.value]
    <3>1. Entry(was) /\ new[i] = now
      BY <1>2, <1>4, <2>1
    <3> HIDE DEF was
    <3>2. /\ Entry(now) /\ now.column = was.column /\ now[key] = e.value
          /\ \A k \in SettingKeys : k # key => now[k] = was[k]
      BY <3>1, EntrySet
    <3> HIDE DEF now
    <3>3. \A k \in SettingKeys :
            now[k] = IF k = key /\ SameName(was.column, column) THEN e.value ELSE was[k]
      BY <2>1, <3>2 DEF was
    <3> QED BY <3>1, <3>2, <3>3 DEF was
  <2>2. CASE ~SameName(all[i].column, column)
    BY <1>2, <1>4, <2>2
  <2> QED BY <2>1, <2>2
<1>7. \A i, j \in DOMAIN new : SameName(new[i].column, new[j].column) => i = j
  BY <1>1, <1>3, <1>6 DEF Kept
<1>8. ASSUME NEW d \in more
      PROVE  \E i \in DOMAIN new : new[i].column = ColumnOf(d) /\ new[i][d[1]] = d[2].value
  <2>1. CASE d \in D
    <3>1. PICK i \in DOMAIN all : all[i].column = ColumnOf(d) /\ all[i][d[1]] = d[2].value
      BY <1>1, <2>1 DEF Kept
    <3>2. SameName(all[i].column, column) => all[i].column = column
      BY DEF Found
    <3>3. ~(d[1] = key /\ SameName(all[i].column, column))
      BY <2>1, <3>1, <3>2
    <3>4. new[i].column = ColumnOf(d) /\ new[i][d[1]] = d[2].value
      BY <1>6, <2>1, <3>1, <3>3
    <3> QED BY <1>3, <3>4
  <2>2. CASE d = d0
    <3>1. d[1] = key /\ d[2] = e /\ ColumnOf(d) = column
      BY <2>2 DEF ColumnOf
    <3>2. PICK i \in DOMAIN all : all[i].column = column
      BY DEF Found
    <3>3. SameName(all[i].column, column)
      BY <3>2, SameNames
    <3>4. new[i].column = ColumnOf(d) /\ new[i][d[1]] = d[2].value
      BY <1>6, <3>1, <3>2, <3>3
    <3> QED BY <1>3, <3>4
  <2> QED BY <2>1, <2>2
<1>9. d0 \in more /\ d0[1] = key /\ d0[2].value = e.value /\ ColumnOf(d0) = column
  BY DEF ColumnOf
<1>10. ASSUME NEW i \in DOMAIN new, NEW k \in SettingKeys, new[i][k] # ""
       PROVE  \E d \in more : d[1] = k /\ ColumnOf(d) = new[i].column /\ d[2].value = new[i][k]
  <2>1. CASE k = key /\ SameName(all[i].column, column)
    <3>1. new[i].column = column /\ new[i][k] = e.value
      BY <1>3, <1>6, <2>1 DEF Found
    <3> HIDE DEF d0, more
    <3> QED BY <1>9, <2>1, <3>1
  <2>2. CASE ~(k = key /\ SameName(all[i].column, column))
    <3>1. new[i][k] = all[i][k] /\ new[i].column = all[i].column
      BY <1>3, <1>6, <2>2
    <3>2. \E d \in D : d[1] = k /\ ColumnOf(d) = all[i].column /\ d[2].value = all[i][k]
      BY <1>1, <1>3, <1>10, <3>1 DEF Kept
    <3> QED BY <3>1, <3>2
  <2> QED BY <2>1, <2>2
<1>11. \A i \in DOMAIN new : \E d \in more : new[i].column = ColumnOf(d)
  <2> SUFFICES ASSUME NEW i \in DOMAIN all PROVE \E d \in more : all[i].column = ColumnOf(d)
    BY <1>3, <1>6
  <2>1. all[i].column = column \/ \E d \in D : all[i].column = ColumnOf(d)
    BY DEF Found
  <2> HIDE DEF d0
  <2> QED BY <1>9, <2>1
<1>12. Kept(new, more)
  <2> HIDE DEF more
  <2> QED BY <1>3, <1>5, <1>6, <1>7, <1>8, <1>10 DEF Kept
<1> HIDE DEF more
<1>13. Recorded(new, more)
  BY <1>11, <1>12 DEF Recorded
<1> QED BY <1>13 DEF new, more

\* Values of entries, closed under the settings of one option.
Values(encodings, entries) ==
  {encodings[p[1]][p[2]] : p \in (DOMAIN encodings) \X EntryKeys} \cup {""}
    \cup {e.value : e \in ToSet(entries)} \cup {ResolveEncodingColumn(e.column) : e \in ToSet(entries)}
EntriesOf(W) == Seq([EntryKeys -> W])

LEMMA SeqFrom == \A n \in Nat : \A q, S : q = [i \in 1 .. n |-> q[i]] /\ (\A i \in 1 .. n : q[i] \in S) => q \in Seq(S)
OBVIOUS

LEMMA SeqParts ==
  \A S : \A q \in Seq(S) : /\ DOMAIN q = 1 .. Len(q) /\ Len(q) \in Nat /\ \A i \in DOMAIN q : q[i] \in S
                          /\ \A x \in S : Append(q, x) \in Seq(S)
OBVIOUS

LEMMA AppliedWithin ==
  ASSUME NEW W, "" \in W, NEW c \in EntriesOf(W), NEW key \in SettingKeys, NEW e,
         e.value \in W, ResolveEncodingColumn(e.column) \in W
  PROVE  ApplySetting(c, key, e) \in EntriesOf(W)
<1> DEFINE column == ResolveEncodingColumn(e.column)
           all == FindOrAddColumnEncoding(c, column)
           new == [i \in DOMAIN all |->
                     IF SameName(all[i].column, column) THEN [all[i] EXCEPT ![key] = e.value] ELSE all[i]]
<1>1. all \in EntriesOf(W)
  <2>1. NewEntry(column) \in [EntryKeys -> W]
    <3> DEFINE r == NewEntry(column)
    <3>1. Entry(r) /\ r["column"] = column /\ \A k \in SettingKeys : r[k] = ""
      BY NewEntryIs
    <3> HIDE DEF r, column
    <3>2. \A k \in EntryKeys : r[k] \in W
      <4>1. column \in W
        BY DEF column
      <4> QED BY <3>1, <4>1 DEF EntryKeys
    <3>3. r = [k \in EntryKeys |-> r[k]]
      BY <3>1 DEF Entry
    <3>4. r \in [EntryKeys -> W]
      BY <3>2, <3>3
    <3> QED BY <3>4 DEF r
  <2>2. all = c \/ all = Append(c, NewEntry(column))
    BY DEF FindOrAddColumnEncoding, NewEntry
  <2> HIDE DEF all, column, new
  <2> DEFINE S == [EntryKeys -> W]   r == NewEntry(column)
  <2>3. c \in Seq(S) /\ r \in S
    BY <2>1 DEF EntriesOf
  <2> HIDE DEF S, r
  <2>4. Append(c, r) \in Seq(S)
    BY <2>3, SeqParts
  <2>5. all \in Seq(S)
    BY <2>2, <2>3, <2>4 DEF r
  <2> QED BY <2>5 DEF EntriesOf, S
<1> HIDE DEF all
<1>2. DOMAIN all = 1 .. Len(all) /\ Len(all) \in Nat /\ \A i \in DOMAIN all : all[i] \in [EntryKeys -> W]
  <2> HIDE DEF column, new
  <2> QED BY <1>1, SeqParts DEF EntriesOf
<1>3. key \in EntryKeys
  BY DEF EntryKeys
<1>4. \A i \in 1 .. Len(all) : new[i] \in [EntryKeys -> W]
  BY <1>2, <1>3
<1>5. new = [i \in 1 .. Len(all) |-> new[i]]
  BY <1>2
<1>7. ApplySetting(c, key, e) = new
  BY DEF ApplySetting, all
<1> HIDE DEF new
<1> QED BY <1>2, <1>4, <1>5, <1>7, SeqFrom DEF EntriesOf

AppliedStepwise(enc, key, entries, h) ==
  /\ h[0] = enc
  /\ \A k \in 0 .. Len(entries) - 1 : h[k + 1] = ApplySetting(h[k], key, entries[k + 1])

LEMMA SettingsFold ==
  ASSUME NEW option \in DOMAIN SettingOf, NEW enc, enc \in Seq(ToSet(enc)), \A i \in DOMAIN enc : Entry(enc[i]),
         NEW entries, entries \in Seq(ToSet(entries))
  PROVE  \E h : /\ AppliedStepwise(enc, SettingOf[option], entries, h)
                /\ FoldLeft(LAMBDA encodings, e : ApplySetting(encodings, SettingOf[option], e), enc, entries)
                     = h[Len(entries)]
<1> DEFINE n == Len(entries)
           key == SettingOf[option]
           W == Values(enc, entries)
           V == EntriesOf(W)
           Op(i, c) == ApplySetting(c, key, entries[i])
           F == [p \in (1 .. n) \X V |-> Op(p[1], p[2])]
           Body(g, s) == IF s = {} THEN enc ELSE Op(Max(s), g[s \ {Max(s)}])
           g == CHOOSE iter : iter = [s \in SUBSET DOMAIN entries |-> Body(iter, s)]
<1>1. n \in Nat /\ DOMAIN entries = 1 .. n
  OBVIOUS
<1>0. key \in SettingKeys
  BY DEF SettingOf, SettingKeys
<1>2. enc \in V
  <2>1. DOMAIN enc = 1 .. Len(enc) /\ Len(enc) \in Nat
    OBVIOUS
  <2>2. ASSUME NEW i \in DOMAIN enc PROVE enc[i] \in [EntryKeys -> W]
    <3>1. enc[i] = [k \in EntryKeys |-> enc[i][k]]
      BY DEF Entry
    <3>2. \A k \in EntryKeys : enc[i][k] \in W
      <4> SUFFICES ASSUME NEW k \in EntryKeys PROVE enc[i][k] \in W
        OBVIOUS
      <4> DEFINE p == <<i, k>>
      <4>1. p \in (DOMAIN enc) \X EntryKeys /\ p[1] = i /\ p[2] = k
        BY <2>2
      <4> HIDE DEF p
      <4>2. enc[p[1]][p[2]] \in W
        BY <4>1 DEF Values
      <4> QED BY <4>1, <4>2
    <3> HIDE DEF W
    <3> QED BY <3>1, <3>2
  <2>3. \A m \in Nat : \A q, S : q \in Seq(ToSet(q)) /\ Len(q) = m /\ (\A i \in 1 .. m : q[i] \in S) => q \in Seq(S)
    OBVIOUS
  <2> HIDE DEF W
  <2> QED BY <2>1, <2>2, <2>3 DEF EntriesOf
<1>a. ASSUME NEW i \in 1 .. n, NEW c \in V PROVE Op(i, c) \in V
  <2>1. entries[i] \in ToSet(entries)
    BY <1>1
  <2>0. "" \in W
    BY DEF Values
  <2>a. entries[i].value \in W
    BY <2>1 DEF Values
  <2>b. ResolveEncodingColumn(entries[i].column) \in W
    BY <2>1 DEF Values
  <2>2. /\ "" \in W /\ entries[i].value \in W /\ ResolveEncodingColumn(entries[i].column) \in W
    BY <2>0, <2>a, <2>b
  <2> HIDE DEF W, key
  <2> QED BY <1>0, <2>2, AppliedWithin
<1>3. F \in [(1 .. n) \X V -> V]
  <2>1. ASSUME NEW p \in (1 .. n) \X V PROVE Op(p[1], p[2]) \in V
    <3>1. p[1] \in 1 .. n /\ p[2] \in V
      OBVIOUS
    <3> HIDE DEF Op, V, n
    <3> QED BY <1>a, <3>1
  <2> HIDE DEF Op, V
  <2> QED BY <2>1
<1>4. \E x : x = [s \in SUBSET DOMAIN entries |-> Body(x, s)]
  <2>0. PICK x \in [SUBSET (1 .. n) -> V] : FoldsAs(n, enc, F, x)
    <3> HIDE DEF F, V, n
    <3> QED BY <1>1, <1>2, <1>3, FoldsExist
  <2>1. \A s \in SUBSET (1 .. n) : x[s] = IF s = {} THEN enc ELSE F[<<Max(s), x[s \ {Max(s)}]>>]
    <3> HIDE DEF F, V, n
    <3> QED BY <2>0 DEF FoldsAs
  <2>2. ASSUME NEW s \in SUBSET (1 .. n) PROVE x[s] = Body(x, s)
    <3>1. CASE s = {}
      BY <2>1, <3>1
    <3>2. CASE s # {}
      <4>1. Max(s) \in 1 .. n
        <5>1. Max(s) \in s
          BY <1>1, <3>2, MaxIn
        <5> QED BY <5>1
      <4>2. <<Max(s), x[s \ {Max(s)}]>> \in (1 .. n) \X V
        BY <2>1, <4>1
      <4>3. F[<<Max(s), x[s \ {Max(s)}]>>] = Op(Max(s), x[s \ {Max(s)}])
        <5> HIDE DEF V, Op
        <5> QED BY <4>2
      <4> HIDE DEF F, Op
      <4> QED BY <2>1, <3>2, <4>3
    <3> QED BY <3>1, <3>2
  <2>3. x = [s \in SUBSET DOMAIN entries |-> Body(x, s)]
    <3> HIDE DEF Body
    <3> QED BY <1>1, <2>1, <2>2
  <2> HIDE DEF Body
  <2> QED BY <2>3
<1>5. g = [s \in SUBSET DOMAIN entries |-> Body(g, s)]
  <2> HIDE DEF Body
  <2> QED BY <1>4
<1>6. FoldLeft(LAMBDA encodings, e : ApplySetting(encodings, SettingOf[option], e), enc, entries) = g[DOMAIN entries]
  BY DEF FoldLeft, MapThenFoldSet
<1> HIDE DEF g
<1> DEFINE h == [k \in 0 .. n |-> g[1 .. k]]
<1>7. g[1 .. 0] = enc
  <2>1. 1 .. 0 \in SUBSET DOMAIN entries /\ 1 .. 0 = {}
    BY <1>1
  <2> HIDE DEF Op
  <2> QED BY <1>5, <2>1
<1>8. ASSUME NEW k \in 0 .. n - 1 PROVE g[1 .. k + 1] = Op(k + 1, g[1 .. k])
  <2>0. n \in Int /\ k \in Nat
    BY <1>1
  <2>1. 1 .. k + 1 \in SUBSET DOMAIN entries
    BY <1>1, <2>0
  <2>2. Max(1 .. k + 1) = k + 1 /\ 1 .. k + 1 # {} /\ (1 .. k + 1) \ {k + 1} = 1 .. k
    BY <2>0, LastPosition
  <2>3. g[1 .. k + 1] = Body(g, 1 .. k + 1)
    <3> HIDE DEF Body
    <3> QED BY <1>5, <2>1
  <2> HIDE DEF Op
  <2> QED BY <2>2, <2>3
<1>9. AppliedStepwise(enc, key, entries, h)
  <2>1. h[0] = enc
    BY <1>1, <1>7
  <2>2. \A k \in 0 .. n - 1 : h[k + 1] = Op(k + 1, h[k])
    <3>1. \A k \in 0 .. n - 1 : k \in 0 .. n /\ k + 1 \in 0 .. n
      BY <1>1
    <3> HIDE DEF Op
    <3> QED BY <1>8, <3>1
  <2> HIDE DEF h
  <2> QED BY <2>1, <2>2 DEF AppliedStepwise
<1>10. FoldLeft(LAMBDA encodings, e : ApplySetting(encodings, SettingOf[option], e), enc, entries) = h[n]
  <2>1. n \in 0 .. n /\ h[n] = g[1 .. n]
    BY <1>1
  <2> HIDE DEF h, n
  <2> QED BY <1>1, <1>6, <2>1
<1> HIDE DEF h, n
<1> QED BY <1>9, <1>10 DEF n

\* The settings of one option of which none is made yet.
Apart(D, key, entries) ==
  /\ \A i \in DOMAIN entries : \A d \in D :
       SameName(ColumnOf(d), ResolveEncodingColumn(entries[i].column)) =>
         ColumnOf(d) = ResolveEncodingColumn(entries[i].column) /\ d[1] # key
  /\ \A i, j \in DOMAIN entries :
       SameName(ResolveEncodingColumn(entries[i].column), ResolveEncodingColumn(entries[j].column)) => i = j
  /\ \A d \in D : d[1] \in SettingKeys

Applied(enc, option, entries) ==
  FoldLeft(LAMBDA encodings, e : ApplySetting(encodings, SettingOf[option], e), enc, entries)
LEMMA SettingsRecorded ==
  ASSUME NEW option \in DOMAIN SettingOf, NEW D, NEW enc, Recorded(enc, D),
         NEW entries, entries \in Seq(ToSet(entries)), Apart(D, SettingOf[option], entries)
  PROVE  Recorded(Applied(enc, option, entries),
                  D \cup {<<SettingOf[option], entries[i]>> : i \in 1 .. Len(entries)})
<1> DEFINE n == Len(entries)
           key == SettingOf[option]
           With(k) == D \cup {<<key, entries[i]>> : i \in 1 .. k}
<1>1. n \in Nat /\ DOMAIN entries = 1 .. n
  OBVIOUS
<1>0. key \in SettingKeys
  BY DEF SettingOf, SettingKeys
<1>2. PICK h : /\ AppliedStepwise(enc, SettingOf[option], entries, h)
               /\ Applied(enc, option, entries) = h[Len(entries)]
  <2>1. enc \in Seq(ToSet(enc)) /\ \A i \in DOMAIN enc : Entry(enc[i])
    BY DEF Recorded, Kept
  <2> QED BY <2>1, SettingsFold DEF Applied
<1> DEFINE T == {k \in Nat : k <= n => Recorded(h[k], With(k))}
<1>3. 0 \in T
  <2>0. 1 .. 0 = {}
    OBVIOUS
  <2>a. With(0) = D
    BY <2>0
  <2>1. h[0] = enc /\ With(0) = D
    BY <1>2, <2>a DEF AppliedStepwise
  <2> HIDE DEF With
  <2> QED BY <2>1
<1>4. ASSUME NEW k \in Nat, k \in T PROVE k + 1 \in T
  <2> SUFFICES ASSUME k + 1 <= n PROVE Recorded(h[k + 1], With(k + 1))
    OBVIOUS
  <2> DEFINE e == entries[k + 1]
             column == ResolveEncodingColumn(e.column)
             all == FindOrAddColumnEncoding(h[k], column)
  <2>1. k <= n /\ k \in 0 .. n - 1 /\ k + 1 \in DOMAIN entries
    BY <1>1
  <2>2. h[k + 1] = ApplySetting(h[k], key, e)
    BY <1>2, <2>1 DEF AppliedStepwise
  <2>3. Recorded(h[k], With(k))
    BY <1>4, <2>1
  <2>4. ASSUME NEW d \in With(k), SameName(ColumnOf(d), column) PROVE ColumnOf(d) = column /\ d[1] # key
    <3>1. CASE d \in D
      BY <2>1, <2>4, <3>1 DEF Apart
    <3>2. CASE d \notin D
      <4>1. PICK i \in 1 .. k : d = <<key, entries[i]>>
        BY <2>4, <3>2
      <4>2. i \in DOMAIN entries /\ i # k + 1
        BY <1>1, <2>1
      <4>3. ColumnOf(d) = ResolveEncodingColumn(entries[i].column)
        BY <4>1 DEF ColumnOf
      <4> QED BY <2>1, <2>4, <4>2, <4>3 DEF Apart
    <3> QED BY <3>1, <3>2
  <2>5. \A d \in With(k) : d[1] \in SettingKeys
    BY <1>0 DEF Apart
  <2>6. With(k + 1) = With(k) \cup {<<key, e>>}
    <3>1. 1 .. k + 1 = (1 .. k) \cup {k + 1}
      OBVIOUS
    <3> QED BY <3>1
  <2> HIDE DEF With, key
  <2>7. Found(all, With(k), column)
    <3> HIDE DEF column
    <3> QED BY <2>3, <2>4, EntryFound
  <2>8. \A d \in With(k) : ColumnOf(d) = column => d[1] # key
    BY <2>4, SameNames
  <2>9. ApplySetting(h[k], key, e) =
          [i \in DOMAIN all |->
             IF SameName(all[i].column, column) THEN [all[i] EXCEPT ![key] = e.value] ELSE all[i]]
    BY DEF ApplySetting
  <2> HIDE DEF all, e
  <2>10. Recorded(ApplySetting(h[k], key, e), With(k) \cup {<<key, e>>})
    BY <1>0, <2>5, <2>7, <2>8, <2>9, EntryApplied
  <2> QED BY <2>2, <2>6, <2>10
<1>5. n \in T
  <2> HIDE DEF T
  <2> QED BY <1>1, <1>3, <1>4, Induction
<1>6. Recorded(h[n], With(n))
  BY <1>1, <1>5
<1> QED BY <1>2, <1>6

\* The settings of the options that are consumed.
SettingsOf(option) == {<<SettingOf[option], e>> : e \in ToSet(Asked(option))}
Made == UNION {SettingsOf(option) : option \in DOMAIN SettingOf \ DOMAIN options}
Admitted(d) ==
  /\ d[1] \in SettingKeys /\ FieldOf(d[2].column) # {} /\ d[2].value # ""
  /\ d[1] = "structural_encoding" => Column(ColumnOf(d)) \in DOMAIN types.fields
EncInv ==
  phase \in Queried => Recorded(data.column_encodings, Made) /\ \A d \in Made : Admitted(d)

LEMMA RecordedKept ==
  ASSUME types' = types, NEW new, NEW more, Recorded(new, more), \A d \in more : Admitted(d),
         data'.column_encodings = new, Made' = more
  PROVE  EncInv'
<1>1. \A a : FieldOf(a)' = FieldOf(a)
  BY DEF FieldOf
<1>2. \A a : ResolveEncodingColumn(a)' = ResolveEncodingColumn(a)
  BY <1>1 DEF ResolveEncodingColumn
<1>3. \A d : ColumnOf(d)' = ColumnOf(d)
  BY <1>2 DEF ColumnOf
<1>4. \A d : Admitted(d)' <=> Admitted(d)
  BY <1>1, <1>3 DEF Admitted
<1>5. Recorded(data.column_encodings, Made)'
  <2>1. (data.column_encodings)' = new
    OBVIOUS
  <2>2. /\ new \in Seq(ToSet(new)) /\ \A i \in DOMAIN new : Entry(new[i])
        /\ \A i, j \in DOMAIN new : SameName(new[i].column, new[j].column) => i = j
    BY DEF Recorded, Kept
  <2>3. \A d \in more : \E i \in DOMAIN new : new[i].column = ColumnOf(d) /\ new[i][d[1]] = d[2].value
    BY DEF Recorded, Kept
  <2>4. \A i \in DOMAIN new : \A key \in SettingKeys :
          new[i][key] # "" =>
            \E d \in more : d[1] = key /\ ColumnOf(d) = new[i].column /\ d[2].value = new[i][key]
    BY DEF Recorded, Kept
  <2>5. \A i \in DOMAIN new : \E d \in more : new[i].column = ColumnOf(d)
    BY DEF Recorded
  <2>6. (data.column_encodings \in Seq(ToSet(data.column_encodings)))'
    BY <2>1, <2>2
  <2>7. (\A i \in DOMAIN data.column_encodings : Entry(data.column_encodings[i]))'
    BY <2>1, <2>2 DEF Entry
  <2>8. (\A i, j \in DOMAIN data.column_encodings :
           SameName(data.column_encodings[i].column, data.column_encodings[j].column) => i = j)'
    BY <2>1, <2>2 DEF SameName
  <2>9. (\A d \in Made : \E i \in DOMAIN data.column_encodings :
           data.column_encodings[i].column = ColumnOf(d) /\ data.column_encodings[i][d[1]] = d[2].value)'
    BY <1>3, <2>1, <2>3
  <2>10. (\A i \in DOMAIN data.column_encodings : \A key \in SettingKeys :
            data.column_encodings[i][key] # "" =>
              \E d \in Made : /\ d[1] = key /\ ColumnOf(d) = data.column_encodings[i].column
                             /\ d[2].value = data.column_encodings[i][key])'
    <3> SUFFICES ASSUME NEW i \in DOMAIN data'.column_encodings, NEW key \in SettingKeys,
                        data'.column_encodings[i][key] # ""
                 PROVE  (\E d \in Made : /\ d[1] = key /\ ColumnOf(d) = data.column_encodings[i].column
                                        /\ d[2].value = data.column_encodings[i][key])'
      OBVIOUS
    <3>1. PICK d \in more : d[1] = key /\ ColumnOf(d) = new[i].column /\ d[2].value = new[i][key]
      <4>1. i \in DOMAIN new
        BY <2>1
      <4>2. new[i][key] # ""
        BY <2>1
      <4> QED BY <2>4, <4>1, <4>2
    <3>2. (d[1] = key /\ ColumnOf(d) = data.column_encodings[i].column
             /\ d[2].value = data.column_encodings[i][key])'
      BY <1>3, <2>1, <3>1
    <3>3. d \in Made'
      BY <3>1
    <3> QED BY <3>2, <3>3
  <2>11. (\A i \in DOMAIN data.column_encodings : \E d \in Made : data.column_encodings[i].column = ColumnOf(d))'
    BY <1>3, <2>1, <2>5
  <2> QED BY <2>6, <2>7, <2>8, <2>9, <2>10, <2>11 DEF Recorded, Kept
<1> QED BY <1>4, <1>5 DEF EncInv

LEMMA MadeKept ==
  ASSUME UNCHANGED <<statement, options>> PROVE Made' = Made
BY DEF Made, SettingsOf, Asked

LEMMA EncKept ==
  ASSUME EncInv, UNCHANGED <<statement, types>>, data'.column_encodings = data.column_encodings,
         Made' = Made, phase' \in Queried => phase \in Queried
  PROVE  EncInv'
<1>1. CASE phase' \in Queried
  BY <1>1, RecordedKept DEF EncInv
<1>2. CASE phase' \notin Queried
  BY <1>2 DEF EncInv
<1> QED BY <1>1, <1>2

LEMMA OptionMade ==
  ASSUME NEW option \in DOMAIN options, NEW new, Consume(option, new)
  PROVE  Made' = IF option \in DOMAIN SettingOf THEN Made \cup SettingsOf(option) ELSE Made
<1> DEFINE left == DOMAIN SettingOf \ DOMAIN options
           gone == DOMAIN SettingOf \ DOMAIN options'
<1>1. statement' = statement /\ DOMAIN options' = DOMAIN options \ {option}
  BY DEF Consume, Without
<1>2. \A o : SettingsOf(o)' = SettingsOf(o)
  BY <1>1 DEF SettingsOf, Asked
<1>3. Made' = UNION {SettingsOf(o) : o \in gone}
  BY <1>2 DEF Made
<1>4. gone = IF option \in DOMAIN SettingOf THEN left \cup {option} ELSE left
  BY <1>1
<1> HIDE DEF gone, left
<1>5. Made = UNION {SettingsOf(o) : o \in left}
  BY DEF Made, left
<1> QED BY <1>3, <1>4, <1>5

LEMMA FirstMade ==
  ASSUME PlanInv, BindSource, ~Reject
  PROVE  EncInv'
<1>1. phase = "source" /\ UNCHANGED <<statement, options, data>>
  BY DEF BindSource
<1>2. data.column_encodings = <<>> /\ DOMAIN statement.options \ Taken \subseteq DOMAIN options
  <2>1. data = FirstData /\ DOMAIN statement.options \ Taken \subseteq DOMAIN options
    BY <1>1 DEF PlanInv, OptionsInv
  <2> QED BY <2>1 DEF FirstData
<1>3. ASSUME NEW o \in DOMAIN SettingOf \ DOMAIN options PROVE SettingsOf(o) = {}
  <2>1. o \notin Taken
    BY DEF SettingOf, Taken, SampleOptions
  <2>2. Asked(o) = <<>>
    BY <1>2, <2>1 DEF Asked
  <2> QED BY <2>2, SequenceElements DEF SettingsOf
<1>4. Made' = {}
  <2>1. Made' = Made
    BY <1>1, MadeKept
  <2> QED BY <1>3, <2>1 DEF Made
<1>5. data'.column_encodings = <<>> /\ DOMAIN <<>> = {} /\ <<>> \in Seq(ToSet(<<>>))
  BY <1>1, <1>2, SequenceElements
<1>6. Recorded(data.column_encodings, Made)'
  BY <1>4, <1>5 DEF Recorded, Kept
<1> QED BY <1>4, <1>6 DEF EncInv

LEMMA SettingNames ==
  ASSUME NEW option \in DOMAIN SettingOf
  PROVE  /\ SettingOf[option] \in SettingKeys
         /\ SettingOf[option] = "structural_encoding" => option = "column_structural_encoding"
         /\ \A o \in DOMAIN SettingOf : SettingOf[option] = SettingOf[o] => option = o
BY DEF SettingOf, SettingKeys

LEMMA SettingsParsed ==
  ASSUME PlanInv, EncInv, phase = "options", NEW option \in DOMAIN options, ParseColumnSettings(option), ~Reject
  PROVE  EncInv'
<1> DEFINE entries == options[option]   key == SettingOf[option]   enc == data.column_encodings
<1>0. option \in DOMAIN SettingOf
  BY DEF ParseColumnSettings
<1> HIDE DEF entries, enc
<1>5. /\ key \in SettingKeys
      /\ key = "structural_encoding" => option = "column_structural_encoding"
  <2>1. SettingOf[option] \in SettingKeys
    BY <1>0, SettingNames
  <2>2. SettingOf[option] = "structural_encoding" => option = "column_structural_encoding"
    BY <1>0, SettingNames
  <2> QED BY <2>1, <2>2
<1> USE DEF entries, enc
<1> DEFINE all == FoldLeft(LAMBDA encodings, e : ApplySetting(encodings, SettingOf[option], e), enc, entries)
           new == [data EXCEPT !.column_encodings = all]
<1>1. /\ \A e \in ToSet(entries) : ValidSetting(option, e)
      /\ Distinct([i \in DOMAIN entries |-> ResolveEncodingColumn(entries[i].column)])
      /\ Consume(option, new)
  BY DEF ParseColumnSettings
<1>2. entries = Asked(option) /\ entries \in Seq(ToSet(entries))
  <2>1. statement \in Statements /\ option \in DOMAIN statement.options /\ entries = statement.options[option]
    BY DEF PlanInv, OptionsInv
  <2> QED BY <2>1, PlanAssumption DEF OptionAssumption, Asked
<1>3. Recorded(enc, Made) /\ (\A d \in Made : Admitted(d)) /\ DOMAIN data = DataFields /\ Tabular(types) /\ Spelled
  BY BoundSpelled DEF EncInv, Queried, PlanInv, OptionsInv, TypesInv
<1>4. types' = types /\ data' = new
  BY <1>1 DEF Consume
<1> HIDE DEF entries, key, enc, all
<1>6. ASSUME NEW e \in ToSet(entries) PROVE Admitted(<<key, e>>)
  <2>1. ValidSetting(option, e)
    BY <1>1
  <2>2. key = "structural_encoding" => option = "column_structural_encoding"
    BY <1>5
  <2> QED BY <1>5, <2>1, <2>2 DEF ValidSetting, Admitted, ColumnOf
<1>7. ASSUME NEW d \in Made PROVE d[1] # key
  <2>1. PICK o \in DOMAIN SettingOf \ DOMAIN options : d \in SettingsOf(o)
    BY DEF Made
  <2>2. d[1] = SettingOf[o]
    BY <2>1 DEF SettingsOf
  <2>3. o # option
    OBVIOUS
  <2> QED BY <1>0, <2>1, <2>2, <2>3, SettingNames DEF key
<1>8. Apart(Made, key, entries)
  <2>1. ASSUME NEW i \in DOMAIN entries, NEW d \in Made,
               SameName(ColumnOf(d), ResolveEncodingColumn(entries[i].column))
        PROVE  ColumnOf(d) = ResolveEncodingColumn(entries[i].column) /\ d[1] # key
    <3>1. FieldOf(d[2].column) # {}
      BY <1>3 DEF Admitted
    <3>2. entries[i] \in ToSet(entries)
      BY DEF ToSet
    <3>3. FieldOf(entries[i].column) # {}
      BY <1>6, <3>2 DEF Admitted
    <3> QED BY <1>3, <1>7, <2>1, <3>1, <3>3, SameField DEF ColumnOf
  <2>2. \A i, j \in DOMAIN entries :
          SameName(ResolveEncodingColumn(entries[i].column), ResolveEncodingColumn(entries[j].column)) => i = j
    BY <1>1 DEF Distinct
  <2>3. \A d \in Made : d[1] \in SettingKeys
    BY <1>3 DEF Admitted
  <2> QED BY <2>1, <2>2, <2>3 DEF Apart
<1> DEFINE more == Made \cup {<<key, entries[i]>> : i \in 1 .. Len(entries)}
<1>9. Recorded(all, more)
  <2>1. Apart(Made, SettingOf[option], entries)
    BY <1>8 DEF key
  <2> HIDE DEF new, more
  <2>2. Recorded(Applied(enc, option, entries),
                 Made \cup {<<SettingOf[option], entries[i]>> : i \in 1 .. Len(entries)})
    BY <1>0, <1>2, <1>3, <2>1, SettingsRecorded
  <2> QED BY <2>2 DEF all, more, key, Applied
<1>10. more = Made \cup SettingsOf(option)
  BY <1>2 DEF SettingsOf, key, ToSet
<1>11. \A d \in more : Admitted(d)
  BY <1>2, <1>3, <1>6 DEF ToSet
<1>12. Made' = more
  BY <1>0, <1>1, <1>10, OptionMade
<1>13. data'.column_encodings = all
  BY <1>3, <1>4 DEF DataFields
<1> HIDE DEF more
<1> QED BY <1>4, <1>9, <1>11, <1>12, <1>13, RecordedKept

\* An option that sets something else.
LEMMA OthersLeaveEncodings ==
  ASSUME PlanInv, EncInv, phase = "options", NEW option \in DOMAIN options, ~Reject,
         \/ SetMode(option) \/ SetSize(option) \/ SetStorageVersion(option)
         \/ ParseBlobColumns(option) \/ ParseIndexColumns(option)
  PROVE  EncInv'
<1>1. DOMAIN data = DataFields
  BY DEF PlanInv, OptionsInv
<1>2. ASSUME NEW new, Consume(option, new), new.column_encodings = data.column_encodings PROVE EncInv'
  <2>1. option \notin DOMAIN SettingOf
    BY DEF SettingOf, SetMode, SetSize, SetStorageVersion, ParseBlobColumns, ParseIndexColumns, Sizes, IndexOptions
  <2>2. Made' = Made
    BY <1>2, <2>1, OptionMade
  <2>3. UNCHANGED <<statement, phase, types>> /\ data' = new
    BY <1>2 DEF Consume
  <2> QED BY <1>2, <2>2, <2>3, EncKept
<1>3. CASE SetMode(option)
  <2> DEFINE new == [data EXCEPT !.has_write_mode = TRUE,
                       !.mode = IF options[option] = <<>> \/ options[option] = <<TRUE>> THEN option ELSE @]
  <2>1. Consume(option, new)
    BY <1>3 DEF SetMode
  <2>2. new.column_encodings = data.column_encodings
    BY <1>1 DEF DataFields
  <2> HIDE DEF new
  <2> QED BY <1>2, <2>1, <2>2
<1>4. CASE SetSize(option)
  <2> DEFINE new == [data EXCEPT !.sizes[option] = options[option][1]]
  <2>1. Consume(option, new)
    BY <1>4 DEF SetSize
  <2>2. new.column_encodings = data.column_encodings
    BY <1>1 DEF DataFields
  <2> HIDE DEF new
  <2> QED BY <1>2, <2>1, <2>2
<1>5. CASE SetStorageVersion(option)
  <2> DEFINE new == [data EXCEPT !.storage_version = options[option][1]]
  <2>1. Consume(option, new)
    BY <1>5 DEF SetStorageVersion
  <2>2. new.column_encodings = data.column_encodings
    BY <1>1 DEF DataFields
  <2> HIDE DEF new
  <2> QED BY <1>2, <2>1, <2>2
<1>6. CASE ParseBlobColumns(option)
  <2> DEFINE new == [data EXCEPT !.blob_columns = Canonical(options[option])]
  <2>1. Consume(option, new)
    BY <1>6 DEF ParseBlobColumns
  <2>2. new.column_encodings = data.column_encodings
    BY <1>1 DEF DataFields
  <2> HIDE DEF new
  <2> QED BY <1>2, <2>1, <2>2
<1>7. CASE ParseIndexColumns(option)
  <2> DEFINE new == [data EXCEPT !.index_columns = @ \o Canonical(options[option]),
                                 !.index_kinds   = @ \o KindPerColumn(options[option], option)]
  <2>1. Consume(option, new)
    BY <1>7 DEF ParseIndexColumns
  <2>2. new.column_encodings = data.column_encodings
    BY <1>1 DEF DataFields
  <2> HIDE DEF new
  <2> QED BY <1>2, <2>1, <2>2
<1> QED BY <1>3, <1>4, <1>5, <1>6, <1>7

LEMMA EncInvariant == PlanSpec => []EncInv
<1>1. PlanInit => EncInv
  BY DEF PlanInit, EncInv, Queried
<1>2. PlanInv /\ EncInv /\ [PlanNext]_planVars => EncInv'
  <2> SUFFICES ASSUME PlanInv, EncInv, [PlanNext]_planVars PROVE EncInv'
    OBVIOUS
  <2>0. ASSUME UNCHANGED <<statement, options, types>>, data'.column_encodings = data.column_encodings,
               phase' \in Queried => phase \in Queried
        PROVE  EncInv'
    BY <2>0, MadeKept, EncKept
  <2>1. CASE UNCHANGED planVars
    BY <2>0, <2>1 DEF planVars
  <2>2. CASE Reject
    <3>1. phase' = "rejected"
      BY <2>2 DEF Reject
    <3> QED BY <3>1 DEF EncInv, Queried
  <2>3. CASE TakeOptions /\ ~Reject
    <3>1. phase' = "source"
      BY <2>3 DEF TakeOptions
    <3> QED BY <3>1 DEF EncInv, Queried
  <2>4. CASE BindSource /\ ~Reject
    BY <2>4, FirstMade
  <2>5. CASE BindOption /\ ~Reject
    <3>1. phase = "options"
      BY <2>5 DEF BindOption
    <3>2. PICK option \in DOMAIN options :
            \/ SetMode(option) \/ SetSize(option) \/ SetStorageVersion(option)
            \/ ParseColumnSettings(option) \/ ParseBlobColumns(option) \/ ParseIndexColumns(option)
      BY <2>5 DEF BindOption
    <3> QED BY <2>5, <3>1, <3>2, SettingsParsed, OthersLeaveEncodings
  <2>6. CASE EndOfOptions /\ ~Reject
    <3>1. /\ phase = "options" /\ UNCHANGED <<statement, options, types>>
          /\ data' = [data EXCEPT !.generated_expressions =
                        Padded([i \in DOMAIN generated |-> generated[i].expression])]
      BY <2>6 DEF EndOfOptions
    <3>2. DOMAIN data = DataFields
      BY DEF PlanInv, OptionsInv
    <3>3. data'.column_encodings = data.column_encodings
      BY <3>1, <3>2 DEF DataFields
    <3> QED BY <2>0, <3>1, <3>3 DEF Queried
  <2>7. CASE LanceConversionOpen
    <3>1. phase = "bound" /\ UNCHANGED <<statement, options, types, data>>
      BY <2>7 DEF LanceConversionOpen
    <3> QED BY <2>0, <3>1 DEF Queried
  <2> QED BY <2>1, <2>2, <2>3, <2>4, <2>5, <2>6, <2>7 DEF PlanNext
<1> QED BY <1>1, <1>2, PlanInvariant, PTL DEF PlanSpec
-----------------------------------------------------------------------------
(***************************************************************************)
(* The expressions, by position.                                           *)
(***************************************************************************)
Bound == {"bound", "opened", "failed"}

\* The position of a source column has no expression; one of a generated column has its own.
Aligned(columns, expressions) ==
  /\ DOMAIN columns = DOMAIN expressions
  /\ \A i \in DOMAIN columns :
       \/ columns[i] \in ToSet(statement.source.columns) /\ expressions[i] = ""
       \/ \E c \in ToSet(generated) : columns[i] = c.name /\ expressions[i] = c.expression
  /\ \A c \in ToSet(generated) :
       \E i \in DOMAIN columns : columns[i] = c.name /\ expressions[i] = c.expression

LEMMA Padding ==
  ASSUME NEW n \in Nat
  PROVE  /\ [i \in 1 .. n |-> ""] \in Seq(ToSet([i \in 1 .. n |-> ""]))
         /\ Len([i \in 1 .. n |-> ""]) = n
<1> DEFINE p == [i \in 1 .. n |-> ""]
<1>1. DOMAIN p = 1 .. n /\ p = [i \in 1 .. n |-> p[i]]
  OBVIOUS
<1> HIDE DEF p
<1>2. \A i \in 1 .. n : p[i] \in ToSet(p)
  BY <1>1 DEF ToSet
<1>3. p \in Seq(ToSet(p))
  BY <1>1, <1>2, SeqFrom
<1>4. Len(p) = n
  BY <1>1, <1>3
<1> QED BY <1>3, <1>4 DEF p

LEMMA Positions ==
  ASSUME PlanInv, DataInv, phase \in Bound
  PROVE  Aligned(types.columns, data.generated_expressions)
<1> DEFINE s == statement.source.columns
           names == [i \in DOMAIN generated |-> generated[i].name]
           E == Expressions
           n == Len(s)   m == Len(generated)
<1>1. /\ generated \in Seq(ToSet(generated)) /\ types.columns = s \o names
      /\ data.generated_expressions = Padded(E)
  BY DEF PlanInv, GeneratedInv, TypesInv, DataInv, Queried, Bound
<1>2. s \in Seq(ToSet(s))
  <2>1. statement \in Statements
    BY DEF PlanInv, OptionsInv
  <2>2. s \in Seq(Seq(STRING))
    BY <2>1, PlanAssumption DEF SourceAssumption
  <2> HIDE DEF s
  <2> QED BY <2>2, SequenceElements
<1>3. n \in Nat /\ m \in Nat /\ DOMAIN s = 1 .. n /\ DOMAIN generated = 1 .. m
  <2> HIDE DEF s, names, E
  <2> QED BY <1>1, <1>2
<1>4. names \in Seq(ToSet(names)) /\ Len(names) = m /\ DOMAIN names = 1 .. m /\ \A j \in 1 .. m : names[j] = generated[j].name
  <2>1. DOMAIN names = 1 .. m /\ (\A j \in 1 .. m : names[j] = generated[j].name) /\ names = [j \in 1 .. m |-> names[j]]
    BY <1>3
  <2> HIDE DEF names, s, n, E, m
  <2>2. \A j \in 1 .. m : names[j] \in ToSet(names)
    BY <2>1 DEF ToSet
  <2>3. names \in Seq(ToSet(names))
    BY <1>3, <2>1, <2>2, SeqFrom
  <2>4. Len(names) = m
    BY <1>3, <2>1, <2>3
  <2> QED BY <2>1, <2>3, <2>4
<1>5. E \in Seq(ToSet(E)) /\ Len(E) = m /\ DOMAIN E = 1 .. m /\ \A j \in 1 .. m : E[j] = generated[j].expression
  <2>1. DOMAIN E = 1 .. m /\ (\A j \in 1 .. m : E[j] = generated[j].expression) /\ E = [j \in 1 .. m |-> E[j]]
    BY <1>3 DEF Expressions
  <2> HIDE DEF names, s, n, E, m
  <2>2. \A j \in 1 .. m : E[j] \in ToSet(E)
    BY <2>1 DEF ToSet
  <2>3. E \in Seq(ToSet(E))
    BY <1>3, <2>1, <2>2, SeqFrom
  <2>4. Len(E) = m
    BY <1>3, <2>1, <2>3
  <2> QED BY <2>1, <2>3, <2>4
<1> DEFINE p == [i \in 1 .. n |-> ""]
           columns == s \o names
           padded == p \o E
<1> HIDE DEF names, s, n, E, m
<1>6. p \in Seq(ToSet(p)) /\ Len(p) = n /\ DOMAIN p = 1 .. n /\ \A i \in 1 .. n : p[i] = ""
  BY <1>3, Padding
<1> HIDE DEF p, columns, padded
<1>7. /\ Len(columns) = n + m /\ columns \in Seq(ToSet(columns))
      /\ \A i \in 1 .. n : columns[i] = s[i]
      /\ \A j \in 1 .. m : columns[n + j] = names[j]
  BY <1>2, <1>3, <1>4, Joined DEF columns, n
<1>8. DOMAIN columns = 1 .. n + m
  BY <1>7
<1>9. /\ Len(padded) = n + m /\ padded \in Seq(ToSet(padded))
      /\ \A i \in 1 .. n : padded[i] = ""
      /\ \A j \in 1 .. m : padded[n + j] = E[j]
  <2>1. /\ Len(padded) = Len(p) + Len(E) /\ padded \in Seq(ToSet(padded))
        /\ \A i \in DOMAIN p : padded[i] = p[i]
        /\ \A j \in DOMAIN E : padded[Len(p) + j] = E[j]
    <3>1. p \in Seq(ToSet(p)) /\ E \in Seq(ToSet(E))
      BY <1>5, <1>6
    <3>2. Len(p \o E) = Len(p) + Len(E) /\ p \o E \in Seq(ToSet(p \o E))
      BY <3>1, Joined
    <3>3. \A i \in DOMAIN p : (p \o E)[i] = p[i]
      BY <3>1, Joined
    <3>4. \A j \in DOMAIN E : (p \o E)[Len(p) + j] = E[j]
      BY <3>1, Joined
    <3> QED BY <3>2, <3>3, <3>4 DEF padded
  <2> QED BY <1>5, <1>6, <2>1
<1>10. DOMAIN padded = 1 .. n + m
  BY <1>9, SequenceElements
<1>11. types.columns = columns
  BY <1>1 DEF columns
<1>12. data.generated_expressions = padded
  <2>1. Padded(E) = [i \in 1 .. Len(types.columns) - Len(E) |-> ""] \o E
    BY DEF Padded
  <2>2. Len(types.columns) - Len(E) = n
    BY <1>3, <1>5, <1>7, <1>11
  <2> QED BY <1>1, <2>1, <2>2 DEF padded, p
<1>13. ASSUME NEW i \in 1 .. n + m
       PROVE  \/ columns[i] \in ToSet(s) /\ padded[i] = ""
              \/ \E c \in ToSet(generated) : columns[i] = c.name /\ padded[i] = c.expression
  <2>1. CASE i \in 1 .. n
    BY <1>3, <1>7, <1>9, <2>1 DEF ToSet
  <2>2. CASE i \notin 1 .. n
    <3> DEFINE j == i - n
    <3>1. j \in 1 .. m /\ i = n + j
      BY <1>3, <2>2
    <3> HIDE DEF j
    <3>2. columns[i] = generated[j].name /\ padded[i] = generated[j].expression
      BY <1>4, <1>5, <1>7, <1>9, <3>1
    <3>3. generated[j] \in ToSet(generated)
      BY <1>3, <3>1 DEF ToSet
    <3> QED BY <3>2, <3>3
  <2> QED BY <2>1, <2>2
<1>14. ASSUME NEW c \in ToSet(generated)
       PROVE  \E i \in 1 .. n + m : columns[i] = c.name /\ padded[i] = c.expression
  <2>1. PICK j \in 1 .. m : c = generated[j]
    BY <1>3 DEF ToSet
  <2>2. n + j \in 1 .. n + m
    BY <1>3
  <2> QED BY <1>4, <1>5, <1>7, <1>9, <2>1, <2>2
<1> QED BY <1>8, <1>10, <1>11, <1>12, <1>13, <1>14 DEF Aligned, s
-----------------------------------------------------------------------------
(***************************************************************************)
(* From the bound query to the stored schema.                              *)
(***************************************************************************)
\* One entry for each name, with its settings and nothing else.
EachEntry(E) ==
  /\ IsFiniteSet(DOMAIN E)
  /\ \A name \in DOMAIN E :
       Entry(E[name]) /\ \E i \in DOMAIN data.column_encodings :
                            E[name] = data.column_encodings[i] /\ name = data.column_encodings[i].column
  /\ \A i \in DOMAIN data.column_encodings :
       /\ data.column_encodings[i].column \in DOMAIN E
       /\ E[data.column_encodings[i].column] = data.column_encodings[i]

LEMMA EntriesCross ==
  ASSUME EncInv, phase \in Bound
  PROVE  EachEntry(ColumnEncodings)
<1> DEFINE q == data.column_encodings
           E == ColumnEncodings
           Names == {e.column : e \in ToSet(q)}
           column == [i \in DOMAIN q |-> q[i].column]
<1>1. /\ q \in Seq(ToSet(q)) /\ \A i \in DOMAIN q : Entry(q[i])
      /\ \A i, j \in DOMAIN q : SameName(q[i].column, q[j].column) => i = j
  BY DEF EncInv, Recorded, Kept, Queried, Bound
<1>2. E = [name \in Names |-> CHOOSE e \in ToSet(q) : e.column = name]
  BY DEF ColumnEncodings
<1> HIDE DEF q, E
<1>3. Names = {column[i] : i \in DOMAIN q}
  BY DEF ToSet
<1>4. IsFiniteSet(Names)
  <2>1. DOMAIN q = 1 .. Len(q) /\ Len(q) \in Nat
    BY <1>1
  <2>2. IsFiniteSet(DOMAIN q)
    BY <2>1, FS_Interval
  <2>3. column \in [DOMAIN q -> Names]
    BY <1>3
  <2>4. \A name \in Names : \E i \in DOMAIN q : column[i] = name
    BY <1>3
  <2> HIDE DEF column, Names
  <2>5. column \in Surjection(DOMAIN q, Names)
    BY <2>3, <2>4 DEF Surjection
  <2> QED BY <2>2, <2>5, FS_Surjection
<1>5. ASSUME NEW i \in DOMAIN q PROVE q[i].column \in Names /\ E[q[i].column] = q[i]
  <2>1. q[i] \in ToSet(q) /\ q[i].column \in Names
    BY DEF ToSet
  <2>2. ASSUME NEW e \in ToSet(q), e.column = q[i].column PROVE e = q[i]
    <3>1. PICK j \in DOMAIN q : e = q[j]
      BY DEF ToSet
    <3> QED BY <1>1, <2>2, <3>1, SameNames
  <2>3. (CHOOSE e \in ToSet(q) : e.column = q[i].column) = q[i]
    BY <2>1, <2>2
  <2> HIDE DEF Names
  <2> QED BY <1>2, <2>1, <2>3
<1>6. DOMAIN E = Names
  BY <1>2
<1>7. ASSUME NEW name \in Names PROVE Entry(E[name]) /\ \E i \in DOMAIN q : E[name] = q[i] /\ name = q[i].column
  <2>1. PICK i \in DOMAIN q : name = q[i].column
    BY <1>3
  <2> QED BY <1>1, <1>5, <2>1
<1> HIDE DEF Names
<1> QED BY <1>4, <1>5, <1>6, <1>7 DEF EachEntry, q, E

\* A setting of an entry; what is not an entry's sets nothing else.
LEMMA EntrySettings ==
  ASSUME NEW e, Entry(e), NEW key \in MetadataKeys
  PROVE  Settings(e)[key] = IF key \in SettingKeys THEN e[key] ELSE ""
<1>1. Settings(e)[key] = IF key \in DOMAIN e THEN e[key] ELSE ""
  BY DEF Settings
<1>2. DOMAIN e = EntryKeys
  BY DEF Entry
<1>3. key # "column"
  BY DEF MetadataKeys
<1> QED BY <1>1, <1>2, <1>3 DEF EntryKeys

Blobs == BlobSchema(ArrowSchema, WriteOptions)
Table == ConfigureColumnStorage(ArrowSchema, WriteOptions, ColumnEncodings)
StoredAs ==
  /\ Arrowed(types.fields, data.generated_expressions, ArrowSchema.fields)
  /\ ArrowSchema.columns = types.columns
  /\ Blobbed(ArrowSchema, WriteOptions, Blobs.fields)
  /\ EncodesAs(Blobs, ColumnEncodings, Table.fields)
  /\ EachEntry(ColumnEncodings)

LEMMA Storage ==
  ASSUME PlanInv, DataInv, EncInv, phase \in Bound
  PROVE  StoredAs
<1>1. Tabular(types) /\ DOMAIN data.generated_expressions = DOMAIN types.columns
  BY Positions DEF PlanInv, TypesInv, Queried, Bound, Aligned
<1>2. /\ Arrowed(types.fields, data.generated_expressions, ArrowSchema.fields)
      /\ "fields" \in DOMAIN ArrowSchema /\ ArrowSchema.columns = types.columns
  BY <1>1, ArrowFields
<1>3. Blobbed(ArrowSchema, WriteOptions, Blobs.fields) /\ "fields" \in DOMAIN Blobs
  BY <1>2, BlobFields DEF Blobs, Arrowed
<1>4. EachEntry(ColumnEncodings)
  BY EntriesCross
<1>5. EncodesAs(Blobs, ColumnEncodings, ConfigureColumnEncoding(Blobs, ColumnEncodings).fields)
  BY <1>3, <1>4, Encodings DEF EachEntry, Blobbed
<1>6. Table = ConfigureColumnEncoding(Blobs, ColumnEncodings)
  BY DEF Table, Blobs, ConfigureColumnStorage
<1> QED BY <1>2, <1>3, <1>4, <1>5, <1>6 DEF StoredAs

\* What no option sets is stored as it crossed the C ABI.
LEMMA Unset ==
  ASSUME StoredAs, NEW path \in DOMAIN types.fields, NEW key \in MetadataKeys \ SettingKeys
  PROVE  /\ Table.fields[path].metadata[key] = ArrowSchema.fields[path].metadata[key]
         /\ path \in DOMAIN Table.fields
<1> DEFINE E == ColumnEncodings
<1>1. path \in DOMAIN ArrowSchema.fields /\ path \in DOMAIN Blobs.fields /\ path \in DOMAIN Table.fields
  BY DEF StoredAs, Arrowed, Blobbed, EncodesAs
<1>2. Encoded(Blobs, E, path, key, Table.fields[path].metadata[key])
  BY <1>1 DEF StoredAs, EncodesAs
<1>3. \A name \in DOMAIN E : Settings(E[name])[key] = ""
  BY EntrySettings DEF StoredAs, EachEntry
<1>4. Table.fields[path].metadata[key] = Blobs.fields[path].metadata[key]
  BY <1>2, <1>3 DEF Encoded
<1>5. key # "compression"
  BY DEF SettingKeys
<1>6. Blobs.fields[path].metadata[key] = ArrowSchema.fields[path].metadata[key]
  BY <1>1, <1>5 DEF StoredAs, Blobbed
<1> QED BY <1>1, <1>4, <1>6

\* Every step and order of the options, every statement: the expressions are stored with
\* their columns (lance_copy.cpp, LancePlan and LanceInitialize).
THEOREM ExpressionsAligned == PlanSpec => []GeneratedAligned
<1>1. PlanInv /\ DataInv /\ EncInv => GeneratedAligned
  <2> SUFFICES ASSUME PlanInv, DataInv, EncInv, phase = "opened", NEW path \in DOMAIN stored.fields
               PROVE  stored.fields[path].metadata.generated_expression =
                        IF \E c \in ToSet(Asked("generated_columns")) : Column(c.name) = path
                        THEN (CHOOSE c \in ToSet(Asked("generated_columns")) : Column(c.name) = path).expression
                        ELSE ""
    BY DEF GeneratedAligned
  <2> DEFINE columns == types.columns   expressions == data.generated_expressions
             A == ArrowSchema.fields
             value == stored.fields[path].metadata.generated_expression
  <2>1. StoredAs /\ stored = Table /\ generated = Asked("generated_columns")
    BY Storage DEF Bound, PlanInv, OpenedInv, GeneratedInv, Table
  <2>2. path \in DOMAIN types.fields
    BY <2>1 DEF StoredAs, EncodesAs, Blobbed, Arrowed
  <2>3. "generated_expression" \in MetadataKeys \ SettingKeys
    BY DEF MetadataKeys, SettingKeys
  <2>4. value = A[path].metadata.generated_expression
    BY <2>1, <2>2, <2>3, Unset
  <2>5. /\ \A i \in DOMAIN expressions :
             Column(columns[i]) = path => A[path].metadata.generated_expression = expressions[i]
        /\ (\A i \in DOMAIN expressions : Column(columns[i]) # path)
             => A[path].metadata.generated_expression = ""
    BY <2>1, <2>2 DEF StoredAs, Arrowed
  <2>6. Aligned(columns, expressions)
    BY Positions DEF Bound
  <2>7. \A c \in ToSet(generated) : NewName(c)
    BY DEF PlanInv, TypesInv, Queried
  <2> HIDE DEF columns, expressions, A, value
  <2>8. ASSUME NEW c \in ToSet(generated), Column(c.name) = path PROVE value = c.expression
    <3>1. PICK i \in DOMAIN columns : columns[i] = c.name /\ expressions[i] = c.expression
      BY <2>6 DEF Aligned
    <3> QED BY <2>4, <2>5, <2>6, <2>8, <3>1 DEF Aligned
  <2>9. ASSUME \A c \in ToSet(generated) : Column(c.name) # path PROVE value = ""
    <3>1. CASE \E i \in DOMAIN columns : Column(columns[i]) = path
      <4>1. PICK i \in DOMAIN columns : Column(columns[i]) = path
        BY <3>1
      <4>2. expressions[i] = ""
        BY <2>6, <2>9, <4>1 DEF Aligned
      <4> QED BY <2>4, <2>5, <2>6, <4>1, <4>2 DEF Aligned
    <3>2. CASE ~\E i \in DOMAIN columns : Column(columns[i]) = path
      BY <2>4, <2>5, <2>6, <3>2 DEF Aligned
    <3> QED BY <3>1, <3>2
  <2>10. CASE \E c \in ToSet(generated) : Column(c.name) = path
    <3> DEFINE c == CHOOSE c \in ToSet(generated) : Column(c.name) = path
    <3>1. c \in ToSet(generated) /\ Column(c.name) = path
      BY <2>10
    <3> HIDE DEF c
    <3>2. value = c.expression
      BY <2>8, <3>1
    <3> QED BY <2>1, <2>10, <3>2 DEF c, value
  <2>11. CASE ~\E c \in ToSet(generated) : Column(c.name) = path
    BY <2>1, <2>9, <2>11 DEF value
  <2> QED BY <2>10, <2>11
<1> QED BY <1>1, PlanInvariant, DataInvariant, EncInvariant, PTL
-----------------------------------------------------------------------------
(***************************************************************************)
(* The storage policies, through DuckDB's types.                           *)
(***************************************************************************)
\* The types of the fields are the source's; only columns are generated.
LEMMA SourceFields ==
  ASSUME PlanInv, phase \in Queried
  PROVE  /\ SourceAssumption(statement.source)
         /\ DOMAIN types.fields = DOMAIN statement.source.fields \cup {Column(c.name) : c \in ToSet(generated)}
         /\ \A path \in DOMAIN statement.source.fields :
              types.fields[path] = [type |-> statement.source.fields[path].type,
                                    properties |-> ImportSourceMetadata(statement.source)[path]]
         /\ \A path \in DOMAIN types.fields \ DOMAIN statement.source.fields :
              types.fields[path].properties = [source_type |-> "", storage_policy |-> ""]
<1> DEFINE F == types.fields   source == statement.source
<1>1. SourceAssumption(source)
  <2>1. statement \in Statements
    BY DEF PlanInv, OptionsInv
  <2> QED BY <2>1, PlanAssumption
<1>2. F = BoundFields
  BY DEF PlanInv, TypesInv
<1>3. DOMAIN F = DOMAIN source.fields \cup {Column(c.name) : c \in ToSet(generated)}
  BY <1>2 DEF BoundFields
<1>4. ASSUME NEW path \in DOMAIN source.fields
      PROVE  F[path] = [type |-> source.fields[path].type, properties |-> ImportSourceMetadata(source)[path]]
  <2>1. path \in DOMAIN F
    BY <1>3
  <2> QED BY <1>2, <1>3, <2>1 DEF BoundFields
<1>5. ASSUME NEW path \in DOMAIN F \ DOMAIN source.fields
      PROVE  F[path].properties = [source_type |-> "", storage_policy |-> ""]
  <2> DEFINE c == CHOOSE c \in ToSet(generated) : Column(c.name) = path
  <2>1. F[path] = [type |-> c.type, properties |-> [source_type |-> "", storage_policy |-> ""]]
    BY <1>2, <1>3 DEF BoundFields
  <2> DEFINE f == F[path]   t == c.type   p == [source_type |-> "", storage_policy |-> ""]
  <2>2. f = [type |-> t, properties |-> p]
    BY <2>1
  <2> HIDE DEF f, t, p
  <2>3. f.properties = p
    BY <2>2
  <2> QED BY <2>3 DEF f, p
<1> QED BY <1>1, <1>3, <1>4, <1>5

\* What the sink reads of a field's policy is what the source says of it.
LEMMA PolicyCrosses ==
  ASSUME PlanInv, StoredAs, phase \in Queried, NEW path \in DOMAIN types.fields
  PROVE  /\ StoragePolicy(ArrowSchema.fields[path])
              = IF path \in DOMAIN statement.source.fields
                THEN statement.source.fields[path].metadata.storage_policy ELSE ""
         /\ ArrowSchema.fields[path].type = types.fields[path].type
         /\ \A key \in SettingKeys : ArrowSchema.fields[path].metadata[key] = ""
<1> DEFINE F == types.fields   source == statement.source   f == ArrowSchema.fields[path]
           old == Exported(F, path)
<1>1. f.type = F[path].type /\ \A key \in MetadataKeys \ {"generated_expression"} : f.metadata[key] = old[key]
  BY DEF StoredAs, Arrowed
<1>2. \A key \in SettingKeys : f.metadata[key] = ""
  <2>1. \A key \in SettingKeys :
          key \in MetadataKeys \ {"generated_expression"} /\ key \in MetadataKeys \ {"source_type", "storage_policy"}
    BY DEF SettingKeys, MetadataKeys
  <2> HIDE DEF F, f
  <2>2. \A key \in SettingKeys : old[key] = ""
    BY <2>1, ExportedKeys
  <2> HIDE DEF old
  <2> QED BY <1>1, <2>1, <2>2
<1>3. /\ f.metadata["source_type"] = old["source_type"]
      /\ f.metadata["storage_policy"] = old["storage_policy"]
  <2>1. \A key \in {"source_type", "storage_policy"} : key \in MetadataKeys \ {"generated_expression"}
    BY DEF MetadataKeys
  <2> HIDE DEF f, old
  <2> QED BY <1>1, <2>1
<1>4. /\ Through(F, Lists \cup {"struct"}, path) =>
           old["source_type"] = F[path].properties.source_type /\ old["storage_policy"] = F[path].properties.storage_policy
      /\ ~Through(F, Lists \cup {"struct"}, path) => old["source_type"] = "" /\ old["storage_policy"] = ""
  <2> HIDE DEF F
  <2> QED BY DEF Exported, NoMetadata, MetadataKeys
<1>5. StoragePolicy(f) = IF old["source_type"] = "atif" THEN old["storage_policy"] ELSE ""
  BY <1>3 DEF StoragePolicy
<1> HIDE DEF f, old
<1>6. CASE path \notin DOMAIN source.fields
  <2>1. F[path].properties.source_type = "" /\ F[path].properties.storage_policy = ""
    <3>1. F[path].properties = [source_type |-> "", storage_policy |-> ""]
      BY <1>6, SourceFields
    <3> DEFINE p == F[path].properties
    <3>2. p = [source_type |-> "", storage_policy |-> ""]
      BY <3>1
    <3> HIDE DEF p, F
    <3>3. p.source_type = "" /\ p.storage_policy = ""
      BY <3>2
    <3> QED BY <3>3 DEF p
  <2>2. old["storage_policy"] = ""
    BY <1>4, <2>1
  <2> QED BY <1>1, <1>2, <1>5, <1>6, <2>2 DEF f
<1>7. CASE path \in DOMAIN source.fields
  <2> DEFINE policy == source.fields[path].metadata.storage_policy
  <2>1. F[path] = [type |-> source.fields[path].type, properties |-> ImportSourceMetadata(source)[path]]
    BY <1>7, SourceFields
  <2>2. ImportSourceMetadata(source)[path] =
          IF Imported(source, path) THEN [source_type |-> SourceOf(source, path), storage_policy |-> policy]
          ELSE [source_type |-> "", storage_policy |-> ""]
    BY <1>7 DEF ImportSourceMetadata
  <2>3. SourceAssumption(source) /\ \A q \in DOMAIN source.fields : F[q].type = source.fields[q].type
    <3>1. \A q \in DOMAIN source.fields :
            F[q] = [type |-> source.fields[q].type, properties |-> ImportSourceMetadata(source)[q]]
      BY SourceFields
    <3>2. SourceAssumption(source)
      BY SourceFields
    <3> HIDE DEF F, source
    <3>3. ASSUME NEW q \in DOMAIN source.fields PROVE F[q].type = source.fields[q].type
      <4>1. F[q] = [type |-> source.fields[q].type, properties |-> ImportSourceMetadata(source)[q]]
        BY <3>1
      <4> QED BY <4>1
    <3> QED BY <3>2, <3>3
  <2> HIDE DEF F, source
  <2>4. Ancestors(path) \subseteq DOMAIN source.fields
    BY <1>7, <2>3 DEF SourceAssumption
  <2>5. policy # "" =>
          /\ Through(source.fields, {"struct", "list"}, path) /\ SourceOf(source, path) = "atif"
          /\ \A q \in Ancestors(path) : SourceOf(source, q) # ""
    BY <1>7, <2>3 DEF SourceAssumption
  <2> DEFINE properties == F[path].properties
  <2>6. CASE policy = ""
    <3>1. properties.storage_policy = ""
      <4>1. properties = ImportSourceMetadata(source)[path]
        BY <2>1
      <4> HIDE DEF policy, properties
      <4>2. CASE Imported(source, path)
        <5>1. properties = [source_type |-> SourceOf(source, path), storage_policy |-> policy]
          BY <2>2, <4>1, <4>2
        <5> QED BY <2>6, <5>1
      <4>3. CASE ~Imported(source, path)
        <5>1. properties = [source_type |-> "", storage_policy |-> ""]
          BY <2>2, <4>1, <4>3
        <5> QED BY <5>1
      <4> QED BY <4>2, <4>3
    <3>2. old["storage_policy"] = ""
      BY <1>4, <3>1
    <3>3. StoragePolicy(f) = policy
      BY <1>5, <2>6, <3>2
    <3> QED BY <1>1, <1>2, <1>7, <3>3 DEF f, F, source
  <2>7. CASE policy # ""
    <3>1. Imported(source, path)
      BY <2>5, <2>7 DEF Imported, ImportedTypes
    <3>2. properties = [source_type |-> "atif", storage_policy |-> policy]
      <4>1. properties = ImportSourceMetadata(source)[path]
        BY <2>1
      <4>2. ImportSourceMetadata(source)[path] = [source_type |-> SourceOf(source, path), storage_policy |-> policy]
        BY <2>2, <3>1
      <4>3. SourceOf(source, path) = "atif"
        BY <2>5, <2>7
      <4> HIDE DEF properties, policy
      <4> QED BY <4>1, <4>2, <4>3
    <3>3. Through(F, Lists \cup {"struct"}, path)
      BY <2>3, <2>4, <2>5, <2>7 DEF Through, Lists
    <3>4. properties.source_type = "atif" /\ properties.storage_policy = policy
      <4> HIDE DEF properties, policy
      <4> QED BY <3>2
    <3>5. old["source_type"] = "atif" /\ old["storage_policy"] = policy
      <4> HIDE DEF policy
      <4> QED BY <1>4, <3>3, <3>4
    <3>6. StoragePolicy(f) = policy
      <4> HIDE DEF policy
      <4> QED BY <1>5, <3>5
    <3> QED BY <1>1, <1>2, <1>7, <3>6 DEF f, F, source
  <2> QED BY <2>6, <2>7
<1> QED BY <1>6, <1>7

\* A blob is binary or a listed column, a text binary: no field loses the fields below it.
LEMMA BlobKinds ==
  ASSUME PlanInv, DataInv, StoredAs, phase \in Bound, NEW path \in DOMAIN types.fields
  PROVE  LET type == types.fields[path].type   policy == StoragePolicy(ArrowSchema.fields[path]) IN
         /\ IsBlobColumn(ArrowSchema, WriteOptions, path) <=>
              /\ Len(path) = 1
              /\ path[1] \in ToSet(data.blob_columns) \/ (type = "binary" /\ policy # "text")
         /\ Len(path) = 1 /\ path[1] \in ToSet(data.blob_columns) => type = "string"
         /\ InDocument(ArrowSchema, path) <=> type = "binary" /\ Through(types.fields, {"struct", "list"}, path)
         /\ Promotes(WriteOptions)
<1> DEFINE F == types.fields   A == ArrowSchema.fields
<1>1. Promotes(WriteOptions) /\ WriteOptions.blob_columns = data.blob_columns
  <2>1. data.sizes["blob_inline_size_threshold"] \in Nat
    <3>1. data.sizes \in [Sizes -> Nat] /\ "blob_inline_size_threshold" \in Sizes
      BY DEF DataInv, SizesFit, Sizes
    <3> QED BY <3>1
  <2>2. WriteOptions.blob_inline_size_threshold = data.sizes["blob_inline_size_threshold"]
    BY DEF WriteOptions
  <2> QED BY <2>1, <2>2 DEF Promotes, WriteOptions
<1>2. \A q \in DOMAIN F : A[q].type = F[q].type
  BY DEF StoredAs, Arrowed
<1>3. ASSUME Len(path) = 1, path[1] \in ToSet(data.blob_columns) PROVE F[path].type = "string"
  <2>1. BlobsFit(data.blob_columns) /\ Spelled
    BY BoundSpelled DEF DataInv, Queried, Bound
  <2>2. path = Column(path[1])
    BY <1>3, <2>1, OnePart DEF Spelled
  <2>3. F[Column(path[1])].type = "string"
    BY <1>3, <2>1 DEF BlobsFit
  <2> QED BY <2>2, <2>3
<1>4. Ancestors(path) \subseteq DOMAIN F
  BY BoundSpelled DEF Spelled, Queried, Bound
<1>5. InDocument(ArrowSchema, path) <=> F[path].type = "binary" /\ Through(F, {"struct", "list"}, path)
  BY <1>2, <1>4 DEF InDocument, Through
<1>6. IsBlobColumn(ArrowSchema, WriteOptions, path) <=>
        /\ Len(path) = 1
        /\ path[1] \in ToSet(data.blob_columns) \/ (F[path].type = "binary" /\ StoragePolicy(A[path]) # "text")
  BY <1>1, <1>2 DEF IsBlobColumn
<1> QED BY <1>1, <1>3, <1>5, <1>6

LEMMA StoredType ==
  ASSUME PlanInv, DataInv, StoredAs, phase \in Bound, NEW path \in DOMAIN types.fields
  PROVE  LET type == types.fields[path].type   policy == StoragePolicy(ArrowSchema.fields[path]) IN
         /\ path \in DOMAIN Table.fields /\ path \in DOMAIN Blobs.fields
         /\ Table.fields[path].type = Blobs.fields[path].type
         /\ Blobs.fields[path].type = IF BecomesBlob(ArrowSchema, WriteOptions, path) THEN "blob" ELSE type
<1>1. path \in DOMAIN ArrowSchema.fields /\ path \in DOMAIN Blobs.fields /\ path \in DOMAIN Table.fields
  BY DEF StoredAs, Arrowed, Blobbed, EncodesAs
<1>2. Table.fields[path].type = Blobs.fields[path].type
  BY <1>1 DEF StoredAs, EncodesAs
<1>3. Blobs.fields[path].type =
        IF BecomesBlob(ArrowSchema, WriteOptions, path) THEN "blob" ELSE ArrowSchema.fields[path].type
  BY <1>1 DEF StoredAs, Blobbed
<1>4. ArrowSchema.fields[path].type = types.fields[path].type
  BY <1>1 DEF StoredAs, Arrowed
<1> QED BY <1>1, <1>2, <1>3, <1>4

\* What the field holds before the encodings.
LEMMA BlobSettings ==
  ASSUME PlanInv, StoredAs, phase \in Queried, NEW path \in DOMAIN types.fields, NEW key \in SettingKeys
  PROVE  Blobs.fields[path].metadata[key] =
           IF key = "compression" /\ BecomesText(ArrowSchema, WriteOptions, path) THEN "lz4" ELSE ""
<1>1. path \in DOMAIN Blobs.fields /\ key \in MetadataKeys /\ "compression" \in SettingKeys
  BY DEF StoredAs, Arrowed, Blobbed, SettingKeys, MetadataKeys
<1>2. ArrowSchema.fields[path].metadata[key] = "" /\ ArrowSchema.fields[path].metadata["compression"] = ""
  BY <1>1, PolicyCrosses
<1>3. Blobs.fields[path].metadata[key] =
        IF /\ BecomesText(ArrowSchema, WriteOptions, path) /\ key = "compression"
           /\ ArrowSchema.fields[path].metadata.compression = ""
        THEN "lz4" ELSE ArrowSchema.fields[path].metadata[key]
  BY <1>1 DEF StoredAs, Blobbed
<1> QED BY <1>2, <1>3

\* What a source says of the storage of a field is how it is stored, in every statement
\* (source_metadata.cpp, ImportField; column_storage/atif.rs, configure_field).
THEOREM PoliciesKept == PlanSpec => []PolicyKept
<1>1. PlanInv /\ DataInv /\ EncInv => PolicyKept
  <2> SUFFICES ASSUME PlanInv, DataInv, EncInv, phase = "opened", NEW path \in DOMAIN statement.source.fields,
                      statement.source.fields[path].type = "binary"
               PROVE  LET policy == statement.source.fields[path].metadata.storage_policy IN
                        /\ policy = "text" => /\ stored.fields[path].type = "binary"
                                              /\ stored.fields[path].metadata.compression # ""
                        /\ stored.fields[path].type = "blob"
                             <=> policy # "text" /\ (policy = "blob" \/ Len(path) = 1)
    BY DEF PolicyKept
  <2> DEFINE source == statement.source
             policy == source.fields[path].metadata.storage_policy
             type == stored.fields[path].type
             compression == stored.fields[path].metadata["compression"]
             F == types.fields
             S == ArrowSchema   W == WriteOptions
  <2>1. StoredAs /\ stored = Table /\ phase \in Bound /\ phase \in Queried
    BY Storage DEF Bound, Queried, PlanInv, OpenedInv, Table
  <2>2. path \in DOMAIN F /\ F[path].type = "binary" /\ SourceAssumption(source)
    <3>1. F[path] = [type |-> source.fields[path].type, properties |-> ImportSourceMetadata(source)[path]]
      BY <2>1, SourceFields
    <3>2. path \in DOMAIN F /\ SourceAssumption(source)
      BY <2>1, SourceFields
    <3> HIDE DEF F
    <3>3. F[path].type = source.fields[path].type
      BY <3>1
    <3> QED BY <3>2, <3>3
  <2>3. StoragePolicy(S.fields[path]) = policy
    BY <2>1, <2>2, PolicyCrosses
  <2>4. /\ IsBlobColumn(S, W, path) <=> Len(path) = 1 /\ policy # "text"
        /\ InDocument(S, path) <=> Through(F, {"struct", "list"}, path)
        /\ Promotes(W)
    BY <2>1, <2>2, <2>3, BlobKinds
  <2>5. policy # "" => Through(F, {"struct", "list"}, path)
    <3>1. policy # "" => Through(source.fields, {"struct", "list"}, path)
      BY <2>2 DEF SourceAssumption
    <3>2. Ancestors(path) \subseteq DOMAIN source.fields
      BY <2>2 DEF SourceAssumption
    <3>3. ASSUME NEW q \in DOMAIN source.fields PROVE F[q].type = source.fields[q].type
      <4>1. F[q] = [type |-> source.fields[q].type, properties |-> ImportSourceMetadata(source)[q]]
        BY <2>1, SourceFields
      <4> HIDE DEF F
      <4> QED BY <4>1
    <3> HIDE DEF F, policy, source
    <3> QED BY <3>1, <3>2, <3>3 DEF Through
  <2>6. /\ BecomesText(S, W, path) <=> policy = "text"
        /\ BecomesBlob(S, W, path) <=> policy # "text" /\ (policy = "blob" \/ Len(path) = 1)
    <3> HIDE DEF policy, F, S, W
    <3> QED BY <2>3, <2>4, <2>5 DEF BecomesText, BecomesBlob
  <2>7. type = IF BecomesBlob(S, W, path) THEN "blob" ELSE "binary"
    BY <2>1, <2>2, StoredType
  <2>8. ASSUME policy = "text" PROVE compression # ""
    <3>1. "compression" \in SettingKeys /\ "compression" \in MetadataKeys
      BY DEF SettingKeys, MetadataKeys
    <3>2. Blobs.fields[path].metadata["compression"] = "lz4"
      BY <2>1, <2>2, <2>6, <2>8, <3>1, BlobSettings
    <3>3. path \in DOMAIN Table.fields
      BY <2>1, <2>2, StoredType
    <3>4. Encoded(Blobs, ColumnEncodings, path, "compression", compression)
      BY <2>1, <3>1, <3>3 DEF StoredAs, EncodesAs
    <3> HIDE DEF compression
    <3> QED BY <3>2, <3>4 DEF Encoded
  <2>9. policy = "text" => type = "binary" /\ compression # ""
    <3> HIDE DEF policy, type, compression
    <3> QED BY <2>6, <2>7, <2>8
  <2>10. type = "blob" <=> policy # "text" /\ (policy = "blob" \/ Len(path) = 1)
    <3> HIDE DEF policy, type, compression
    <3> QED BY <2>6, <2>7
  <2> QED BY <2>9, <2>10
<1> QED BY <1>1, PlanInvariant, DataInvariant, EncInvariant, PTL
-----------------------------------------------------------------------------
(***************************************************************************)
(* The settings, by the field they were made for.                          *)
(***************************************************************************)
LEMMA PolicyProperty ==
  ASSUME PlanInv, phase \in Queried, NEW path \in DOMAIN statement.source.fields
  PROVE  types.fields[path].properties.storage_policy = statement.source.fields[path].metadata.storage_policy
<1> DEFINE source == statement.source
           policy == source.fields[path].metadata.storage_policy
           properties == types.fields[path].properties
<1>1. properties = ImportSourceMetadata(source)[path]
  <2>1. types.fields[path] = [type |-> source.fields[path].type, properties |-> ImportSourceMetadata(source)[path]]
    BY SourceFields
  <2> QED BY <2>1
<1>2. ImportSourceMetadata(source)[path] =
        IF Imported(source, path) THEN [source_type |-> SourceOf(source, path), storage_policy |-> policy]
        ELSE [source_type |-> "", storage_policy |-> ""]
  BY DEF ImportSourceMetadata
<1>3. SourceAssumption(source)
  BY SourceFields
<1>4. policy # "" => /\ Through(source.fields, {"struct", "list"}, path) /\ SourceOf(source, path) = "atif"
                     /\ \A q \in Ancestors(path) : SourceOf(source, q) # ""
  BY <1>3 DEF SourceAssumption
<1>5. policy # "" => Imported(source, path)
  BY <1>4 DEF Imported, ImportedTypes
<1> HIDE DEF properties, policy, source
<1>6. CASE Imported(source, path)
  <2>1. properties = [source_type |-> SourceOf(source, path), storage_policy |-> policy]
    BY <1>1, <1>2, <1>6
  <2>2. properties.storage_policy = policy
    BY <2>1
  <2> QED BY <2>2 DEF properties, policy, source
<1>7. CASE ~Imported(source, path)
  <2>1. properties = [source_type |-> "", storage_policy |-> ""]
    BY <1>1, <1>2, <1>7
  <2>2. properties.storage_policy = policy
    BY <1>5, <1>7, <2>1
  <2> QED BY <2>2 DEF properties, policy, source
<1> QED BY <1>6, <1>7

LEMMA TextsAre ==
  ASSUME PlanInv, DataInv, StoredAs, phase \in Bound, NEW path \in DOMAIN types.fields
  PROVE  BecomesText(ArrowSchema, WriteOptions, path) <=> IsAtifText(path)
<1> DEFINE F == types.fields   S == ArrowSchema   source == statement.source
           policy == StoragePolicy(S.fields[path])
<1>0. phase \in Queried
  BY DEF Bound, Queried
<1>1. /\ IsBlobColumn(S, WriteOptions, path) <=>
           Len(path) = 1 /\ (path[1] \in ToSet(data.blob_columns) \/ (F[path].type = "binary" /\ policy # "text"))
      /\ Len(path) = 1 /\ path[1] \in ToSet(data.blob_columns) => F[path].type = "string"
      /\ InDocument(S, path) <=> F[path].type = "binary" /\ Through(F, {"struct", "list"}, path)
  BY BlobKinds
<1>2. BecomesText(S, WriteOptions, path)
        <=> F[path].type = "binary" /\ policy = "text" /\ Through(F, {"struct", "list"}, path)
  <2> HIDE DEF F, S, policy
  <2> QED BY <1>1 DEF BecomesText, policy
<1>3. policy = IF path \in DOMAIN source.fields THEN source.fields[path].metadata.storage_policy ELSE ""
  BY <1>0, PolicyCrosses
<1>4. F[path].properties.storage_policy = policy
  <2>1. CASE path \in DOMAIN source.fields
    BY <1>0, <1>3, <2>1, PolicyProperty
  <2>2. CASE path \notin DOMAIN source.fields
    <3> DEFINE p == F[path].properties
    <3>1. p = [source_type |-> "", storage_policy |-> ""]
      BY <1>0, <2>2, SourceFields
    <3> HIDE DEF p, F, policy, source, S
    <3>2. p.storage_policy = ""
      BY <3>1
    <3> QED BY <1>3, <2>2, <3>2 DEF p
  <2> QED BY <2>1, <2>2
<1>5. policy = "text" => Through(F, {"struct", "list"}, path)
  <2> SUFFICES ASSUME policy = "text" PROVE Through(F, {"struct", "list"}, path)
    OBVIOUS
  <2>1. path \in DOMAIN source.fields /\ source.fields[path].metadata.storage_policy = "text"
    <3> HIDE DEF policy
    <3> QED BY <1>3
  <2>2. SourceAssumption(source)
    BY <1>0, SourceFields
  <2>3. Through(source.fields, {"struct", "list"}, path) /\ Ancestors(path) \subseteq DOMAIN source.fields
    BY <2>1, <2>2 DEF SourceAssumption
  <2>4. ASSUME NEW q \in DOMAIN source.fields PROVE F[q].type = source.fields[q].type
    <3>1. F[q] = [type |-> source.fields[q].type, properties |-> ImportSourceMetadata(source)[q]]
      BY <1>0, SourceFields
    <3> HIDE DEF F
    <3> QED BY <3>1
  <2> HIDE DEF F, source, policy
  <2> QED BY <2>3, <2>4 DEF Through
<1>6. IsAtifText(path) <=> F[path].type = "binary" /\ policy = "text"
  BY <1>4 DEF IsAtifText
<1> HIDE DEF F, S, policy, source
<1>7. BecomesText(S, WriteOptions, path) <=> IsAtifText(path)
  BY <1>2, <1>5, <1>6
<1> QED BY <1>7 DEF S

LEMMA KeepDotted ==
  ASSUME PlanInv, DataInv, StoredAs, phase \in Bound
  PROVE  /\ DOMAIN Blobs.fields = DOMAIN types.fields
         /\ \A path \in DOMAIN types.fields : Dotted(Blobs.fields, path) <=> Dotted(types.fields, path)
<1> DEFINE F == types.fields   B == Blobs.fields   T == Lists \cup {"struct"}
<1>1. DOMAIN B = DOMAIN F
  BY DEF StoredAs, Arrowed, Blobbed
<1>2. ASSUME NEW q \in DOMAIN F PROVE B[q].type \in T <=> F[q].type \in T
  <2> DEFINE policy == StoragePolicy(ArrowSchema.fields[q])
  <2>1. B[q].type = IF BecomesBlob(ArrowSchema, WriteOptions, q) THEN "blob" ELSE F[q].type
    BY StoredType
  <2>2. BecomesBlob(ArrowSchema, WriteOptions, q) => F[q].type \in {"string", "binary"}
    <3>1. /\ IsBlobColumn(ArrowSchema, WriteOptions, q) <=>
               Len(q) = 1 /\ (q[1] \in ToSet(data.blob_columns) \/ (F[q].type = "binary" /\ policy # "text"))
          /\ Len(q) = 1 /\ q[1] \in ToSet(data.blob_columns) => F[q].type = "string"
          /\ InDocument(ArrowSchema, q) <=> F[q].type = "binary" /\ Through(F, {"struct", "list"}, q)
      BY BlobKinds
    <3> HIDE DEF F, policy
    <3> QED BY <3>1 DEF BecomesBlob
  <2> HIDE DEF F, B
  <2> QED BY <2>1, <2>2 DEF Lists
<1>3. ASSUME NEW path \in DOMAIN F PROVE Through(B, T, path) <=> Through(F, T, path)
  <2>1. Ancestors(path) \subseteq DOMAIN F
    BY BoundSpelled DEF Spelled, Bound, Queried
  <2> HIDE DEF F, B, T
  <2> QED BY <1>2, <2>1 DEF Through
<1> HIDE DEF F, B
<1>4. \A path \in DOMAIN F : Dotted(B, path) <=> Dotted(F, path)
  BY <1>3 DEF Dotted
<1> QED BY <1>1, <1>4 DEF F, B

\* The field a setting was made for, under the name it crosses with.
Meant(d, p) ==
  /\ FieldOf(d[2].column) = {p} /\ p \in DOMAIN types.fields /\ ColumnOf(d) = FlattenSeq(p)
  /\ EncodingTarget(Blobs, ColumnOf(d)) = {p} /\ Target(Blobs, ColumnOf(d)) = p
  /\ Column(ColumnOf(d)) \in DOMAIN types.fields => Len(p) = 1

LEMMA MeantFor ==
  ASSUME PlanInv, DataInv, StoredAs, phase \in Bound, NEW d, FieldOf(d[2].column) # {}
  PROVE  \E p : Meant(d, p)
<1>1. Tabular(types) /\ Spelled
  BY BoundSpelled DEF PlanInv, TypesInv, Bound, Queried
<1>2. PICK p : StandsFor(d[2].column, p)
  BY <1>1, OneField
<1>3. /\ FieldOf(d[2].column) = {p} /\ p \in DOMAIN types.fields /\ ColumnOf(d) = FlattenSeq(p)
  BY <1>2 DEF StandsFor, ColumnOf
<1>4. EncodingTarget(Blobs, FlattenSeq(p)) = {p}
  BY <1>1, <1>2, KeepDotted, TargetOf
<1>5. Target(Blobs, ColumnOf(d)) = p
  BY <1>3, <1>4 DEF Target
<1>6. Column(ColumnOf(d)) \in DOMAIN types.fields => Len(p) = 1
  BY <1>1, <1>2, ColumnFirst DEF ColumnOf
<1> QED BY <1>3, <1>4, <1>5, <1>6 DEF Meant

\* The settings asked for a field, among those made.
LEMMA AskedIsMade ==
  ASSUME DOMAIN options = {}, NEW option \in DOMAIN SettingOf, NEW path
  PROVE  /\ \A e \in ToSet(Asked(option)) : <<SettingOf[option], e>> \in Made
         /\ \A d \in Made : d[1] = SettingOf[option] => d[2] \in ToSet(Asked(option)) /\ d = <<SettingOf[option], d[2]>>
<1>1. ASSUME NEW e \in ToSet(Asked(option)) PROVE <<SettingOf[option], e>> \in Made
  <2>1. <<SettingOf[option], e>> \in SettingsOf(option)
    BY DEF SettingsOf
  <2> QED BY <2>1 DEF Made
<1>2. ASSUME NEW d \in Made, d[1] = SettingOf[option]
      PROVE  d[2] \in ToSet(Asked(option)) /\ d = <<SettingOf[option], d[2]>>
  <2>1. PICK o \in DOMAIN SettingOf : d \in SettingsOf(o)
    BY DEF Made
  <2>2. PICK e \in ToSet(Asked(o)) : d = <<SettingOf[o], e>>
    BY <2>1 DEF SettingsOf
  <2>3. o = option
    BY <1>2, <2>2, SettingNames
  <2> QED BY <2>2, <2>3
<1> QED BY <1>1, <1>2

LEMMA OneSetting ==
  ASSUME PlanInv, DataInv, EncInv, StoredAs, phase = "opened", NEW path \in DOMAIN types.fields,
         NEW option \in DOMAIN SettingOf
  PROVE  LET key     == SettingOf[option]
             value   == Table.fields[path].metadata[key]
             default == IF key = "compression" /\ IsAtifText(path) THEN "lz4" ELSE ""
         IN SettingsAsked(path, option) = {value} \/ (SettingsAsked(path, option) = {} /\ value = default)
<1> DEFINE key   == SettingOf[option]
           E     == ColumnEncodings
           q     == data.column_encodings
           value == Table.fields[path].metadata[key]
           default == IF key = "compression" /\ IsAtifText(path) THEN "lz4" ELSE ""
           asked == SettingsAsked(path, option)
<1>1. key \in SettingKeys /\ key \in MetadataKeys
  <2>1. key \in SettingKeys
    BY SettingNames
  <2> HIDE DEF key
  <2> QED BY <2>1 DEF SettingKeys, MetadataKeys
<1>2. phase \in Bound /\ phase \in Queried /\ DOMAIN options = {}
  BY DEF PlanInv, OptionsInv, Bound, Queried
<1>3. Encoded(Blobs, E, path, key, value)
  <2>1. path \in DOMAIN Table.fields
    BY <1>2, StoredType
  <2> QED BY <1>1, <2>1 DEF StoredAs, EncodesAs
<1>4. Blobs.fields[path].metadata[key] = default
  <2>1. BecomesText(ArrowSchema, WriteOptions, path) <=> IsAtifText(path)
    BY <1>2, TextsAre
  <2>2. Blobs.fields[path].metadata[key] =
          IF key = "compression" /\ BecomesText(ArrowSchema, WriteOptions, path) THEN "lz4" ELSE ""
    BY <1>1, <1>2, BlobSettings
  <2> HIDE DEF key
  <2> QED BY <2>1, <2>2
<1>5. /\ \A i, j \in DOMAIN q : q[i].column = q[j].column => i = j
      /\ \A d \in Made : \E i \in DOMAIN q : q[i].column = ColumnOf(d) /\ q[i][d[1]] = d[2].value
      /\ \A i \in DOMAIN q : q[i][key] # "" =>
           \E d \in Made : d[1] = key /\ ColumnOf(d) = q[i].column /\ d[2].value = q[i][key]
      /\ \A d \in Made : Admitted(d)
  <2> HIDE DEF key
  <2>1. Kept(q, Made) /\ \A d \in Made : Admitted(d)
    BY <1>2 DEF EncInv, Recorded
  <2>2. \A i, j \in DOMAIN q : SameName(q[i].column, q[j].column) => i = j
    BY <2>1 DEF Kept
  <2>3. \A i \in DOMAIN q : q[i][key] # "" =>
           \E d \in Made : d[1] = key /\ ColumnOf(d) = q[i].column /\ d[2].value = q[i][key]
    BY <1>1, <2>1 DEF Kept
  <2>4. \A d \in Made : \E i \in DOMAIN q : q[i].column = ColumnOf(d) /\ q[i][d[1]] = d[2].value
    BY <2>1 DEF Kept
  <2> QED BY <2>1, <2>2, <2>3, <2>4, SameNames
<1>6. /\ \A name \in DOMAIN E : \E i \in DOMAIN q : E[name] = q[i] /\ name = q[i].column
      /\ \A i \in DOMAIN q : q[i].column \in DOMAIN E /\ E[q[i].column] = q[i]
      /\ \A name \in DOMAIN E : Settings(E[name])[key] = E[name][key]
  <2>1. \A name \in DOMAIN E : Entry(E[name])
    BY DEF StoredAs, EachEntry
  <2>2. \A name \in DOMAIN E : Settings(E[name])[key] = E[name][key]
    <3> HIDE DEF key, E
    <3> QED BY <1>1, <2>1, EntrySettings
  <2> QED BY <2>2 DEF StoredAs, EachEntry
<1>7. ASSUME NEW e \in ToSet(Asked(option)), FieldOf(e.column) = {path}
      PROVE  \E i \in DOMAIN q : /\ q[i][key] = e.value /\ e.value # ""
                                 /\ q[i].column = FlattenSeq(path) /\ Target(Blobs, q[i].column) = path
  <2> DEFINE d == <<key, e>>
  <2>1. d \in Made
    BY <1>2, AskedIsMade
  <2>2. d[1] = key /\ d[2] = e
    OBVIOUS
  <2> HIDE DEF d, key
  <2>3. PICK p : Meant(d, p)
    BY <1>2, <1>7, <2>2, MeantFor
  <2>4. p = path
    BY <1>7, <2>2, <2>3 DEF Meant
  <2>5. PICK i \in DOMAIN q : q[i].column = ColumnOf(d) /\ q[i][d[1]] = d[2].value
    BY <1>5, <2>1
  <2>6. e.value # ""
    BY <1>5, <2>1, <2>2 DEF Admitted
  <2> QED BY <2>2, <2>3, <2>4, <2>5, <2>6 DEF Meant
<1>8. \A v : v \in asked <=> \E e \in ToSet(Asked(option)) : FieldOf(e.column) = {path} /\ v = e.value
  BY DEF SettingsAsked
<1> DEFINE SetBy(name) == Target(Blobs, name) = path /\ Settings(E[name])[key] # "" /\ value = Settings(E[name])[key]
<1>9. CASE \E name \in DOMAIN E : SetBy(name)
  <2>1. PICK name \in DOMAIN E : SetBy(name)
    BY <1>9
  <2> HIDE DEF key, E, q, value, asked
  <2>2. PICK i \in DOMAIN q : E[name] = q[i] /\ name = q[i].column
    BY <1>6
  <2>3. value = q[i][key] /\ q[i][key] # "" /\ Target(Blobs, name) = path
    BY <1>6, <2>1, <2>2
  <2>4. PICK d \in Made : d[1] = key /\ ColumnOf(d) = q[i].column /\ d[2].value = q[i][key]
    BY <1>5, <2>3
  <2>5. PICK p : Meant(d, p)
    BY <1>2, <1>5, <2>4, MeantFor DEF Admitted
  <2>6. p = path
    BY <2>2, <2>3, <2>4, <2>5 DEF Meant
  <2>7. d[2] \in ToSet(Asked(option))
    BY <1>2, <2>4, AskedIsMade DEF key
  <2>8. value \in asked
    BY <1>8, <2>3, <2>4, <2>5, <2>6, <2>7 DEF Meant
  <2>9. ASSUME NEW v \in asked PROVE v = value
    <3>1. PICK e \in ToSet(Asked(option)) : FieldOf(e.column) = {path} /\ v = e.value
      BY <1>8, <2>9
    <3>2. PICK j \in DOMAIN q : q[j][key] = e.value /\ q[j].column = FlattenSeq(path)
      BY <1>7, <3>1
    <3>3. q[i].column = FlattenSeq(path)
      BY <2>4, <2>5, <2>6 DEF Meant
    <3>4. i = j
      <4>1. q[i].column = q[j].column
        BY <3>2, <3>3
      <4> QED BY <1>5, <4>1, Zenon
    <3> QED BY <2>3, <3>1, <3>2, <3>4
  <2>10. asked = {value}
    BY <2>8, <2>9
  <2> QED BY <2>10 DEF asked, value, key
<1>10. CASE ~\E name \in DOMAIN E : SetBy(name)
  <2>1. /\ value = Blobs.fields[path].metadata[key]
        /\ \A name \in DOMAIN E : Target(Blobs, name) = path => Settings(E[name])[key] = ""
    BY <1>3, <1>10 DEF Encoded
  <2>2. ASSUME NEW v \in asked PROVE FALSE
    <3> HIDE DEF key, E, q, value, asked
    <3>1. PICK e \in ToSet(Asked(option)) : FieldOf(e.column) = {path} /\ v = e.value
      BY <1>8, <2>2
    <3>2. PICK j \in DOMAIN q : q[j][key] = e.value /\ e.value # "" /\ Target(Blobs, q[j].column) = path
      BY <1>7, <3>1
    <3>3. q[j].column \in DOMAIN E /\ E[q[j].column] = q[j]
      BY <1>6
    <3>4. Settings(E[q[j].column])[key] = ""
      BY <2>1, <3>2, <3>3
    <3>5. Settings(E[q[j].column])[key] = q[j][key]
      BY <1>6, <3>3
    <3> QED BY <3>2, <3>4, <3>5
  <2>3. asked = {}
    <3> HIDE DEF asked
    <3> QED BY <2>2
  <2>4. value = default
    BY <1>4, <2>1
  <2> HIDE DEF asked, value, default
  <2> QED BY <2>3, <2>4 DEF asked, value, default, key
<1> QED BY <1>9, <1>10

\* In every statement each field is stored with the settings that name it, and no other
\* (column_encoding.rs, configure_column_encoding).
THEOREM SettingsKept == PlanSpec => []SettingsStored
<1>1. PlanInv /\ DataInv /\ EncInv => SettingsStored
  <2> SUFFICES ASSUME PlanInv, DataInv, EncInv, phase = "opened",
                      NEW path \in DOMAIN stored.fields, NEW option \in DOMAIN SettingOf
               PROVE  LET asked   == SettingsAsked(path, option)
                          default == IF option = "column_compression" /\ IsAtifText(path) THEN "lz4" ELSE ""
                      IN asked \cup (IF asked = {} THEN {default} ELSE {})
                           = {stored.fields[path].metadata[SettingOf[option]]}
    BY DEF SettingsStored
  <2> DEFINE key   == SettingOf[option]
             value == stored.fields[path].metadata[key]
             asked == SettingsAsked(path, option)
             default == IF option = "column_compression" /\ IsAtifText(path) THEN "lz4" ELSE ""
  <2>1. StoredAs /\ stored = Table
    BY Storage DEF Bound, PlanInv, OpenedInv, Table
  <2>2. path \in DOMAIN types.fields
    BY <2>1 DEF StoredAs, EncodesAs, Blobbed, Arrowed
  <2>3. option = "column_compression" <=> key = "compression"
    BY DEF SettingOf
  <2>4. asked = {value} \/ (asked = {} /\ value = IF key = "compression" /\ IsAtifText(path) THEN "lz4" ELSE "")
    BY <2>1, <2>2, OneSetting
  <2> HIDE DEF key, value, asked
  <2>5. asked = {value} \/ (asked = {} /\ value = default)
    BY <2>3, <2>4
  <2> HIDE DEF default
  <2>6. asked \cup (IF asked = {} THEN {default} ELSE {}) = {value}
    BY <2>5
  <2> QED BY <2>6 DEF asked, value, key, default
<1> QED BY <1>1, PlanInvariant, DataInvariant, EncInvariant, PTL
-----------------------------------------------------------------------------
(***************************************************************************)
(* What LanceBind accepts, the sink opens.                                 *)
(***************************************************************************)
Indexable ==
  \A i \in DOMAIN data.index_columns : ValidateIndexType(types, data.index_columns[i], data.index_kinds[i])

LEMMA BlobsAccepted ==
  ASSUME PlanInv, DataInv, StoredAs, phase = "bound"
  PROVE  ValidBlobColumns(ArrowSchema, WriteOptions)
<1> DEFINE names == data.blob_columns
<1>1. /\ WriteOptions.blob_columns = names
      /\ WriteOptions.blob_dedicated_size_threshold = data.sizes["blob_dedicated_size_threshold"]
  BY DEF WriteOptions
<1>2. BlobsFit(names) /\ SizesFit(data.sizes) /\ Tabular(types)
  BY DEF DataInv, PlanInv, TypesInv, Queried
<1>3. data.sizes["blob_dedicated_size_threshold"] # 0
  <2>1. "blob_dedicated_size_threshold" \in Sizes \ {"blob_inline_size_threshold"}
    BY DEF Sizes
  <2> QED BY <1>2, <2>1 DEF SizesFit
<1>4. ASSUME NEW name \in ToSet(names) PROVE IsUriColumn(ArrowSchema, name)
  <2>1. name \in ToSet(types.columns) /\ types.fields[Column(name)].type = "string"
    <3> HIDE DEF names
    <3>1. names \in Seq(ToSet(types.columns))
      BY <1>2 DEF BlobsFit
    <3>2. name \in ToSet(types.columns)
      BY <3>1, SequenceElements
    <3> QED BY <1>2, <3>2 DEF BlobsFit
  <2>2. Column(name) \in DOMAIN types.fields
    BY <1>2, <2>1 DEF Tabular
  <2>3. Column(name) \in DOMAIN ArrowSchema.fields /\ ArrowSchema.fields[Column(name)].type = "string"
    BY <2>1, <2>2 DEF StoredAs, Arrowed
  <2> QED BY <2>3 DEF IsUriColumn
<1>5. IsInjective(names)
  BY <1>2 DEF BlobsFit
<1> HIDE DEF names
<1> QED BY <1>1, <1>3, <1>4, <1>5 DEF ValidBlobColumns

LEMMA EncodingsAccepted ==
  ASSUME PlanInv, DataInv, EncInv, StoredAs, phase = "bound"
  PROVE  /\ ValidEncodings(Blobs, ColumnEncodings)
         /\ IsInjective([i \in DOMAIN data.column_encodings |-> data.column_encodings[i].column])
<1> DEFINE q == data.column_encodings   E == ColumnEncodings
<1>1. phase \in Bound /\ phase \in Queried
  BY DEF Bound, Queried
<1>2. Recorded(q, Made) /\ \A d \in Made : Admitted(d)
  BY <1>1 DEF EncInv
<1>3. \A name \in DOMAIN E : \E i \in DOMAIN q : E[name] = q[i] /\ name = q[i].column
  BY DEF StoredAs, EachEntry
<1> HIDE DEF q, E
<1>4. ASSUME NEW name \in DOMAIN E
      PROVE  /\ EncodingTarget(Blobs, name) # {}
             /\ \A path \in EncodingTarget(Blobs, name) : E[name].structural_encoding # "" => Len(path) = 1
  <2>1. PICK i \in DOMAIN q : E[name] = q[i] /\ name = q[i].column
    BY <1>3
  <2>2. PICK d \in Made : q[i].column = ColumnOf(d)
    BY <1>2 DEF Recorded
  <2>3. PICK p : Meant(d, p)
    BY <1>1, <1>2, MeantFor DEF Admitted
  <2>4. EncodingTarget(Blobs, name) = {p}
    BY <2>1, <2>2, <2>3 DEF Meant
  <2>5. ASSUME E[name].structural_encoding # "" PROVE Len(p) = 1
    <3> DEFINE key == "structural_encoding"
    <3>1. key \in SettingKeys /\ HasSetting(q[i], key)
      BY <2>1, <2>5 DEF SettingKeys, HasSetting
    <3>2. PICK s \in Made : s[1] = key /\ ColumnOf(s) = q[i].column
      <4>1. Kept(q, Made)
        BY <1>2 DEF Recorded
      <4> HIDE DEF key
      <4> QED BY <3>1, <4>1, KeptFrom
    <3>3. Column(ColumnOf(s)) \in DOMAIN types.fields
      BY <1>2, <3>2 DEF Admitted
    <3> QED BY <2>2, <2>3, <3>2, <3>3 DEF Meant
  <2> QED BY <2>4, <2>5
<1>5. ValidEncodings(Blobs, E)
  BY <1>4 DEF ValidEncodings
<1>6. IsInjective([i \in DOMAIN q |-> q[i].column])
  <2>1. \A i, j \in DOMAIN q : SameName(q[i].column, q[j].column) => i = j
    BY <1>2 DEF Recorded, Kept
  <2>2. \A i, j \in DOMAIN q : q[i].column = q[j].column => i = j
    BY <2>1, SameNames
  <2> QED BY <2>2 DEF IsInjective
<1> QED BY <1>5, <1>6 DEF q, E

LEMMA SchemaAccepted ==
  ASSUME PlanInv, DataInv, StoredAs, phase = "bound"
  PROVE  ValidateSchema(ArrowSchema)
<1> DEFINE s == statement.source.columns
           b == [i \in DOMAIN generated |-> generated[i].name]
<1>1. types.columns = s \o b /\ ValidateDuckDBType(types.fields) /\ ArrowSchema.columns = types.columns
  BY DEF PlanInv, TypesInv, Queried, StoredAs
<1>2. s # <<>> /\ s \in Seq(Seq(STRING))
  <2>1. statement \in Statements
    BY DEF PlanInv, OptionsInv
  <2> QED BY <2>1, PlanAssumption DEF SourceAssumption
<1>3. types.columns # <<>>
  <2>1. Aligned(types.columns, data.generated_expressions) /\ Tabular(types)
    BY Positions DEF Bound, PlanInv, TypesInv, Queried
  <2>2. PICK name \in ToSet(s) : TRUE
    <3> HIDE DEF s
    <3>1. 1 \in DOMAIN s
      BY <1>2
    <3> QED BY <3>1 DEF ToSet
  <2>3. Column(name) \in DOMAIN types.fields /\ Len(Column(name)) = 1
    <3>1. SourceAssumption(statement.source) /\ DOMAIN statement.source.fields \subseteq DOMAIN types.fields
      BY SourceFields DEF Queried
    <3> QED BY <2>2, <3>1, OneLong DEF SourceAssumption
  <2>4. \E x \in ToSet(types.columns) : Column(name) = Column(x)
    BY <2>1, <2>3 DEF Tabular
  <2> QED BY <2>4, SequenceElements
<1>4. \A path \in DOMAIN ArrowSchema.fields : ArrowSchema.fields[path].type # "unsupported"
  BY <1>1 DEF StoredAs, Arrowed, ValidateDuckDBType
<1> QED BY <1>1, <1>3, <1>4 DEF ValidateSchema

LEMMA IndexesAccepted ==
  ASSUME PlanInv, DataInv, StoredAs, phase = "bound", Indexable
  PROVE  ValidIndexPlan(Table, Indexes)
<1> DEFINE columns == data.index_columns   kinds == data.index_kinds   F == types.fields
<1>0. phase \in Bound /\ phase \in Queried
  BY DEF Bound, Queried
<1>1. /\ columns \in Seq(ToSet(types.columns)) /\ kinds \in Seq(IndexOptions) /\ Len(columns) = Len(kinds)
      /\ ValidateIndexColumns
  BY <1>0 DEF PlanInv, IndexInv, DataInv
<1>2. DOMAIN columns = DOMAIN kinds /\ \A i \in DOMAIN kinds : kinds[i] \in IndexOptions
  <2> HIDE DEF columns, kinds
  <2> QED BY <1>1
<1>3. /\ DOMAIN Indexes = DOMAIN kinds
      /\ \A i \in DOMAIN kinds : Indexes[i].column = columns[i] /\ Indexes[i].kind = kinds[i]
  BY DEF Indexes
<1>4. \A path \in DOMAIN F : path \in DOMAIN Table.fields
  BY <1>0, StoredType
<1>5. ASSUME NEW path \in DOMAIN F, F[path].type # "binary",
             ~(Len(path) = 1 /\ path[1] \in ToSet(data.blob_columns))
      PROVE  Table.fields[path].type = F[path].type
  <2>1. ~IsBlobColumn(ArrowSchema, WriteOptions, path) /\ ~InDocument(ArrowSchema, path)
    BY <1>0, <1>5, BlobKinds
  <2>2. ~BecomesBlob(ArrowSchema, WriteOptions, path)
    BY <2>1 DEF BecomesBlob
  <2> QED BY <1>0, <2>2, StoredType
<1>6. ASSUME NEW i \in DOMAIN kinds PROVE ValidateIndexType(Table, columns[i], kinds[i])
  <2> DEFINE column == columns[i]   kind == kinds[i]   path == Column(column)   item == <<column, <<>>>>
  <2>1. ValidateIndexType(types, column, kind) /\ kind \in IndexOptions
    BY <1>2 DEF Indexable
  <2>2. /\ path \in DOMAIN F /\ F[path].type \in IndexTypes(kind)
        /\ kind = "vector_index_columns" => item \in DOMAIN F /\ F[item].type = "float"
    BY <2>1 DEF ValidateIndexType
  <2>3. "binary" \notin IndexTypes(kind)
    <3> HIDE DEF kind
    <3> QED BY <2>1 DEF IndexOptions, IndexTypes
  <2>4. column \notin ToSet(data.blob_columns)
    <3>1. column \in ToSet(columns)
      BY <1>2 DEF ToSet
    <3> HIDE DEF columns, column
    <3> QED BY <1>1, <3>1 DEF ValidateIndexColumns, columns
  <2>5. Table.fields[path].type = F[path].type
    BY <1>5, <2>2, <2>3, <2>4, OneLong
  <2>6. kind = "vector_index_columns" => item \in DOMAIN Table.fields /\ Table.fields[item].type = "float"
    <3>1. Len(item) # 1
      OBVIOUS
    <3> HIDE DEF item, kind, F
    <3> QED BY <1>4, <1>5, <2>2, <3>1
  <2> HIDE DEF F
  <2> QED BY <1>4, <2>2, <2>5, <2>6 DEF ValidateIndexType
<1>7. \A i, j \in DOMAIN kinds : columns[i] = columns[j] => i = j
  BY <1>1, <1>2, SameNames DEF ValidateIndexColumns, Distinct
<1> HIDE DEF columns, kinds
<1> QED BY <1>3, <1>6, <1>7 DEF ValidIndexPlan

\* Only an unknown version, or an index its column's type does not have, is left to the sink
\* to refuse (lance_copy.cpp, LanceBind; ffi.rs, lance_conversion_open).
THEOREM BoundIsOpened == PlanSpec => []BoundOpens
<1>1. PlanInit => BoundOpens
  BY DEF PlanInit, BoundOpens
<1>2. PlanInv /\ DataInv /\ EncInv /\ BoundOpens /\ [PlanNext]_planVars => BoundOpens'
  <2> SUFFICES ASSUME PlanInv, DataInv, EncInv, BoundOpens, [PlanNext]_planVars, phase' = "failed"
               PROVE  BoundOpens'
    BY DEF BoundOpens
  <2>0. ASSUME UNCHANGED <<types, data>>, data.storage_version \notin StorageVersions \/ ~Indexable
        PROVE  BoundOpens'
    <3>1. data'.storage_version \notin StorageVersions \/
          \E i \in DOMAIN data'.index_columns :
            ~ValidateIndexType(types', data'.index_columns[i], data'.index_kinds[i])
      BY <2>0 DEF Indexable
    <3> QED BY <3>1 DEF BoundOpens, ValidateIndexType
  <2>1. CASE UNCHANGED planVars
    <3>1. phase = "failed" /\ UNCHANGED <<types, data>>
      BY <2>1 DEF planVars
    <3> QED BY <2>0, <3>1 DEF BoundOpens, Indexable
  <2>2. CASE LanceConversionOpen
    <3>1. phase = "bound" /\ UNCHANGED <<types, data>>
      BY <2>2 DEF LanceConversionOpen
    <3> SUFFICES ASSUME data.storage_version \in StorageVersions, Indexable PROVE FALSE
      BY <2>0, <3>1
    <3>2. StoredAs
      BY <3>1, Storage DEF Bound
    <3>3. data.sizes["target_file_size"] # 0
      <4>1. "target_file_size" \in Sizes \ {"blob_inline_size_threshold"}
        BY DEF Sizes
      <4> QED BY <4>1 DEF DataInv, SizesFit
    <3>4. /\ ValidateSchema(ArrowSchema) /\ ValidBlobColumns(ArrowSchema, WriteOptions)
          /\ ValidEncodings(Blobs, ColumnEncodings) /\ ValidIndexPlan(Table, Indexes)
          /\ IsInjective([i \in DOMAIN data.column_encodings |-> data.column_encodings[i].column])
      BY <3>1, <3>2, SchemaAccepted, BlobsAccepted, EncodingsAccepted, IndexesAccepted
    <3>5. ValidColumnStorage(ArrowSchema, WriteOptions, ColumnEncodings)
      BY <3>4 DEF ValidColumnStorage, Blobs
    <3>6. phase' = "opened"
      BY <2>2, <3>3, <3>4, <3>5 DEF LanceConversionOpen, Table
    <3> QED BY <3>6
  <2>3. CASE Reject
    BY <2>3 DEF Reject
  <2>4. CASE TakeOptions
    BY <2>3, <2>4 DEF TakeOptions
  <2>5. CASE BindSource
    BY <2>3, <2>5 DEF BindSource
  <2>6. CASE BindOption
    <3>1. phase = "options"
      BY <2>6 DEF BindOption
    <3>2. PICK option \in DOMAIN options :
            \/ SetMode(option) \/ SetSize(option) \/ SetStorageVersion(option)
            \/ ParseColumnSettings(option) \/ ParseBlobColumns(option) \/ ParseIndexColumns(option)
            \/ Reject
      BY <2>6 DEF BindOption
    <3>3. Reject \/ \E new : Consume(option, new)
      BY <3>2 DEF SetMode, SetSize, SetStorageVersion, ParseColumnSettings, ParseBlobColumns, ParseIndexColumns
    <3>4. phase' \in {"rejected", "options"}
      BY <3>1, <3>3 DEF Reject, Consume
    <3> QED BY <3>4
  <2>7. CASE EndOfOptions
    BY <2>3, <2>7 DEF EndOfOptions
  <2> QED BY <2>1, <2>2, <2>4, <2>5, <2>6, <2>7 DEF PlanNext
<1> QED BY <1>1, <1>2, PlanInvariant, DataInvariant, EncInvariant, PTL DEF PlanSpec
=============================================================================
