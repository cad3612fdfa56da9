----------------------------- MODULE RawMetadata -----------------------------
(***************************************************************************)
(* RawMetadata (sparrow-runtime, metadata/raw_metadata.rs): reading the    *)
(* raw schema of a data source and converting it to the table schema the   *)
(* user sees.  `try_from` dispatches on the source kind; each branch may   *)
(* fail on I/O (object-store URL, file, download, schema read, Pulsar      *)
(* admin), and otherwise ends in `from_raw_schema`, which runs             *)
(* convert_schema: every field through convert_field, collected into a     *)
(* Result that stops at the first error.                                   *)
(*                                                                         *)
(* A schema is a sequence of fields [name, type, nullable]; a type is a    *)
(* kind with, for timestamps, a unit and a time zone (NoTz when none).     *)
(* The I/O outcomes are not in the code's control: each is a choice.       *)
(***************************************************************************)
EXTENDS Naturals, Sequences

CONSTANTS
  Sources,   \* the sources a run reads: [kind, local, schema, config]
  NoTz       \* the absent time zone (None)

SourceKinds == {"Raw", "ParquetPath", "CsvPath", "CsvData", "PulsarSubscription"}

(* An arrow Field: a DataType is a kind with, for Timestamp only, a unit  *)
(* and an optional time zone.                                             *)
FieldType == [kind : STRING, unit : STRING, tz : STRING \cup {NoTz}]
Field == [name : STRING, type : FieldType, nullable : BOOLEAN]

ASSUME RawMetadataAssumption ==
  /\ NoTz \notin STRING
  /\ \A src \in Sources :
       /\ src \in [kind : SourceKinds, local : BOOLEAN, schema : Seq(Field),
                   config : BOOLEAN]
       /\ \A i \in DOMAIN src.schema :
            src.schema[i].type.kind # "Timestamp" => src.schema[i].type.tz = NoTz

VARIABLES
  source,    \* the source being read
  result     \* Pending, or the Result of try_from

vars == <<source, result>>

Ts(u, tz) == [kind |-> "Timestamp", unit |-> u, tz |-> tz]
Prim(k) == [kind |-> k, unit |-> "none", tz |-> NoTz]
Fld(n, t, nullable) == [name |-> n, type |-> t, nullable |-> nullable]

Ok(v) == [ok |-> TRUE, val |-> v, err |-> "none", col |-> "none"]
Err(e, c) == [ok |-> FALSE, val |-> <<>>, err |-> e, col |-> c]

(* No call made yet.                                                      *)
Pending == Err("pending", "none")

DecimalKinds == {"Decimal128", "Decimal256"}

(* The first and the last of a set of field indices.                       *)
FirstIndex(S) == CHOOSE i \in S : \A j \in S : i <= j
LastIndex(S) == CHOOSE i \in S : \A j \in S : j <= i

(* Mutant: a conversion that leaves a "UTC" time zone in place, as if it *)
(* were already the absence of one.                                       *)
ConvertFieldKeepUtc(f) ==
  CASE f.type.kind = "Timestamp" /\ f.type.tz \notin {NoTz, "UTC"} ->
         Ok(Fld(f.name, Ts(f.type.unit, NoTz), f.nullable))
    [] f.type.kind \in DecimalKinds ->
         Err("UnsupportedColumn", f.name)
    [] OTHER -> Ok(f)

(* convert_field: a time zone is dropped (the timestamp is read as UTC),  *)
(* a decimal column is an UnsupportedColumn error, the rest is unchanged. *)
ConvertField(f) ==
  CASE f.type.kind = "Timestamp" /\ f.type.tz # NoTz ->
         Ok(Fld(f.name, Ts(f.type.unit, NoTz), f.nullable))
    [] f.type.kind \in DecimalKinds ->
         Err("UnsupportedColumn", f.name)
    [] OTHER -> Ok(f)

(* Mutant: a conversion that does what the comments say, dropping the    *)
(* decimal columns from the table schema.                                 *)
ConvertSchemaDropDecimals(s) ==
  LET kept == SelectSeq(s, LAMBDA f : f.type.kind \notin DecimalKinds)
  IN  Ok([i \in DOMAIN kept |-> ConvertField(kept[i]).val])

(* Mutant: a conversion that reports the last failing field, not the first. *)
ConvertSchemaLastError(s) ==
  LET bad == { i \in DOMAIN s : ~ConvertField(s[i]).ok }
  IN  IF bad = {} THEN Ok([i \in DOMAIN s |-> ConvertField(s[i]).val])
      ELSE ConvertField(s[LastIndex(bad)])

(* convert_schema: map convert_field over the fields; collect() into a    *)
(* Result returns the first error, in field order.                        *)
ConvertSchema(s) ==
  LET bad == { i \in DOMAIN s : ~ConvertField(s[i]).ok }
  IN  IF bad = {} THEN Ok([i \in DOMAIN s |-> ConvertField(s[i]).val])
      ELSE ConvertField(s[FirstIndex(bad)])

(* from_raw_schema: the raw schema is kept beside its conversion.         *)
FromRawSchema(raw) ==
  LET t == ConvertSchema(raw)
  IN  IF t.ok THEN Ok([raw |-> raw, table |-> t.val]) ELSE t

(* try_from_pulsar: _publish_time (millisecond timestamp, not null) is    *)
(* appended to the topic's schema before the conversion.                  *)
PublishTime == Fld("_publish_time", Ts("Millisecond", NoTz), FALSE)

(* The errors each branch of try_from can return before from_raw_schema.  *)
IoErrors(src) ==
  CASE src.kind = "ParquetPath" /\ src.local -> {"ObjectStore", "LocalFile", "ReadSchema"}
    [] src.kind = "ParquetPath" -> {"ObjectStore", "Download", "LocalFile", "ReadSchema"}
    [] src.kind = "CsvPath" /\ src.local -> {"ObjectStore", "LocalFile", "ReadSchema"}
    [] src.kind = "CsvPath" -> {"ObjectStore", "Download", "ReadSchema"}
    [] src.kind = "CsvData" -> {"ReadSchema"}
    [] src.kind = "PulsarSubscription" /\ ~src.config -> {"PulsarSubscription"}
    [] src.kind = "PulsarSubscription" -> {"PulsarSchema"}
    [] src.kind = "Raw" -> {}

(* The raw schema a branch reads when its I/O succeeds.                   *)
RawSchemaOf(src) ==
  IF src.kind = "PulsarSubscription" THEN Append(src.schema, PublishTime)
  ELSE src.schema

(* A source with a missing Pulsar config never reaches the schema.        *)
Reads(src) == ~(src.kind = "PulsarSubscription" /\ ~src.config)

Init ==
  /\ source \in Sources
  /\ result = Pending

(* RawMetadata::try_from (or a direct from_raw_schema, kind "Raw").       *)
TryFrom ==
  /\ result = Pending
  /\ \/ \E e \in IoErrors(source) : result' = Err(e, "none")
     \/ /\ Reads(source)
        /\ result' = FromRawSchema(RawSchemaOf(source))
  /\ UNCHANGED source

Next == TryFrom

Spec == Init /\ [][Next]_vars

(* The unit tests of raw_metadata.rs: each calls from_raw_schema on a raw *)
(* schema and asserts the table schema (or the error) it gets.             *)
TestPlain ==
  << Fld("time", Ts("Nanosecond", NoTz), FALSE), Fld("subsort", Prim("UInt64"), FALSE),
     Fld("key", Prim("UInt64"), FALSE), Fld("a", Prim("Int64"), TRUE),
     Fld("b", Prim("Int64"), TRUE), Fld("c", Prim("Int64"), TRUE) >>

TestConversion(tz) ==
  << Fld("time", Prim("Utf8"), FALSE), Fld("time_zone", Ts("Nanosecond", tz), FALSE),
     Fld("subsort", Prim("UInt64"), FALSE), Fld("key", Prim("UInt64"), FALSE),
     Fld("a", Prim("Int64"), TRUE), Fld("b", Prim("Int64"), TRUE),
     Fld("c", Prim("Int64"), TRUE) >>

TestDropTimezones(tz) ==
  << Fld("time", Prim("Utf8"), FALSE),
     Fld("time_zone_micro", Ts("Microsecond", tz), FALSE),
     Fld("time_zone_nano", Ts("Nanosecond", tz), FALSE),
     Fld("time_zone_second", Ts("Second", tz), FALSE),
     Fld("time_zone_milli", Ts("Millisecond", tz), FALSE) >>

TestDecimal == << Fld("decimal_col", Prim("Decimal128"), FALSE) >>

UnitTests ==
  { [input |-> TestPlain, expected |-> Ok([raw |-> TestPlain, table |-> TestPlain])],
    [input |-> TestConversion("UTC"),
     expected |-> Ok([raw |-> TestConversion("UTC"), table |-> TestConversion(NoTz)])],
    [input |-> TestDropTimezones("UTC"),
     expected |-> Ok([raw |-> TestDropTimezones("UTC"), table |-> TestDropTimezones(NoTz)])],
    [input |-> TestDecimal, expected |-> Err("UnsupportedColumn", "decimal_col")] }

-----------------------------------------------------------------------------

IsDecimal(f) == f.type.kind \in DecimalKinds

(* Every variable has the shape the code gives it: the result is pending, *)
(* an error of one of the kinds of raw_metadata::Error (only               *)
(* UnsupportedColumn carries a column name), or a raw and a table schema  *)
(* of equal length.                                                        *)
TypeOK ==
  /\ source.kind \in SourceKinds
  /\ result.ok \in BOOLEAN
  /\ ~result.ok =>
        /\ result.err \in {"pending", "ObjectStore", "Download", "LocalFile",
                           "ReadSchema", "PulsarSubscription", "PulsarSchema",
                           "UnsupportedColumn"}
        /\ result.err = "UnsupportedColumn" => result.col \in STRING
        /\ result.err # "UnsupportedColumn" => result.col = "none"
  /\ result.ok =>
        /\ DOMAIN result.val = {"raw", "table"}
        /\ Len(result.val.raw) = Len(result.val.table)

(* What the spec (section 7) asks of the conversion: the table schema is  *)
(* the raw schema, field by field in order, with names, nullability, kinds *)
(* and units kept and every time zone removed; a decimal column fails the *)
(* whole schema, naming the first such column; and the raw schema kept is *)
(* exactly what the source holds (for Pulsar, with _publish_time last).   *)
TableSchemaMatchesRaw ==
  result # Pending /\ result.err \in {"none", "UnsupportedColumn"} =>
    LET raw == RawSchemaOf(source)
        decimals == { i \in DOMAIN raw : IsDecimal(raw[i]) }
    IN  /\ result.ok <=> decimals = {}
        /\ ~result.ok => result.col = raw[FirstIndex(decimals)].name
        /\ result.ok =>
             /\ result.val.raw = raw
             /\ Len(result.val.table) = Len(raw)
             /\ \A i \in DOMAIN raw :
                  LET r == raw[i]  t == result.val.table[i]
                  IN  /\ t.name = r.name
                      /\ t.nullable = r.nullable
                      /\ t.type.kind = r.type.kind
                      /\ t.type.unit = r.type.unit
                      /\ t.type.tz = NoTz

(* from_raw_schema returns, on each unit test's schema, exactly what that *)
(* test asserts: the raw schema kept, the converted table schema, or the  *)
(* UnsupportedColumn error naming the decimal column.                     *)
UnitTestSchemas ==
  \A t \in UnitTests :
     (result # Pending /\ source.kind = "Raw" /\ source.schema = t.input)
       => result = t.expected

(* The comments of RawMetadata.table_schema and convert_field: decimal    *)
(* columns are dropped from the table schema, the other columns kept.     *)
DecimalColumnsDropped ==
  (result # Pending /\ source.kind = "Raw") =>
     /\ result.ok
     /\ Len(result.val.table) = Len(SelectSeq(source.schema, LAMBDA f : ~IsDecimal(f)))

=============================================================================
