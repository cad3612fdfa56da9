# TLA+ verification of the Kaskada / Sparrow temporal runtime

This directory holds TLA+ models of the parts of this repository that keep
state or make decisions. It also holds the TLC configurations that check
them on small instances and the TLAPS proofs that hold for every instance.
`PROJECT.json` lists the components, runs, mutants, the map from each
definition to the source lines it translates, the hazards and the theorems.

## 1. Inventory

The repository ships a slice of Sparrow. The spec (`spec.md`) describes the
whole temporal runtime. The source under `src/` holds these parts:

| Component | Source | State it keeps | Operations |
|---|---|---|---|
| LastBooleanEvaluator | `sparrow-instructions/.../boolean/last_boolean_evaluator.rs` | `BooleanAccumToken`: one `Option<bool>` per entity index, grown to `num_groups` | `try_new`, `evaluate` → `aggregate` (NoWindow) / `aggregate_since` (Since), per row `update_accum` / `update_since_accum`, `ensure_entity_capacity` |
| Aggregation registry | `sparrow-compiler/src/functions/aggregation.rs` | none (rewrite patterns) | `count_if`, `count`, `sum`, `min`, `max`, `mean`, `variance`, `stddev` patterns; `last` / `first` record pushdown gated by `count_if > 0` |
| ZipMin / ZipMax | `sparrow-instructions/.../math/min_max.rs` | none | element-wise `if a < b {a} else {b}` and `if a > b {a} else {b}` |
| Object-store output | `sparrow-runtime/src/execute/output/object_store.rs` | files on disk or in S3; the progress channel | `write`: S3 branch (temp file in `/data`, upload) or local branch (strip `file:///`, require `/`, create dirs, create `<uuid>.<ext>`); `write_to_file`; `FilesProduced` by `try_send` |
| Catalog example | `sparrow-catalog/src/update/execute_example.rs` | temp files and directory | prepare inputs, compile, execute to a `file:///` CSV, assert one output path, strip the four key columns |
| RawMetadata | `sparrow-runtime/src/metadata/raw_metadata.rs` | none | source dispatch (parquet / CSV / CSV data / Pulsar), `convert_schema`: drop time zones, fail on decimals |
| LocalTestTable (tests) | `sparrow-main/tests/e2e/fixture/local_table.rs` | `metadata` (schema, `file_count`), `prepared_files`, `retained_files` | `add_source`, `update_table_metadata`, `clear`, `table` |
| Shift, lag, time functions | `sparrow-main/tests/e2e/{shift,time}_tests.rs` | (runtime code not in the repository) | end-to-end expectations only |

How they interact. The driver hands each evaluator one batch at a time
through `RuntimeInfo`. Each call carries the grouping (`num_groups` and a
group index per row) and the operand arrays. The evaluator owns its token,
updates it row by row and returns one output per row. The compiler's
patterns decide which evaluators are built and how their outputs compose:
for records, `last` becomes a per-field `last` and a `count_if`. The output
writer consumes the batch stream, writes a file and reports its URI on the
progress channel. The catalog example reads that channel concurrently and
opens the file.

What is hard to test:

- The order inside one row. `update_since_accum` must reset the entry only
  after it has emitted the value.
- State carried across batch boundaries while `num_groups` grows.
- Rows of several entities interleaved in one batch but sharing one token.
- Error paths that leave state half-updated. `collect()` stops at the first
  failing row. With an `Unspecified` format, the writer creates a directory
  and then panics.
- The progress channel. It is bounded, and `FilesProduced` is sent with
  `try_send` while a consumer drains it concurrently.
- URI conversions: stripping `file:///`, the leading-slash check, and adding
  the prefix back.
- `PartialOrd` with NaN in `zip_min` / `zip_max`.
- Bookkeeping that goes stale: `LocalTestTable::clear` keeps `file_count`.

Properties that make each component correct:

- Evaluator: each output equals the stream-level `last` of its entity
  within the current window. This holds whatever the batch split is (spec
  P1, P2). It uses update → emit → reset, and the token is never lost on
  resize.
- Pushdown: the record assembled from per-field aggregates equals the
  record-level aggregate (spec P4).
- Writer: `Ok(())` means a file exists at the path the reported URI strips
  to, and that the URI reached the consumer. A rejected prefix never
  creates anything.
- Schema conversion: the table schema is the raw schema with the time
  zones removed, and no other field changes.
- LocalTestTable: `file_count` equals the number of prepared files.

## 2. Plan

In order of importance:

1. **LastAbstract, LastBoolean, MCLastBoolean, LastBooleanProofs** (done in
   this sitting). This is the core evaluator with its token. It is proved to
   refine the abstract `last` promise.
2. **LastAccum, FirstAbstract, RecordPushdown** (done). The pushdown of
   `last` and of `first` composes three kinds of evaluator: the per-field
   aggregation, the gating aggregation of `is_valid(field)`, and
   `count_if`. It is checked against the record-level `last` of
   LastAbstract and the record-level `first` of FirstAbstract. Its type,
   its token invariant and the refinement are proved (§5).
3. **OutputWrite** (done). The writer and the catalog consumer are two
   tasks over a bounded channel. Two findings came out of it (§4).
4. **RawMetadata** (done): source dispatch with its error paths and the
   schema conversion, with the four unit tests replayed. One finding (§4).
   **ZipMinMax** (done): the element-wise min / max checked against a
   partial-order reference and the unit tests.
5. **LocalTable** (done). A sequence of `add_source` / `clear` / `table`
   calls with every error and panic path, the temp files on disk, and the
   `file_count` relation.
6. Proofs (done): the refinement `Spec => A!ASpec` of LastBoolean (the
   lemma `StateAfterAppend` is its core step), the schema conversion of
   RawMetadata, `ReportedPathIsWrittenFile` of OutputWrite, the
   invariants `ExampleTypeOK` and `InputsLiveDuringQuery` of ExampleRun,
   and the type, token invariant and refinement of RecordPushdown.

## 3. Modules

### LastAbstract: what `last` promises

The state is `inputs`, the rows consumed so far, and `outputs`, the value
emitted for each row. A row is `[entity, input, tick]`, where `input` and
`tick` are `TRUE`, `FALSE` or `Null`. `Live(m, s, e, k, b)` is the set of
positions `i ≤ k` where entity `e` has a non-null input that no TRUE tick
of `e` at positions `i..b` has reset. `OutputAt(m, s, k)` takes the latest
live input at row `k`, with resets up to `k-1`: the reset of row `k`
happens after its emission. `StateAfter(m, s, e)` is the same with every
reset applied. `AConsume` appends a row and its reference output. This
module is stated from the spec's description (§4.3). No source line maps to
it.

`Values` is a constant: the evaluator instantiates it with `BOOLEAN`, the
record pushdown with the set of records.

### LastAccum: one token entry, one row

`Emit(stored, input)` is the `value_to_emit` of `update_accum`, and it is
also the entry that `update_accum` stores. `SinceEntry(stored, input, tick)`
is the entry after `update_since_accum`: it is `Null` after a TRUE tick,
and `Emit` otherwise. The reset comes after the emission. Both the evaluator
and the pushdown apply these operators.

### LastBoolean: the evaluator

| TLA+ | Code |
|---|---|
| `args` | `AggregationArgs` (`NoWindow` / `Since`; `Sliding` builds another evaluator) |
| `token`, `capacity` | `BooleanAccumToken` and its length |
| `batch`, `pos`, `phase` | the batch of the current `evaluate` call and the row loop position |
| `Init` | `try_new` with a default token |
| `Evaluate(ng, b)` | `evaluate` up to the row loop: operands resolved, `ensure_entity_capacity(num_groups)` (`Resize`) |
| `ResolveFail` | `info.value(..)?` failing before the token is touched |
| `Step` | one iteration of the `izip!(..).map(..)` loop, calling `UpdateAccum` (`update_accum`) or `UpdateSinceAccum` (`update_since_accum`) |
| `Return` | `collect()` returning the output array |

The row loop is one step per row. No other actor touches the token during
`evaluate`, because the call is synchronous and the token is owned
exclusively (spec §5). So the steps compose to the single call. The four
valid-bit cases of `aggregate_since` are all covered by letting `input` and
`tick` be `Null`. A null tick means `since_is_valid = false`, and no reset
happens. The driver's contract (spec §3, §4.3) is enforced in the inputs:
`num_groups` never decreases, and every group index is below it.

`consumed` and `out` are history variables. They are not code state. They
record every row applied and every value emitted, so the properties can
compare the token with the stream. `LastRefinement` instantiates
LastAbstract with `inputs <- consumed, outputs <- out`. `Evaluate`,
`ResolveFail` and `Return` map to stuttering steps. Each `Step` maps to one
`AConsume`.

### LastBooleanTests: the unit tests on the model

The three unit tests of `last_boolean_evaluator.rs` are written as cases:
the rows, the arguments, and the outputs each test asserts. The driver
`Feed` hands a case's rows to `Evaluate` in every split into batches, with
every `num_groups` that covers the batch and never decreases. `Step` and
`Return` then run as in LastBoolean. So the model is checked against the
code's own tests, and the tests' assertions are checked under
batch-boundary invariance (P2), not only for the split each test uses.
Scenario 1 of the spec is a fourth case. It has its own run, and it fails
(finding 3).
For the three unit-test cases, `UnitTestOutputs` is also proved for every
value of the constants (`LastBooleanTestsProofs.TestsCorrect`, section 5).

### RecordPushdown: `last` and `first` over records

`register` in `functions/aggregation.rs` turns `last(record)` (lines
122-160) and `first(record)` (lines 162-200) into the same three patterns,
with `agg` standing for `last` or `first`. For each field `f` of the
record:

- a gate `agg(if (is_new and is_valid(record)) is_valid(record.f))`;
- the primitive pattern on the field, `agg(if is_new record.f)`;
- the field of the result, `if gate value`.

The record as a whole is `if (count_if(is_new and is_valid(record)) > 0)`
of the assembled fields.

| TLA+ | Code |
|---|---|
| `agg` | which of the two registrations is being compiled |
| `gate[f]`, `value[f]`, `count` | the token entries of the gate aggregation, the field aggregation and the `count_if` evaluator (one entity) |
| `GateInput`, `FieldInput`, `CountInput` | the `transform (...)` input columns of the three patterns |
| `Accum`, `AggEmit` | for `last`, `evaluate`'s choice of `aggregate` (NoWindow) or `aggregate_since` (Since), each applying `LastAccum`; for `first`, `FirstEmit` and `FirstSinceEntry` |
| `FirstEmit`, `FirstSinceEntry` | the `first` evaluator's update, which keeps the earliest valid input. Its source is not in this repository; it is modelled from the spec (§4.3, edge cases), marked `spec_modelled` |
| `Result` | the outer `if (gt (count_if ..) 0u32)` and the per-field `if (last ..) ?recurse_on_input_field` |
| `Consume(r)` | one row of the merged input/window stream reaching every evaluator; the stateless `if`/`gt` assemble the output |
| `IfThen`, `FieldOf`, `CountIfEmit`, `CountIfEntry` | the `if` and `field_ref` instructions and the `count_if` evaluator. Their source is not in this repository; they are modelled from the spec (§4.3, "count_if"), marked `spec_modelled` |

The fields are boolean, so each per-field `last` is exactly the
LastBooleanEvaluator. Every evaluator sees the same rows in the same order,
and they share no state. A row is therefore one step for all of them. The
batch split and the entity indices are left out, because LastBoolean shows
that they do not change any one evaluator's outputs. Records are flat: the
recursion into nested records is not modelled.

The reference is LastAbstract (for `last`) or FirstAbstract (for `first`)
over rows mapped by `AsAbstract`. A row carries its record as the input
when the row is new and the record is non-null, and `Null` otherwise. It
carries its tick unchanged. The reference output is the whole latest (or
earliest) such record, null fields included, which is what the comment at
lines 134-138 asks for. FirstAbstract extends LastAbstract and takes the
earliest live input where LastAbstract takes the latest. For `first`, the
gate is what stops a later record's field from filling a field that was
null in the window's earliest record.

`Accum` chooses the update by a `CASE` on the pair (aggregation, window),
with one arm per pair and no `OTHER`. The arms must not overlap. When
guards overlap, TLA+ leaves the value of a `CASE` unspecified, even though
TLC takes the first true arm. An earlier form of `Accum` had overlapping
arms. Under TLA+'s meaning it allowed a `last` with `Since` that skipped
the reset, so TLC checked something narrower than the spec said. The
proof of `AccumSplit` exposed this.

### OutputWrite: the output writer and the example runner

| TLA+ | Code |
|---|---|
| `prefix`, `format` | `output_prefix_uri` and `format()` of the `ObjectStoreDestination` |
| `wpc`, `werr`, `branch` | where `write` is, the `Error` it returned, and which branch runs |
| `dirs`, `files`, `objects` | the local file system (by path components) and the uploaded S3 keys |
| `chan` | the bounded `progress_updates_tx` channel |
| `batchesLeft` | the result batches of the stream still to be written |
| `cpc`, `paths`, `readFile` | `execute_example` after `execute`: the `try_concat` of output paths, and the file it opens |
| `WriteS3Open` | S3 branch up to `write_to_file`: `output_file_name` (panics on `Unspecified`), `create_tempfile` in `/data` |
| `WriteLocalOpen` | local branch up to `write_to_file`: `strip_prefix("file:///")`, the leading-`/` check, `create_dir_all` (it may stop part-way), `output_file_name`, `File::create` |
| `WriteProgress`, `WriteFail`, `WriteFinish` | `write_to_file` → `write_csv` / `write_parquet`: one blocking progress `send` per batch, an error, or `Ok` |
| `Upload` | `S3Object::try_from_uri`, `upload_s3`, `try_send(FilesProduced)`; the temp file is dropped |
| `Report` | `insert_str(0, "file:///")` and `try_send(FilesProduced)` |
| `Receive`, `Finish` | the stream's next item; at its end the `unwrap`, the one-path and prefix assertions, `strip_prefix` and `from_csv_file` |

A URI or a path is a sequence of tokens: a scheme, one `"/"` per slash,
and one token per name. `strip_prefix`, `starts_with`, `insert_str` and
`PathBuf::push` are modelled by what they do to that sequence. The file
system resolves a path by its components (`Components`, `Resolve`), as
POSIX does for repeated slashes. A relative path resolves under an
unrelated working directory.

Each open/write/upload step may fail with the error the code returns. The
I/O failures are nondeterministic: disk, permissions and network are
outside the model. The code between two `await`s is one step, because no
other task can observe it half done.

Fairness: the writer and the consumer are tokio tasks. Each runs whenever
it can make progress, so both have weak fairness. `WriteFail` is left out
of the writer's fairness, because nothing forces an I/O error to happen.

### ExampleRun: the whole example runner

`ExampleRun` extends OutputWrite and composes it with the rest of
`execute_example`. The writer and the consumer only step once the query
runs (`Query(A)`).

| TLA+ | Code |
|---|---|
| `example`, `pending`, `tables` | the `FunctionExample`, the tables `prepare_inputs` has still to prepare, and the `ComputeTable`s made so far |
| `kept`, `inDisk`, `nextTmp` | the preparer's `prepared_files`, the input temp files that exist, and the next temp file |
| `stage`, `exErr` | where `execute_example` is, and the `Error` it returned |
| `InputNames` | `prepare_inputs`: `"Input"` when there is an input CSV, then the example's tables |
| `PrepareInput` | `prepare_input`, with each of its outcomes (see below) |
| `CompileAndExecute` | `compile_proto` (`CompileQuery`), the plan check (`QueryErrors`), the `tempdir` unwrap, and `execute` (`ExecuteQuery`) |
| `ReadResult` | `from_csv_file`, dropping the key columns, `to_csv`, `tempdir.close()` and `Ok(content)` |
| `Return` | the function returning; the preparer is dropped with it, so its temp files are deleted |

`PrepareInput` has four outcomes:
- `prepared_batches` fails, and the error carries the table's name;
- an `unwrap` or `prepared_batches[0]` panics;
- `try_from_local_parquet_path` fails after both temp files were written;
- both files are pushed into `prepared_files`.

A `ComputeTable` names its files by path only. The preparer owns them, and
they live until `execute_example` returns. The temp output directory is
among `InitialDirs` from the start. Its creation is part of the
`CompileAndExecute` step, which no other task can observe.

Fairness: `execute_example` is one async function. Each of its steps runs
once it can, so the runner's steps have weak fairness, as do the writer
and the consumer.

### RawMetadata: reading a source's schema

| TLA+ | Code |
|---|---|
| `source` | the `Source` handed to `RawMetadata::try_from`: its kind, whether its object-store key is local, the schema the file / topic holds, and whether a Pulsar config is present |
| `result` | the `error_stack::Result<RawMetadata, Error>` it returns (`Pending` before the call) |
| `IoErrors` | the `Error` each branch can return before a schema is read: `ObjectStore` (URL, key, path), `Download` (temp file, download, and for CSV opening the download), `LocalFile`, `ReadSchema`, `PulsarSubscription` (no config), `PulsarSchema` |
| `RawSchemaOf`, `PublishTime` | `try_from_pulsar` appends a non-null millisecond `_publish_time` to the topic's fields |
| `ConvertField` | `convert_field`: a time zone is dropped, a `Decimal128` / `Decimal256` column bails with `UnsupportedColumn`, the rest is cloned |
| `ConvertSchema`, `FirstIndex` | `convert_schema`: `map(convert_field).collect::<Result<Vec<_>,_>>()`, which stops at the first error in field order |
| `Field`, `FieldType`, `RawMetadataAssumption` | arrow's `Field` and `DataType`: only `Timestamp` carries a unit and a time zone |
| `FromRawSchema` | `from_raw_schema`: the raw schema kept beside the converted one |
| `TryFrom` | the whole `try_from` call: one step, since nothing else shares its state |
| `TestPlain` … `UnitTests` | the four `#[test]`s of the module: their input schemas and what they assert |

The call is one step: it has no state shared with other tasks, and its
`await`s only wait on I/O. What the I/O returns is a choice. A schema is a
sequence of fields; CSV inference is given only the types it can infer
(no time zone, no decimal). `RawMetadataAssumption` says that every source
holds such an arrow schema. TLC evaluates it on every run of the module.

### ZipMinMax: element-wise min and max

| TLA+ | Code |
|---|---|
| `op`, `lhs`, `rhs` | which evaluator `try_new` built, and the two operand arrays `evaluate` fetches |
| `result` | the `anyhow::Result<ArrayRef>` returned |
| `Lt`, `Gt` | `PartialOrd`'s `<` and `>` on the native type: false whenever NaN is involved; `-0.0` and `+0.0` compare equal |
| `MinOp`, `MaxOp` | the closures `if a < b {a} else {b}` and `if a > b {a} else {b}` |
| `MathOp` | `arrow::compute::math_op`: an error on arrays of different lengths, null where either slot is null, the closure elsewhere |
| `Evaluate` | `ZipMinEvaluator::evaluate` / `ZipMaxEvaluator::evaluate` |
| `TestInt32`, `TestFloat32` | the four tests (the float values scaled by ten, which keeps their order) |

The reference `RefPick` is the min / max of spec 4.3 under partial-order
semantics. When the operands are ordered and differ, it is the smaller
(larger) one. When they compare equal or are unordered, it may be either,
since the spec leaves NaN ordering open. The code's choice is the right
operand: `zip_min(NaN, 1) = 1` but `zip_min(1, NaN) = NaN`. The property
shows that this choice stays inside what the spec allows.

### LocalTable: the e2e test table

| TLA+ | Code |
|---|---|
| `metadata`, `prepared`, `retained` | the fields `metadata`, `prepared_files` and `retained_files` of `LocalTestTable` |
| `disk` | the temp files that exist; a `NamedTempFile` is deleted when it is dropped |
| `pc`, `pending` | inside `add_source`: the batches of `prepared_batches` not yet handled; `"panicked"` after an `unwrap` or `assert!` fails |
| `cleared` | history: files removed by `clear()` |
| `AddSource` | `prepared_batches(..)?`: fails at once, or starts the loop |
| `BatchFails` | an iteration that returns at a `?` after creating none, one or both temp files, which are dropped |
| `PrepareBatch` | an iteration that gets through (`update_table_metadata`, two pushes), or panics |
| `AddSourceDone`, `Clear`, `Table` | the end of the loop, `clear()`, `table()` |

`clear()` keeps `metadata`. So `file_count` still counts the cleared
files, and a later source must have the old schema. A `ComputeTable` that
`table()` returned before `clear()` lists temp files that `clear()` has
just deleted. No test in this repository uses a table after `clear()`, so
this is left as a hazard (`PROJECT.json`).

## 4. Runs

| Run | Checks | Shows |
|---|---|---|
| `last_boolean` (`MCLastBoolean.cfg`) | `TypeOK`, `TokenMatchesHistory`, `LastRefinement` | Every token entry equals what the consumed rows of its entity determine. Every output is the stream-level `last`, in both NoWindow and Since modes. |
| `record_pushdown` (`MCRecordPushdown.cfg`) | `TypeOK`, `TokensMatchRecord`, `PushdownRefinement` | The count, gate and field tokens encode the record-level state of one window. Every record the pushed-down plan outputs is the record-level `last`, or `first`, in NoWindow and Since. |
| `last_boolean_tests` (`MCLastBooleanTests.cfg`) | `UnitTestOutputs` | Under every batch split (5,362 states), the model emits exactly what the three unit tests assert. |
| `spec_scenario_last` (violation) | `UnitTestOutputs` | The spec's scenario 1, with entities A,B,A,A,A, is not what the code produces. |
| `output_write` (`MCExampleRun.cfg`) | `TypeOK`, `ExampleTypeOK`, `ReportedPathIsWrittenFile`, `InputsLiveDuringQuery`, `ExampleTerminates` | The whole example runner (1,664 states). The file `write` creates always has an absolute path. A reported `file:///` URI strips back to the file the writer created, and that is the file the consumer opens. The tables the query runs on are the example's inputs in order, each with both files alive. The runner always finishes: the writer's blocking sends never wait on a consumer that waits for the writer. |
| `example_one_path` (violation) | `ExampleGetsOnePath` | `write` returns `Ok`, but `FilesProduced` was dropped by `try_send`. The one-path assertion fails. |
| `unspecified_panics` (violation) | `WriteNeverPanics` | An `Unspecified` format panics after the directory is made, instead of returning `UnspecifiedFormat`. |
| `raw_metadata` (`MCRawMetadata.cfg`) | `TypeOK`, `TableSchemaMatchesRaw`, `UnitTestSchemas` | For every source kind, local or remote, every I/O outcome and every schema of up to two fields, the result is what spec §7 asks: time zones removed and nothing else changed, or `UnsupportedColumn` naming the first decimal column. The four unit tests' assertions hold. |
| `zip_min_max` (`MCZipMinMax.cfg`) | `TypeOK`, `ZipMatchesReference`, `UnitTestArrays` | On all arrays of up to two slots over `-1, 0, -0.0, 1, NaN` and null (7,404 states), and on the tests' arrays, the evaluators fail exactly on a length mismatch. Otherwise every slot is null or a partial-order min / max. |
| `local_table` (`MCLocalTable.cfg`) | `TypeOK`, `PreparedFilesLive`, `FileCountCountsAddedFiles` | A failing `add_source` leaks no temp file. Every listed file exists. `file_count` counts every file ever added, including cleared ones. |
| `decimal_columns_dropped` (violation) | `DecimalColumnsDropped` | The doc comments say decimal columns are dropped; the code fails the whole source. |

Bounds of `last_boolean`: `MaxGroups = 2`, `MaxBatchLen = 2`, `MaxBatches = 2`. That gives
about 506,000 distinct states in about 30 s. These bounds are enough for
each case the properties are about:

- rows of two entities interleaved in one batch;
- an entity that first appears in the second batch, after `num_groups`
  grew from 1 to 2;
- a value set in batch 1 and emitted for a null input in batch 2;
- a tick in batch 1 that hides a value from batch 2;
- a TRUE tick on a row with a null input (emit, then reset);
- null ticks.

`CHECK_DEADLOCK FALSE`: the evaluator really stops. The query ends after its
last batch, or after the first failure (spec §7).

Bounds of `record_pushdown`: both aggregations, two fields and three
rows, which gives about 456,000 states in about 30 s. Each row is new or not, its record is
null or has each field `TRUE`, `FALSE` or null, and its tick is null,
`FALSE` or `TRUE`. Three rows cover these cases:

- a new record with a null field after one with the field set: for
  `last` the gate must hide the older value, and for `first` (the other
  order) the later value;
- an old (not new) row after a new one;
- a new null record, which must not open the gate;
- a tick between two records, and a record arriving after the reset.

Bounds of `output_write`: six prefixes, Csv and Unspecified, up to two
batches and a channel of capacity one. Two examples: one with an input CSV
and one table, and one with two tables and no input CSV. That gives 1,664
states. Two inputs are enough for a failure of the second after the first
was prepared. The prefixes stand for the destination `execute_example`
builds; for `write`'s other callers they stand for any destination. The prefixes are:

- execute_example's own prefix, `file:////tmp/ex`, whose directory
  `/tmp/ex` exists (`MCInitialDirs`, by path components);
- one whose directory does not exist;
- `file:///tmp/ex`, whose rest after `file:///` is the relative `tmp/ex`;
- a relative path;
- a valid and a malformed S3 URI.

Two batches against one slot make the writer block on a full channel, and
make the final `try_send` meet a full channel. A larger capacity only
delays both.

Bounds of `raw_metadata`: fields named `a` or `b`, nullable or not, of
six types (`Utf8`, a timestamp without and with a `UTC` zone in two units,
`Decimal128`, `Decimal256`), in schemas of zero to two fields, for each of
the eight branches of `try_from` (12,867 states, about a second). Two
fields are enough to put two decimals in one schema (which one is named),
a decimal after a converted timestamp (no partial result), and the same
name twice.

Bounds of `zip_min_max`: arrays of zero to two slots, so that lengths
can differ and two slots can combine nulls and values. The values are two
ordered integers, both zeros and NaN: enough for every outcome of `<`
and `>`, equal, ordered either way and unordered.

Bounds of `local_table`: four calls over three sources, one- and
two-batch files of one schema and a one-batch file of another (4,439
states). That is enough for a failure in the second batch after the first
succeeded, an add after a clear, a schema mismatch, and `table()` before
and after `clear()`.

Each property has a mutant in `PROJECT.json` that TLC must catch:

- `ResizeRebuilds` resets the token on every resize. It breaks
  `TokenMatchesHistory`.
- `ResizeOneTooMany` treats `key_capacity` as the largest index. It breaks
  `TypeOK`.
- `UpdateSinceAccumResetFirst` resets before emitting. It breaks
  `LastRefinement`.
- `CountIfResetNull` resets the count to the null state of `last`. It
  breaks `TypeOK` of the pushdown.
- `CountIfNoReset` ignores the window in `count_if`. It breaks
  `TokensMatchRecord`.
- `GateInputNoValid` drops `is_valid(record)` from the gate. It breaks
  `PushdownRefinement`: a new null record closes the gates while the count
  stays positive.
- `WriteLocalOpenNoSlashCheck` drops the check that what follows
  `file:///` starts with `/`. It breaks `TypeOK` of OutputWrite: from
  `file:///tmp/ex` the writer creates `tmp/ex/<uuid>.csv`, a path
  relative to the working directory.
- `ReportTwoSlashes` puts back `file://`. It breaks
  `ReportedPathIsWrittenFile`.
- `UpdateSinceAccumResetFirst` also breaks `UnitTestOutputs` (the Since
  test's fourth row).
- `PrepareInputReuseTemp` does not count the temp files it creates. It
  breaks `ExampleTypeOK`.
- `PrepareInputNoRetain` never pushes the prepared files into
  `prepared_files`, so they are deleted when `prepare_input` returns. It
  breaks `InputsLiveDuringQuery`.
- `ReceiveAfterWriter` drains only after the writer returned. It breaks
  `ExampleTerminates`: the writer blocks on the full channel forever.
- `ConvertSchemaDropDecimals` does what the comments say and drops
  decimal columns. It breaks `TypeOK` of RawMetadata (the table schema is
  shorter than the raw one).
- `ConvertSchemaLastError` reports the last bad column. It breaks
  `TableSchemaMatchesRaw`.
- `ConvertFieldKeepUtc` leaves a `UTC` zone in place. It breaks
  `UnitTestSchemas`.
- `MathOpZipShorter` zips to the shorter array instead of failing. It
  breaks `TypeOK` of ZipMinMax.
- `MinOpSwapped` compares the wrong way round. It breaks
  `ZipMatchesReference`.
- `MaxOpAsMin` is `zip_max` copied from `zip_min`. It breaks
  `UnitTestArrays`.
- `PrepareBatchReuseTemp` reuses the previous temp files. It breaks
  `TypeOK` of LocalTable.
- `ClearRetainedOnly` forgets `prepared_files`. It breaks
  `PreparedFilesLive`.
- `UpdateTableMetadataOverwrite` sets `file_count` instead of adding to
  it. It breaks `FileCountCountsAddedFiles`.

### Findings

1. **Lost `FilesProduced`** (`object_store.rs:137`, run
   `example_one_path`). The path is sent with `try_send`, and a full
   channel is only logged. Then `write` returns `Ok`, but the consumer never
   sees the path, and `execute_example`'s `assert_eq!(len, 1)` panics. This
   needs the batch writer's progress updates to fill the channel before the
   consumer drains it. The channel's capacity is set outside this
   repository. The model shows the loss for any capacity that the number of
   batches reaches.
2. **Panic on `Unspecified`** (`object_store.rs:186`, run
   `unspecified_panics`). `output_file_name` panics before
   `write_to_file` can return `UnspecifiedFormat`. In the local branch, a
   missing output directory has already been created by then.
3. **Spec scenario 1 does not match the code** (`last_boolean_evaluator.rs:100`,
   run `spec_scenario_last`). For `(A,false),(B,true),(A,null),(A,null),(A,false)`,
   the code emits `false,true,false,false,false`: a null input emits the
   stored value. The spec lists `false,true,null,true,false`. Those are the
   outputs of the unit test `test_boolean_last_with_null`, whose entity
   indices are `0,1,2,1,1`. The scenario's entity labels look wrong; the
   code agrees with its test.
4. **Decimal columns are not dropped** (`raw_metadata.rs:274`, run
   `decimal_columns_dropped`). The doc comments of `table_schema` (line 49)
   and `convert_field` (lines 255-257) say decimal columns are dropped.
   `convert_field` bails with `UnsupportedColumn` instead, and the `?` of
   `convert_schema` fails the whole source. Spec §7 and
   `test_raw_metadata_decimal_errors` agree with the code; the comments are
   stale.


## 5. Proofs (TLAPS)

`LastBooleanProofs` extends LastBoolean and TLAPS. It proves the following
from the assumptions `NullAssumption` (`Null` is not a boolean) and
`BoundsAssumption` (`MaxGroups ≥ 1`, and the other bounds are naturals):

- `TypeCorrect`: `Spec => []TypeOK`. `TypeOK` is inductive by itself
  (`TypeInductive`).
- `TokenCorrect`: `Spec => []TokenMatchesHistory`. This holds for every
  bound, so for every number of entities, batch length and number of
  batches. `TokenMatchesHistory` alone is not inductive, because a resize
  writes `Null` to the entries at or above the old capacity. The
  strengthening `IInv` adds two facts:
  - `TypeOK`;
  - every group index of a consumed row, and of the current batch, is below
    `capacity`.

  With these, the entries a resize nulls belong to entities with no
  consumed rows, whose reference state is `Null` (`NoRowsNull`). The step
  case rests on `StateAfterAppend`. When one row of entity `e'` is
  appended, the reference state of `e` becomes:
  - `Null`, if the row is a TRUE tick of `e`;
  - the row's input, if the row is a valid input of `e`;
  - unchanged, otherwise.

  This is exactly what `update_accum` / `update_since_accum` do to the
  token. IInv was checked with TLC before it was proved.

`LastLive` picks the latest live input with `CHOOSE v : \E i ∈ Live : ...`
and not with `CHOOSE i` of a maximum. Proving that a maximum exists in a
finite set of naturals needs induction over data, which the installed
provers cannot do. This form needs no such fact. It has the same meaning.

- `Refinement`: `Spec => LastRefinement`, the evaluator implements
  `LastAbstract` under the mapping `mode <- args`, `inputs <- consumed`,
  `outputs <- out`. Initial states map to `AInit`. A `Step` maps to
  `AConsume` of its row, and every other action is a stutter: `Evaluate`,
  `ResolveFail` and `Return` leave the consumed stream and the outputs
  alone. The step rests on `OutputAppend`: the abstract output of an
  appended row is its input when valid, and otherwise the state its entity
  held before the row. `TokenMatchesHistory` (from `IInv`) says that state
  is `token[e]`, which is what `update_accum` / `update_since_accum` emit.

`LocalTableProofs` extends LocalTable and TLAPS. From
`LocalTableAssumption` (sources are sequences of schemas, the null
metadata is not a `TableMetadata`, and `MaxCalls` is a natural), it
proves:

- `TypeCorrect`: `Spec => []TypeOK`.
- `FilesLive`: `Spec => []PreparedFilesLive`.
- `FileCount`: `Spec => []FileCountCountsAddedFiles`.

All three follow from one inductive invariant, `IInv == TypeOK /\
Accounted`. Until a panic, `Accounted` says four things:
- the files on disk are the retained ones;
- the prepared files are among them;
- `file_count` is the prepared count plus the cleared count;
- with no metadata, nothing has been prepared or cleared.

The last clause is the strengthening. The first `update_table_metadata`
sets `file_count` to 1, and that is right only because nothing came
before. The step for `PrepareBatch` uses `KeptAppend`: pushing a file
onto a vector adds exactly that file to the set it keeps.

`ZipMinMaxProofs` extends ZipMinMax and TLAPS. From `ZipAssumption`
(`Null`, `NaN` and `NegZero` are distinct, and none of them is an integer),
it proves `ZipCorrect`: `Spec => []ZipMatchesReference`, for every value
set and every array length.
- The inductive invariant `IInv` says three things:
  - the operands are sequences of slots (`Native` or `Null`);
  - the operands never change;
  - the result is pending or is `MathOp(op, lhs, rhs)`.
- `ClosurePicks` shows that either closure returns one of the values
  `RefPick` allows, for any two non-null values. The cases where the
  comparison is FALSE (NaN, and -0.0 against 0) are included.
- `MathOpReference` lifts `ClosurePicks` to whole arrays.

Two more theorems rest on the same `IInv`:
- `TypeCorrect`: `Spec => []TypeOK`. `MathOpShape` shows that an Ok
  result is an array of slots as long as both operands, because each
  closure returns one of its operands.
- `UnitTestsCorrect`: `Spec => []UnitTestArrays`, for every value set.
  `MathOpTest` evaluates `math_op` slot by slot on three-slot arrays ending
  in a null. `ClosureInt` shows that on integers the closures are the
  ordinary min and max.

`RawMetadataProofs` extends RawMetadata, WellFoundedInduction and TLAPS.
It proves two theorems for every set of sources whose schemas are arrow
schemas (`RawMetadataAssumption`), of any length:
- `TypeCorrect`: `Spec => []TypeOK`;
- `SchemaCorrect`: `Spec => []TableSchemaMatchesRaw`.

The argument has four steps:
- `ConvertFieldSpec` proves, field by field, that `convert_field` fails
  exactly on a decimal. Otherwise it keeps everything but the time zone.
  This needs the assumption: a field that is not a timestamp has no zone
  to drop.
- `FromRawSchemaSpec` lifts this to a schema.
  - The set of fields `convert_field` rejects is the set of decimal
    columns.
  - When that set is not empty, `FirstIndexIn` shows that its first index
    exists and is one of them. This rests on the library's `WFMin` and
    `NatLessThanWellFounded`, so the error names the first decimal column.
- `RawSchemaIsArrow` shows that each branch reads an arrow schema, Pulsar's
  appended `_publish_time` included.
- The inductive invariant `IInv` says the result is pending, an I/O error
  of the source's branch, or `FromRawSchema` of the schema read. It rules
  out an I/O error that claims a conversion result, which `IoErrorKinds`
  excludes.

The proofs' notion of a schema allows `_publish_time` beside the
sources' fields. The provers cannot show that a string literal is in
`STRING`.

`OutputWriteProofs` extends OutputWrite, SequenceTheorems and TLAPS. It
proves `PathCorrect`: `Spec => []ReportedPathIsWrittenFile` for every
output prefix, format, channel capacity and number of batches. It rests on
the assumption `OutputAssumption`: every output prefix is a sequence of
strings. `ReportedPathIsWrittenFile` is not inductive: it speaks only of
the collected paths, while a path can sit in the channel before it is
received. The strengthening `IInv` has five parts:

- `IShape`: the writer's control state. The branch is chosen exactly when
  the writer leaves `start`; `upload` is only reached in the S3 branch and
  `report` only in the local one; the S3 branch has an `s3:` prefix.
- `ISeqs`: the local path, the channel and the collected paths are
  sequences of tokens.
- `IRep`: every path in the channel and every collected path is
  `Reported`. That is either the local URI `file:///` ∘ `outPath`, once
  `write` returned Ok, or the S3 key, once the S3 branch was taken.
- `IFiles`: in the local branch, the output file exists from its creation on.
- `IRead`: the opened file is `Resolve(outPath)`.

`ReportedStable` shows that no step un-reports a URI. `ReportedLocal` shows
that a reported URI starting with `file:///` is the local one. Its S3 case
uses `S3NotLocal`: an S3 key begins with `s3:`. Its local case uses
`StripLocal`: `strip_prefix` undoes the `insert_str`. The proof of
`StripLocal` compares lengths and elements (`SeqEqual`). The proof is
about OutputWrite's own `Spec`. In the composed ExampleRun, `ReadResult`
deletes the temp directory after the file has been read; there the
property is checked by TLC. `IInv` was checked with TLC on the
`output_write` bounds, with channel capacities one and two, before it was
proved.

`ExampleRunProofs` extends ExampleRun, SequenceTheorems and TLAPS. It
proves two theorems for every set of examples:

- `TypeCorrect`: `ExampleSpec => []ExampleTypeOK`.
- `InputsLive`: `ExampleSpec => []InputsLiveDuringQuery`.

They rest on `ExampleAssumption` (declared in ExampleRun): an example's
`input` is a Boolean and its `tables` are a sequence of strings.
Neither property is inductive as it stands. `ExampleTypeOK` only counts
table names. `InputsLiveDuringQuery` speaks only of the `execute` stage,
but the tables are built during `prepare`. The strengthening `IInv` holds
the variables' types and adds three facts:

- the names of the prepared tables, followed by the pending names, are
  always `InputNames(example)`;
- in `execute`, nothing is pending;
- in `prepare` and `execute`, both files of every prepared table are on
  disk.

Each `PrepareInput` success moves the head of `pending` to the end of the
tables, which leaves the concatenation unchanged (lemmas `NamesAppend` and
`ShiftHead`). It adds both new files to `inDisk` and both pushes to
`kept` (lemma `KeptAppend`). Every error or panic exit goes to `returned`
or `panicked`. That makes the stage-guarded facts hold trivially, and
lemma `ExitIInv` covers all exits at once. A step of the writer or the
consumer leaves the runner's variables alone. `IInv` was checked with TLC
on the `output_write` bounds (1,664 states) before it was proved.

`RecordPushdownProofs` extends RecordPushdown, WellFoundedInduction and
TLAPS. It proves three theorems for every set of fields and every bound on
the rows, from `PushdownAssumption` (`Null` is not a boolean):

- `TypeCorrect`: `Spec => []TypeOK`.
- `TokensCorrect`: `Spec => []TokensMatchRecord`.
- `Refinement`: `Spec => PushdownRefinement`. The plan is `R!ANext` (for
  `last`) or `F!FNext` (for `first`) under `AsAbstract`.

The record-level state `RecordState` is a `CHOOSE` over the live positions
of the consumed rows. The first step brings it into a form the provers can
use:
- `FirstIn` / `LastIn` name the earliest and the latest value over a set
  of positions.
- `MinIn` gives the least element of a nonempty set of naturals, from the
  library's `WFMin`.
- `FirstInExtend` / `LastInExtend` say what one more position does.
- On these rest `LastStateAppend` / `FirstStateAppend` and
  `LastOutputAppend` / `FirstOutputAppend`. Appending one row sets the
  record-level state to `Null` on a reset. Otherwise it becomes the new
  record (for `last`, or for `first` when none was held), or stays as it
  was. The output is `Emit` / `FirstEmit` of the state before the row.

`RecordStep` combines these with `AsAbstract`. It shows that after a row,
the state and the abstract output are `Expected(r)`, followed by the reset.

`TokensMatchRecord` alone is not inductive. While no record is held it
says nothing of the tokens, yet `first` keeps what they hold when the next
record comes. The strengthening `IInv` adds two facts:
- `RecordState` is a record or `Null`;
- with no record held, every gate and field token is `Null` (`IEmpty`).

`IInv` was checked with TLC on the `record_pushdown` bounds (456,164
states) before it was proved.

`NextIInv` splits a row into four cases:
- a reset;
- a new record taken (`last`, or `first` with nothing held);
- a new record ignored by `first`;
- no new record.

The refinement step (`NextRefines`) rests on `OutputStep`. The record the
`if` / `gt` instructions assemble is `Expected(r)`, in each of the same
cases. With no record held, `count_if` is 0, so the output is `Null`. Each
gate reads back the validity of its field. A field whose gate is FALSE is
`Null` in the held record as well.

`LastBooleanTestsProofs` extends LastBooleanTests, SequenceTheorems and
TLAPS. It proves `TestsCorrect`:
`Cases ⊆ {1, 2, 3} => (TestSpec => []UnitTestOutputs)`. For every bound
on `num_groups` and on the number of batches, the evaluator emits what the
three unit tests of `last_boolean_evaluator.rs` assert. This holds for
every split of a test's rows into `aggregate` / `aggregate_since` calls and
for every non-decreasing `num_groups` that covers the rows. The TLC run
shows this for `MaxGroups = 4` and up to 10 batches; the theorem shows it
for every value of the constants. The spec's scenario (case 4) is left out,
because the `spec_scenario_last` run shows that it does not hold.

The argument uses a table of snapshots, `Snap1`, `Snap2` and `Snap3`. Each
holds the token of entities 0 to 3 after each prefix of a test's rows.
`EntryAfter(c, n, e)` reads an entry, and it is `Null` for every other
entity. The proof has three parts:
- `Rows1`, `Rows2` and `Rows3` check the tables once, row by row
  (`RowAgrees`): the row emits the asserted value from the entry of its
  entity, and it turns snapshot n into snapshot n + 1 by the update of
  `update_accum` or `update_since_accum`.
- `StepEntry` restates this for any row and any entity.
- The inductive invariant `TInv` carries the table through the replay, and
  `InitTInv` and `NextTInv` show that it is kept. TInv states:
  - the rows fed so far are a prefix of the test's rows, and each has an
    entity below `capacity`;
  - the running batch is the last `Len(batch)` rows fed, and `pos` points
    at the row after the last one emitted;
  - every output emitted equals the asserted one;
  - the token is the snapshot after the rows emitted;
  - every token entry at or past `capacity` is `Null`.

The last conjunct is what makes `Resize` harmless. The entries it nulls are
already null, because no fed row has reached them. `TInv` was checked with
TLC before it was proved: 5,362 states for `MaxGroups = 4`, and again for
`MaxGroups = 5` so that an entity outside the table is present. A row fact
is proved on literal values (`RowOK`) and then carried to `Case(c).rows`.
The SMT backend times out on the same fact stated over `Case(c).rows[n + 1]`.

TLAPS cannot prove liveness, ENABLED or induction over data. These stay
with TLC. The modules that are proved about contain no RECURSIVE
operators. What is checked by TLC only:

- `ExampleTerminates`. It is liveness under the weak fairness of the two
  tasks.
- OutputWrite's `TypeOK` (the state's shape, and an absolute `outPath`).
  It types the channel's paths as sequences of
  `STRING`. The writer puts literals such as `"file:"` in them, and the
  provers cannot show that a string literal is in `STRING`. The proofs use
  the token set `Tok` instead (`ISeqs`), which says the same thing of the
  paths' shape.
- RawMetadata's `UnitTestSchemas`. The tests' schemas compare the time
  zone `"UTC"` with `NoTz`. The provers cannot show a string literal
  distinct from a constant assumed to be outside `STRING`, for the same
  reason as above.

## 6. Not modelled, and why

- The Sliding window (`TwoStacksLastBooleanEvaluator`), the token's
  `serialize` / `deserialize`, shift, lag and the other aggregations. Their
  source is not in this repository. Shift and lag can be modelled from the
  spec later (marked `spec_modelled`), with the e2e tests as reference data.
- Parquet and CSV I/O, object-store downloads, the Pulsar schema fetch and
  the compiler front end. These are pure I/O or external collaborators with
  no state of their own.
- The components listed in §2 that this sitting has not reached. Their
  hazards are listed in `PROJECT.json`, each with a note.
