------------------------------ MODULE LocalTable ------------------------------
(***************************************************************************)
(* LocalTestTable (sparrow-main, tests/e2e/fixture/local_table.rs): the   *)
(* table an end-to-end test builds by adding source files.  add_source     *)
(* prepares each batch of a file into two temp files (data and metadata),  *)
(* adds one file to the table metadata and keeps both NamedTempFiles alive  *)
(* in retained_files; clear() empties the file lists; table() hands the    *)
(* query a ComputeTable built from the metadata and the prepared files.    *)
(*                                                                         *)
(* A temp file is a number; `disk` is the set of temp files that exist: a  *)
(* NamedTempFile is deleted when it is dropped, on an error path or when   *)
(* retained_files is cleared.  A schema is a model value.  The I/O and     *)
(* conversion outcomes of a batch are choices.                             *)
(***************************************************************************)
EXTENDS Naturals, Sequences

CONSTANTS
  Schemas,    \* the table schemas batches may have
  Sources,    \* the sources a test adds: sequences of batch schemas
  Null,       \* no metadata yet
  MaxCalls    \* bound on the calls a test makes

ASSUME LocalTableAssumption ==
  /\ Sources \subseteq Seq(Schemas)
  /\ Null \notin [schema : Schemas, file_count : Nat]
  /\ MaxCalls \in Nat

VARIABLES
  metadata,   \* Option<TableMetadata>: Null or [schema, file_count]
  prepared,   \* prepared_files: [data, meta, schema] per prepared batch
  retained,   \* retained_files: the temp files kept alive, in push order
  disk,       \* the temp files that exist
  nextTmp,    \* the next temp file tempfile() creates
  pc,         \* "idle", "adding" (inside add_source) or "panicked"
  pending,    \* the batches of the current add_source not yet prepared
  calls,      \* calls made so far
  cleared     \* history: prepared files removed by clear()

vars == <<metadata, prepared, retained, disk, nextTmp, pc, pending, calls,
          cleared>>

(* LocalTestTable::new: no metadata, no files.                            *)
Init ==
  /\ metadata = Null
  /\ prepared = <<>>
  /\ retained = <<>>
  /\ disk = {}
  /\ nextTmp = 0
  /\ pc = "idle"
  /\ pending = <<>>
  /\ calls = 0
  /\ cleared = 0

(* The temp files a vector holds.                                         *)
Kept(s) == {s[i] : i \in DOMAIN s}

Call == pc = "idle" /\ calls < MaxCalls /\ calls' = calls + 1

(* Mutant: update_table_metadata that overwrites the file count.          *)
UpdateTableMetadataOverwrite(schema) ==
  IF metadata = Null THEN metadata' = [schema |-> schema, file_count |-> 1]
  ELSE /\ metadata.schema = schema
       /\ metadata' = [schema |-> metadata.schema, file_count |-> 1]

(* update_table_metadata with a one-file TableMetadata: the first sets     *)
(* it; later ones must have the same schema (assert_eq!) and add their     *)
(* file_count.  A schema mismatch panics: the caller checks the guard.      *)
UpdateTableMetadata(schema) ==
  IF metadata = Null THEN metadata' = [schema |-> schema, file_count |-> 1]
  ELSE /\ metadata.schema = schema
       /\ metadata' = [schema |-> metadata.schema,
                       file_count |-> metadata.file_count + 1]

SchemaMismatch(schema) == metadata # Null /\ metadata.schema # schema

(* add_source: prepared_batches(..)? either fails before any batch, or     *)
(* the loop over its batches starts.                                       *)
AddSource ==
  /\ Call
  /\ \E src \in Sources :
       \/ pending' = <<>> /\ UNCHANGED pc
       \/ pending' = src /\ pc' = "adding"
  /\ UNCHANGED <<metadata, prepared, retained, disk, nextTmp, cleared>>

(* One iteration of the loop, up to `?` returning an error: the batch item *)
(* fails (no temp file yet); File::create fails (the data temp file is     *)
(* dropped); File::create of the metadata file or                          *)
(* try_from_local_parquet_path fails (both are dropped).  Each ends the    *)
(* call with Err; the batches of earlier iterations stay.                  *)
BatchFails ==
  /\ pc = "adding"
  /\ pending # <<>>
  /\ \E made \in {0, 1, 2} : nextTmp' = nextTmp + made
  /\ pc' = "idle"
  /\ pending' = <<>>
  /\ UNCHANGED <<metadata, prepared, retained, disk, calls, cleared>>

(* Mutant: an iteration that reuses the temp file of the last one.         *)
PrepareBatchReuseTemp ==
  /\ pc = "adding"
  /\ pending # <<>>
  /\ ~SchemaMismatch(Head(pending))
  /\ UpdateTableMetadata(Head(pending))
  /\ prepared' = Append(prepared, [data |-> nextTmp, meta |-> nextTmp + 1,
                                   schema |-> Head(pending)])
  /\ retained' = Append(Append(retained, nextTmp), nextTmp + 1)
  /\ disk' = disk \cup {nextTmp, nextTmp + 1}
  /\ pending' = Tail(pending)
  /\ UNCHANGED <<nextTmp, pc, calls, cleared>>

(* One iteration that gets through: both temp files are written, the       *)
(* metadata is updated, the prepared file is pushed and both temp files    *)
(* are retained.  An unwrap on tempfile / ArrowWriter / the conversion, or *)
(* the schema assert_eq!, panics instead.                                  *)
PrepareBatch ==
  /\ pc = "adding"
  /\ pending # <<>>
  /\ LET schema == Head(pending)
         d == nextTmp
         m == nextTmp + 1
     IN  \/ /\ ~SchemaMismatch(schema)
            /\ UpdateTableMetadata(schema)
            /\ prepared' = Append(prepared, [data |-> d, meta |-> m, schema |-> schema])
            /\ retained' = Append(Append(retained, d), m)
            /\ disk' = disk \cup {d, m}
            /\ nextTmp' = nextTmp + 2
            /\ pending' = Tail(pending)
            /\ UNCHANGED pc
         \/ /\ pc' = "panicked"
            /\ UNCHANGED <<metadata, prepared, retained, disk, nextTmp, pending>>
  /\ UNCHANGED <<calls, cleared>>

(* The loop has run out of batches: add_source returns Ok(()).             *)
AddSourceDone ==
  /\ pc = "adding"
  /\ pending = <<>>
  /\ pc' = "idle"
  /\ UNCHANGED <<metadata, prepared, retained, disk, nextTmp, pending, calls,
                 cleared>>

(* Mutant: a clear() that forgets prepared_files.                          *)
ClearRetainedOnly ==
  /\ Call
  /\ retained' = <<>>
  /\ disk' = disk \ Kept(retained)
  /\ UNCHANGED <<metadata, prepared, nextTmp, pc, pending, cleared>>

(* clear(): both vectors are emptied; dropping the NamedTempFiles deletes  *)
(* them.  The metadata (schema, file_count) is left as it is.              *)
Clear ==
  /\ Call
  /\ prepared' = <<>>
  /\ retained' = <<>>
  /\ disk' = disk \ Kept(retained)
  /\ cleared' = cleared + Len(prepared)
  /\ UNCHANGED <<metadata, nextTmp, pc, pending>>

(* table(): panics without metadata; otherwise it returns a ComputeTable  *)
(* of clones of the metadata and prepared_files and changes nothing.       *)
Table ==
  /\ Call
  /\ \/ metadata = Null /\ pc' = "panicked"
     \/ metadata # Null /\ UNCHANGED pc
  /\ UNCHANGED <<metadata, prepared, retained, disk, nextTmp, pending, cleared>>

Next ==
  \/ AddSource \/ BatchFails \/ PrepareBatch \/ AddSourceDone
  \/ Clear \/ Table

Spec == Init /\ [][Next]_vars

-----------------------------------------------------------------------------

Prepared == [data : Nat, meta : Nat, schema : Schemas]

(* Every variable has the shape the code gives it.                        *)
TypeOK ==
  /\ metadata = Null \/ metadata \in [schema : Schemas, file_count : Nat \ {0}]
  /\ prepared \in Seq(Prepared)
  /\ retained \in Seq(Nat)
  /\ nextTmp \in Nat
  /\ disk \subseteq 0 .. nextTmp - 1
  /\ pc \in {"idle", "adding", "panicked"}
  /\ pending \in Seq(Schemas)
  /\ calls \in 0 .. MaxCalls
  /\ cleared \in Nat

(* The temp files on disk are exactly those retained_files keeps alive     *)
(* (an add_source that fails part-way leaks none), and every prepared      *)
(* file a ComputeTable would list, data and metadata, is one of them.      *)
PreparedFilesLive ==
  pc # "panicked" =>
    /\ disk = Kept(retained)
    /\ \A i \in DOMAIN prepared : {prepared[i].data, prepared[i].meta} \subseteq disk

(* file_count counts every file ever added, not the files the table has:   *)
(* clear() leaves it (and the schema) as it was, so it is the prepared     *)
(* files plus those cleared; every prepared file has the table's schema.   *)
FileCountCountsAddedFiles ==
  (pc # "panicked" /\ metadata # Null) =>
    /\ metadata.file_count = Len(prepared) + cleared
    /\ \A i \in DOMAIN prepared : prepared[i].schema = metadata.schema

=============================================================================
