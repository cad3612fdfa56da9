------------------------------ MODULE ExampleRun ------------------------------
(***************************************************************************)
(* The catalog's example runner as a whole (sparrow-catalog, update/       *)
(* execute_example.rs): ExampleInputPreparer turns the example's CSV       *)
(* inputs into ComputeTables backed by prepared temp files, the query is   *)
(* compiled and executed, and the output writer and the consumer of its    *)
(* progress stream (module OutputWrite) run until the result is read; the  *)
(* function then returns, dropping the preparer and closing the temp      *)
(* output directory.                                                       *)
(*                                                                         *)
(* A table is named by a model value, a temp file by a number; `inDisk` is *)
(* the set of prepared input files that exist.  The outcomes of CSV        *)
(* preparation, compilation and execution are choices.                     *)
(***************************************************************************)
EXTENDS OutputWrite

CONSTANTS
  Examples   \* the examples a run executes: [input: BOOLEAN, tables: Seq]

(* A FunctionExample: whether it has an input CSV, and its tables' names. *)
ASSUME ExampleAssumption ==
  \A ex \in Examples : ex.input \in BOOLEAN /\ ex.tables \in Seq(STRING)

VARIABLES
  example,   \* the FunctionExample being executed
  stage,     \* "prepare", "execute", "returned" or "panicked"
  pending,   \* names of the tables prepare_inputs has not prepared yet
  tables,    \* the ComputeTables prepared so far: [name, data, meta]
  kept,      \* the preparer's prepared_files, in push order
  inDisk,    \* prepared input temp files that exist
  nextTmp,   \* the next temp file tempfile() creates
  exErr      \* NoError, or the Error execute_example returned

exvars == <<example, stage, pending, tables, kept, inDisk, nextTmp, exErr>>

allvars == <<vars, exvars>>

(* The temp files a vector holds.                                         *)
Kept(s) == {s[i] : i \in DOMAIN s}

(* Ok: no Error.                                                            *)
NoError == [kind |-> "none", table |-> "none"]

(* prepare_inputs: the "Input" table when there is an input CSV, then the *)
(* example's tables, in order.                                            *)
InputNames(ex) == (IF ex.input THEN <<"Input">> ELSE <<>>) \o ex.tables

ExampleInit ==
  /\ Init
  /\ example \in Examples
  /\ stage = "prepare"
  /\ pending = InputNames(example)
  /\ tables = <<>>
  /\ kept = <<>>
  /\ inDisk = {}
  /\ nextTmp = 0
  /\ exErr = NoError

(* execute_example returns: the preparer is dropped with it, and every     *)
(* NamedTempFile it holds is deleted.                                      *)
Return(e) ==
  /\ stage' = "returned"
  /\ exErr' = e
  /\ kept' = <<>>
  /\ inDisk' = inDisk \ Kept(kept)

Panic == stage' = "panicked" /\ UNCHANGED <<kept, inDisk, exErr>>

(* Mutant: a prepare_input whose prepared files are never pushed into      *)
(* prepared_files, so both are dropped when it returns.                    *)
PrepareInputNoRetain ==
  /\ stage = "prepare"
  /\ pending # <<>>
  /\ tables' = Append(tables, [name |-> Head(pending), data |-> nextTmp,
                               meta |-> nextTmp + 1])
  /\ nextTmp' = nextTmp + 2
  /\ pending' = Tail(pending)
  /\ UNCHANGED <<example, stage, kept, inDisk, exErr>>
  /\ UNCHANGED vars

(* Mutant: a prepare_input that does not count the temp files it creates, *)
(* so the next table's files reuse them.                                   *)
PrepareInputReuseTemp ==
  /\ stage = "prepare"
  /\ pending # <<>>
  /\ tables' = Append(tables, [name |-> Head(pending), data |-> nextTmp,
                               meta |-> nextTmp + 1])
  /\ kept' = Append(Append(kept, nextTmp), nextTmp + 1)
  /\ inDisk' = inDisk \cup {nextTmp, nextTmp + 1}
  /\ pending' = Tail(pending)
  /\ UNCHANGED <<example, stage, nextTmp, exErr>>
  /\ UNCHANGED vars

(* One call of prepare_input, for the next table of prepare_inputs.       *)
(* prepared_batches or its collect fails (PrepareInput, before any temp    *)
(* file); indexing prepared_batches[0] of an empty result, a tempfile,     *)
(* File::create or ArrowWriter unwrap, or a try_into unwrap panics; the    *)
(* two temp files are written and try_from_local_parquet_path fails (they  *)
(* are dropped); or both are pushed into prepared_files and the table,     *)
(* with file_count 1, is added.  An error leaves prepare_inputs through    *)
(* `?` with the table's name attached, and execute_example returns it.     *)
PrepareInput ==
  LET name == Head(pending)
      d == nextTmp
      m == nextTmp + 1
  IN
  /\ stage = "prepare"
  /\ pending # <<>>
  /\ \/ /\ Return([kind |-> "PrepareInput", table |-> name])
        /\ UNCHANGED <<nextTmp, pending, tables>>
     \/ /\ Panic
        /\ \E made \in {0, 1, 2} : nextTmp' = nextTmp + made
        /\ UNCHANGED <<pending, tables>>
     \/ /\ Return([kind |-> "PrepareInput", table |-> name])
        /\ nextTmp' = nextTmp + 2
        /\ UNCHANGED <<pending, tables>>
     \/ /\ tables' = Append(tables, [name |-> name, data |-> d, meta |-> m])
        /\ kept' = Append(Append(kept, d), m)
        /\ inDisk' = inDisk \cup {d, m}
        /\ nextTmp' = nextTmp + 2
        /\ pending' = Tail(pending)
        /\ UNCHANGED <<stage, exErr>>
  /\ UNCHANGED example
  /\ UNCHANGED vars

(* prepare_inputs has returned its tables: compile_proto fails             *)
(* (CompileQuery) or yields no plan (QueryErrors); the tempdir unwrap      *)
(* panics; `execute` fails (ExecuteQuery); or the query runs and the       *)
(* writer and the consumer of its stream take over.                        *)
CompileAndExecute ==
  /\ stage = "prepare"
  /\ pending = <<>>
  /\ \/ \E e \in {"CompileQuery", "QueryErrors", "ExecuteQuery"} :
          Return([kind |-> e, table |-> "none"])
     \/ Panic
     \/ stage' = "execute" /\ UNCHANGED <<kept, inDisk, exErr>>
  /\ UNCHANGED <<example, pending, tables, nextTmp>>
  /\ UNCHANGED vars

(* The temp output directory tempdir.close() removes, with all below it.  *)
UnderTempDir(p) == IsPrefix(Components(StripFilePrefix(prefix)), p)

(* The consumer has opened the one output file: from_csv_file, the        *)
(* removal of the key columns and to_csv (unwraps that may panic), then    *)
(* tempdir.close() and Ok(content).                                        *)
ReadResult ==
  /\ stage = "execute"
  /\ cpc = "done"
  /\ \/ /\ Panic
        /\ UNCHANGED <<dirs, files>>
     \/ /\ Return(NoError)
        /\ dirs' = {p \in dirs : ~UnderTempDir(p)}
        /\ files' = {p \in files : ~UnderTempDir(p)}
  /\ UNCHANGED <<example, pending, tables, nextTmp>>
  /\ UNCHANGED <<prefix, format, wpc, werr, branch, outPath, objects, chan,
                 batchesLeft, cpc, paths, readFile>>

(* The steps of execute_example itself.                                    *)
Runner == PrepareInput \/ CompileAndExecute \/ ReadResult

(* The query runs: the writer and the consumer (OutputWrite) step.         *)
Query(A) == stage = "execute" /\ A /\ UNCHANGED exvars

ExampleNext == Runner \/ Query(Next)

(* execute_example is one async function: each of its steps runs once it *)
(* can; the writer and the consumer are tokio tasks (OutputWrite).         *)
ExampleSpec ==
  /\ ExampleInit /\ [][ExampleNext]_allvars
  /\ WF_allvars(Runner)
  /\ WF_allvars(Query(Writer))
  /\ WF_allvars(Query(Consumer))

-----------------------------------------------------------------------------

(* Every variable of the runner has the shape the code gives it.          *)
ExampleTypeOK ==
  /\ stage \in {"prepare", "execute", "returned", "panicked"}
  /\ nextTmp \in Nat
  /\ inDisk \subseteq 0 .. nextTmp - 1
  /\ Kept(kept) \subseteq 0 .. nextTmp - 1
  /\ Len(tables) + Len(pending) = Len(InputNames(example))

(* While the query compiles and runs, the tables it was given are the      *)
(* example's inputs in order ("Input" first when there is an input CSV),   *)
(* and each names a data and a metadata file that the preparer keeps       *)
(* alive: the prepared files outlive prepare_input until execute_example  *)
(* returns.                                                                *)
InputsLiveDuringQuery ==
  stage = "execute" =>
    /\ [i \in DOMAIN tables |-> tables[i].name] = InputNames(example)
    /\ \A i \in DOMAIN tables : {tables[i].data, tables[i].meta} \subseteq inDisk

(* The example runner always finishes: it returns or panics, and the      *)
(* writer's blocking sends never wait forever on a consumer that waits     *)
(* for the writer.                                                         *)
ExampleTerminates == <>(stage \in {"returned", "panicked"} \/ cpc = "panicked")

=============================================================================
