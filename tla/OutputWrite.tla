----------------------------- MODULE OutputWrite -----------------------------
(***************************************************************************)
(* The object-store output writer (sparrow-runtime, execute/output/        *)
(* object_store.rs, `write`) and the consumer of its progress stream in    *)
(* the catalog's example runner (sparrow-catalog, update/                  *)
(* execute_example.rs, `execute_example`).                                  *)
(*                                                                         *)
(* The writer and the consumer are two tasks sharing a bounded progress    *)
(* channel.  The writer resolves its destination from the output prefix    *)
(* URI, writes the result batches (each batch may send a progress update   *)
(* with a blocking `send`), and reports the file with a non-blocking       *)
(* `try_send` of FilesProduced.  The consumer drains the stream until the  *)
(* writer has returned and the channel is empty, then checks that it got   *)
(* exactly one `file:///` path and opens that file.                        *)
(*                                                                         *)
(* A URI or a path is a sequence of tokens: a scheme ("file:", "s3:"), a   *)
(* "/" per slash, and one token per name.  strip_prefix, starts_with,      *)
(* insert_str and PathBuf::push are modelled by what they do to such a     *)
(* sequence; a file-system path is looked up by its components.            *)
(***************************************************************************)
EXTENDS Naturals, Sequences

CONSTANTS
  OutputPrefixes,  \* the output_prefix_uri values a destination may carry
  Formats,         \* the FileFormat values a destination may carry
  InitialDirs,     \* the directories that exist before the write
  ChanCap,         \* capacity of the progress channel
  MaxBatches       \* bound on the result batches of the stream

ASSUME OutputAssumption ==
  /\ OutputPrefixes \subseteq Seq(STRING)
  /\ ChanCap \in Nat \ {0}
  /\ MaxBatches \in Nat
  /\ Formats \subseteq {"Csv", "Parquet", "Unspecified"}

VARIABLES
  prefix,    \* output_prefix_uri of the destination
  format,    \* the destination's FileFormat
  wpc,       \* writer: "start", "writing", "upload", "report", "ok", "err", "panicked"
  werr,      \* the Error the writer returned, or "none"
  branch,    \* "none", "local" or "s3": which branch of `write` runs
  outPath,   \* the local path of the file being written (local: output_path)
  dirs,      \* existing directories, by their components
  files,     \* existing files, by their components
  objects,   \* S3 objects uploaded, by their key URIs
  chan,      \* the progress channel: a queue of messages
  batchesLeft, \* result batches of the stream not yet written
  cpc,       \* consumer: "running", "done" or "panicked"
  paths,     \* output paths the consumer has collected (try_concat)
  readFile   \* the file the consumer opened, or <<>>

vars == <<prefix, format, wpc, werr, branch, outPath, dirs, files, objects,
          chan, batchesLeft, cpc, paths, readFile>>

FilePrefix == <<"file:", "/", "/", "/">>

Progress == [kind |-> "Progress", paths |-> <<>>]
FilesProduced(uri) == [kind |-> "FilesProduced", paths |-> <<uri>>]

(* The file-system object a path names: an absolute path by its           *)
(* components; a relative one under the (unrelated) working directory.     *)
Components(s) == SelectSeq(s, LAMBDA t : t # "/")
StartsWithSlash(s) == Len(s) > 0 /\ s[1] = "/"
Resolve(s) == IF StartsWithSlash(s) THEN Components(s)
              ELSE <<"cwd">> \o Components(s)

(* str::starts_with: t begins with the tokens of s.                       *)
IsPrefix(s, t) == Len(s) <= Len(t) /\ SubSeq(t, 1, Len(s)) = s

(* str::strip_prefix("file:///"): the rest when it matches.               *)
StripFilePrefix(s) == SubSeq(s, Len(FilePrefix) + 1, Len(s))

(* is_s3_path: the URI has the s3 scheme.                                 *)
IsS3Path(s) == Len(s) > 0 /\ s[1] = "s3:"

(* S3Object::try_from_uri succeeds on s3://bucket...                      *)
ValidS3Uri(s) == Len(s) >= 4 /\ s[2] = "/" /\ s[3] = "/" /\ s[4] # "/"

(* output_file_name: <uuid>.<extension>; Unspecified panics.              *)
OutputFileName(f) == IF f = "Csv" THEN "u.csv" ELSE "u.parquet"

(* create_tempfile: a NamedTempFile in /data with that suffix.            *)
TempPath(f) == <<"/", "data", "/", IF f = "Csv" THEN "tmp-u.csv" ELSE "tmp-u.parquet">>

(* PathBuf::push of a file name: a separator is added unless present.     *)
PushName(p, n) == IF p[Len(p)] = "/" THEN Append(p, n) ELSE p \o <<"/", n>>

(* The directories create_dir_all makes for path p, top down; it stops    *)
(* at the first failure, leaving the ones above created.                  *)
DirsUpTo(p, k) == { SubSeq(Components(p), 1, j) : j \in 1 .. k }

(* try_send: the message is queued if there is room, else it is dropped  *)
(* (the error is only logged).                                            *)
TrySend(m) == chan' = IF Len(chan) < ChanCap THEN Append(chan, m) ELSE chan

Terminated == {"ok", "err", "panicked"}

(* execute_example: a fresh temp directory, the destination               *)
(* file:///{tempdir} with format Csv; other callers of `write` pass any    *)
(* destination, which OutputPrefixes and Formats stand for.                *)
Init ==
  /\ prefix \in OutputPrefixes
  /\ format \in Formats
  /\ wpc = "start"
  /\ werr = "none"
  /\ branch = "none"
  /\ outPath = <<>>
  /\ dirs = InitialDirs
  /\ files = {}
  /\ objects = {}
  /\ chan = <<>>
  /\ batchesLeft \in 0 .. MaxBatches
  /\ cpc = "running"
  /\ paths = <<>>
  /\ readFile = <<>>

Fail(e) == wpc' = "err" /\ werr' = e

(* write, S3 branch, up to write_to_file: output_file_name panics on an   *)
(* Unspecified format; create_tempfile in /data may fail.                  *)
WriteS3Open ==
  /\ wpc = "start"
  /\ IsS3Path(prefix)
  /\ branch' = "s3"
  /\ \/ /\ format = "Unspecified"
        /\ wpc' = "panicked"
        /\ UNCHANGED <<werr, outPath, files>>
     \/ /\ format # "Unspecified"
        /\ \/ /\ Fail("LocalWriteFailure")
              /\ UNCHANGED <<outPath, files>>
           \/ /\ <<"data">> \in dirs
              /\ wpc' = "writing"
              /\ outPath' = TempPath(format)
              /\ files' = files \cup {Resolve(TempPath(format))}
              /\ UNCHANGED werr
  /\ UNCHANGED <<prefix, format, dirs, objects, chan, batchesLeft, cpc, paths, readFile>>

(* Mutant: the local branch strips file:/// but no longer checks that     *)
(* what is left starts with '/', so a relative path is written under the   *)
(* working directory.                                                      *)
WriteLocalOpenNoSlashCheck ==
  /\ wpc = "start"
  /\ ~IsS3Path(prefix)
  /\ branch' = "local"
  /\ \/ /\ ~IsPrefix(FilePrefix, prefix)
        /\ Fail("UnsupportedUri")
        /\ UNCHANGED <<outPath, dirs, files>>
     \/ LET p == StripFilePrefix(prefix)
            c == Components(p)
            exists == c \in dirs \cup files
        IN  /\ IsPrefix(FilePrefix, prefix)
            /\ Len(p) > 0
            /\ \/ /\ ~exists
                  /\ \E k \in 0 .. Len(c) - 1 : dirs' = dirs \cup DirsUpTo(p, k)
                  /\ Fail("LocalWriteFailure")
                  /\ UNCHANGED <<outPath, files>>
               \/ LET made == IF exists THEN dirs ELSE dirs \cup DirsUpTo(p, Len(c))
                      path == PushName(p, OutputFileName(format))
                  IN  /\ dirs' = made
                      /\ format # "Unspecified"
                      /\ c \in made
                      /\ wpc' = "writing"
                      /\ outPath' = path
                      /\ files' = files \cup {Resolve(path)}
                      /\ UNCHANGED werr
  /\ UNCHANGED <<prefix, format, objects, chan, batchesLeft, cpc, paths, readFile>>

(* write, local branch, up to write_to_file (no await in between): strip   *)
(* file:///, require an absolute path, create missing directories, then   *)
(* output_file_name (which panics on Unspecified) and File::create.       *)
WriteLocalOpen ==
  /\ wpc = "start"
  /\ ~IsS3Path(prefix)
  /\ branch' = "local"
  /\ \/ /\ ~IsPrefix(FilePrefix, prefix)
        /\ Fail("UnsupportedUri")
        /\ UNCHANGED <<outPath, dirs, files>>
     \/ /\ IsPrefix(FilePrefix, prefix)
        /\ ~StartsWithSlash(StripFilePrefix(prefix))
        /\ Fail("UnsupportedUri")
        /\ UNCHANGED <<outPath, dirs, files>>
     \/ LET p == StripFilePrefix(prefix)
            c == Components(p)
            exists == c \in dirs \cup files
        IN  /\ IsPrefix(FilePrefix, prefix)
            /\ StartsWithSlash(p)
            /\ \/ /\ ~exists
                  /\ \E k \in 0 .. Len(c) - 1 : dirs' = dirs \cup DirsUpTo(p, k)
                  /\ Fail("LocalWriteFailure")
                  /\ UNCHANGED <<outPath, files>>
               \/ LET made == IF exists THEN dirs ELSE dirs \cup DirsUpTo(p, Len(c))
                      path == PushName(p, OutputFileName(format))
                  IN  /\ dirs' = made
                      /\ \/ /\ format = "Unspecified"
                            /\ wpc' = "panicked"
                            /\ UNCHANGED <<werr, outPath, files>>
                         \/ /\ format # "Unspecified"
                            /\ Fail("LocalWriteFailure")
                            /\ UNCHANGED <<outPath, files>>
                         \/ /\ format # "Unspecified"
                            /\ c \in made
                            /\ wpc' = "writing"
                            /\ outPath' = path
                            /\ files' = files \cup {Resolve(path)}
                            /\ UNCHANGED werr
  /\ UNCHANGED <<prefix, format, objects, chan, batchesLeft, cpc, paths, readFile>>

(* write_csv / write_parquet: the next batch is written and a progress    *)
(* update is sent with a blocking send (the task waits while the channel  *)
(* is full).                                                              *)
WriteProgress ==
  /\ wpc = "writing"
  /\ batchesLeft > 0
  /\ Len(chan) < ChanCap
  /\ chan' = Append(chan, Progress)
  /\ batchesLeft' = batchesLeft - 1
  /\ UNCHANGED <<prefix, format, wpc, werr, branch, outPath, dirs, files,
                 objects, cpc, paths, readFile>>

(* write_to_file returns an error: `?` returns it from write; the S3 temp *)
(* file is removed when it is dropped.                                    *)
WriteFail ==
  /\ wpc = "writing"
  /\ Fail("LocalWriteFailure")
  /\ files' = IF branch = "s3" THEN files \ {Resolve(outPath)} ELSE files
  /\ UNCHANGED <<prefix, format, branch, outPath, dirs, objects, chan, batchesLeft,
                 cpc, paths, readFile>>

(* write_to_file returns Ok: every batch has been written.                *)
WriteFinish ==
  /\ wpc = "writing"
  /\ batchesLeft = 0
  /\ wpc' = IF branch = "s3" THEN "upload" ELSE "report"
  /\ UNCHANGED <<prefix, format, werr, branch, outPath, dirs, files, objects,
                 chan, batchesLeft, cpc, paths, readFile>>

(* S3 branch after the write: parse the prefix, upload the temp file under *)
(* <prefix>/<name>, try_send FilesProduced; the temp file is dropped.     *)
Upload ==
  LET key == prefix \o <<"/", OutputFileName(format)>>
  IN
  /\ wpc = "upload"
  /\ files' = files \ {Resolve(outPath)}
  /\ \/ /\ ~ValidS3Uri(prefix)
        /\ Fail("MalformedUri")
        /\ UNCHANGED <<objects, chan>>
     \/ /\ ValidS3Uri(prefix)
        /\ Fail("UploadFailure")
        /\ UNCHANGED <<objects, chan>>
     \/ /\ ValidS3Uri(prefix)
        /\ objects' = objects \cup {key}
        /\ TrySend(FilesProduced(key))
        /\ wpc' = "ok"
        /\ UNCHANGED werr
  /\ UNCHANGED <<prefix, format, branch, outPath, dirs, batchesLeft, cpc, paths, readFile>>

(* Mutant: the prefix is put back as file:// (one slash short).           *)
ReportTwoSlashes ==
  /\ wpc = "report"
  /\ TrySend(FilesProduced(<<"file:", "/", "/">> \o outPath))
  /\ wpc' = "ok"
  /\ UNCHANGED <<prefix, format, werr, branch, outPath, dirs, files, objects,
                 batchesLeft, cpc, paths, readFile>>

(* Local branch after the write: prepend file:/// to the path and         *)
(* try_send FilesProduced; write returns Ok(()).                           *)
Report ==
  /\ wpc = "report"
  /\ TrySend(FilesProduced(FilePrefix \o outPath))
  /\ wpc' = "ok"
  /\ UNCHANGED <<prefix, format, werr, branch, outPath, dirs, files, objects,
                 batchesLeft, cpc, paths, readFile>>

(* Mutant: the consumer only reads the stream once the writer returned.   *)
ReceiveAfterWriter ==
  /\ cpc = "running"
  /\ wpc \in Terminated
  /\ chan # <<>>
  /\ paths' = paths \o Head(chan).paths
  /\ chan' = Tail(chan)
  /\ UNCHANGED <<prefix, format, wpc, werr, branch, outPath, dirs, files,
                 objects, batchesLeft, readFile, cpc>>

(* execute_example: the stream yields the next update; try_concat         *)
(* collects its output paths.                                             *)
Receive ==
  /\ cpc = "running"
  /\ chan # <<>>
  /\ paths' = paths \o Head(chan).paths
  /\ chan' = Tail(chan)
  /\ UNCHANGED <<prefix, format, wpc, werr, branch, outPath, dirs, files,
                 objects, batchesLeft, readFile>>
  /\ UNCHANGED cpc

(* The checks of execute_example on the collected paths: one path, with   *)
(* the file:/// prefix, naming a file that opens.                          *)
ExampleReads(ps) ==
  /\ Len(ps) = 1
  /\ IsPrefix(FilePrefix, ps[1])
  /\ Resolve(StripFilePrefix(ps[1])) \in files

(* The stream has ended (the writer returned, the channel is drained):     *)
(* an error panics in unwrap; then assert one path, assert the file:///    *)
(* prefix, strip it and open the file (unwrap).                           *)
Finish ==
  /\ cpc = "running"
  /\ chan = <<>>
  /\ wpc \in Terminated
  /\ \/ /\ wpc # "ok"
        /\ cpc' = "panicked"
        /\ UNCHANGED readFile
     \/ /\ wpc = "ok"
        /\ ~ExampleReads(paths)
        /\ cpc' = "panicked"
        /\ UNCHANGED readFile
     \/ /\ wpc = "ok"
        /\ ExampleReads(paths)
        /\ cpc' = "done"
        /\ readFile' = Resolve(StripFilePrefix(paths[1]))
  /\ UNCHANGED <<prefix, format, wpc, werr, branch, outPath, dirs, files,
                 objects, chan, batchesLeft, paths>>

(* The writer's own steps; a failure of the batch writer is not one of    *)
(* them, since nothing forces an I/O error to happen.                     *)
Writer == WriteS3Open \/ WriteLocalOpen \/ WriteProgress \/ WriteFinish
          \/ Upload \/ Report

Consumer == Receive \/ Finish

Next == Writer \/ WriteFail \/ Consumer

(* Both are tokio tasks: each runs whenever it can make progress.          *)
Spec == Init /\ [][Next]_vars /\ WF_vars(Writer) /\ WF_vars(Consumer)

-----------------------------------------------------------------------------

(* Every variable has the shape the code gives it, and the file `write`   *)
(* creates is named by an absolute path (the /data temp file, or the path  *)
(* the local branch accepted), never one relative to the working          *)
(* directory.                                                              *)
TypeOK ==
  /\ wpc \in {"start", "writing", "upload", "report"} \cup Terminated
  /\ werr \in {"none", "UnsupportedUri", "LocalWriteFailure", "MalformedUri",
               "UploadFailure"}
  /\ branch \in {"none", "local", "s3"}
  /\ chan \in Seq([kind : {"Progress", "FilesProduced"}, paths : Seq(Seq(STRING))])
  /\ Len(chan) <= ChanCap
  /\ batchesLeft \in 0 .. MaxBatches
  /\ cpc \in {"running", "done", "panicked"}
  /\ outPath = <<>> \/ StartsWithSlash(outPath)

(* The URI the writer reports, after the consumer strips file:/// from    *)
(* it, names the very file the writer created, which exists until the     *)
(* consumer has opened it, and the file the consumer opens is that file:  *)
(* the insert_str of the prefix, the strip_prefix of execute_example and   *)
(* PathBuf::push agree whatever the shape of the output prefix.            *)
ReportedPathIsWrittenFile ==
  /\ \A i \in 1 .. Len(paths) :
        IsPrefix(FilePrefix, paths[i]) =>
           /\ Resolve(StripFilePrefix(paths[i])) = Resolve(outPath)
           /\ readFile = <<>> => Resolve(outPath) \in files
  /\ readFile # <<>> => readFile = Resolve(outPath)

(* execute_example asserts that the run produced exactly one output path: *)
(* whenever `write` returned Ok, the consumer gets exactly that one.       *)
ExampleGetsOnePath ==
  (cpc # "running" /\ wpc = "ok") => Len(paths) = 1

(* A destination the writer cannot serve is reported as an Error (the     *)
(* UnspecifiedFormat variant of write_to_file), never by a panic.         *)
WriteNeverPanics == wpc # "panicked"

=============================================================================
