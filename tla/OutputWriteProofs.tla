-------------------------- MODULE OutputWriteProofs --------------------------
(***************************************************************************)
(* Proofs about the output writer and the consumer of its progress stream *)
(* (module OutputWrite): the path the consumer strips and opens is the    *)
(* file the writer created, for every output prefix, format, channel      *)
(* capacity and number of batches.                                        *)
(***************************************************************************)
EXTENDS OutputWrite, SequenceTheorems, TLAPS

(* The tokens a path may hold: those of the output prefix, and the ones   *)
(* the writer adds.                                                       *)
Tok == STRING \cup {"file:", "/", "data", "u.csv", "u.parquet", "tmp-u.csv",
                    "tmp-u.parquet"}

Msg == [kind : {"Progress", "FilesProduced"}, paths : Seq(Seq(Tok))]

(* The URI each branch of `write` reports.                                *)
LocalUri == FilePrefix \o outPath
S3Key == prefix \o <<"/", OutputFileName(format)>>

(* u is a URI the writer has reported: the local one once write returned  *)
(* Ok, the S3 key as soon as the S3 branch was taken.                     *)
Reported(u) ==
  \/ branch = "local" /\ wpc = "ok" /\ u = LocalUri
  \/ branch = "s3" /\ u = S3Key

AllReported(s) == \A i \in 1 .. Len(s) : Reported(s[i])

(* The inductive invariant, in five parts: the control state of the      *)
(* writer; the shapes of the paths; every path in the channel or          *)
(* collected by the consumer is a reported URI; the local output file     *)
(* exists from its creation on; the file opened is the writer's.          *)
IShape ==
  /\ prefix \in OutputPrefixes
  /\ format \in Formats
  /\ wpc \in {"start", "writing", "upload", "report"} \cup Terminated
  /\ branch \in {"none", "local", "s3"}
  /\ (wpc = "start") = (branch = "none")
  /\ wpc = "upload" => branch = "s3"
  /\ wpc = "report" => branch = "local"
  /\ branch = "s3" => IsS3Path(prefix)

ISeqs ==
  /\ outPath \in Seq(Tok)
  /\ chan \in Seq(Msg)
  /\ paths \in Seq(Seq(Tok))

IRep ==
  /\ AllReported(paths)
  /\ \A j \in 1 .. Len(chan) : AllReported(chan[j].paths)

IFiles ==
  branch = "local" /\ wpc \in {"writing", "report", "ok"}
    => Resolve(outPath) \in files

IRead ==
  /\ wpc = "start" => readFile = <<>>
  /\ readFile # <<>> => readFile = Resolve(outPath)

IInv == IShape /\ ISeqs /\ IRep /\ IFiles /\ IRead

-----------------------------------------------------------------------------

(* file:/// is four tokens.                                               *)
LEMMA FilePrefixSeq == FilePrefix \in Seq(Tok) /\ Len(FilePrefix) = 4
BY DEF FilePrefix, Tok

(* strip_prefix("file:///") undoes the insert_str of the local branch.    *)
LEMMA StripLocal ==
  ASSUME NEW p \in Seq(Tok)
  PROVE  StripFilePrefix(FilePrefix \o p) = p
<1>. DEFINE q == SubSeq(FilePrefix \o p, 5, 4 + Len(p))
<1>1. /\ FilePrefix \in Seq(Tok)
      /\ Len(FilePrefix \o p) = 4 + Len(p)
  BY ConcatProperties DEF FilePrefix, Tok
<1>2. q \in Seq(Tok) /\ Len(q) = Len(p)
  BY <1>1, ConcatProperties, SubSeqProperties
<1>3. \A i \in 1 .. Len(p) : q[i] = p[i]
  BY <1>1, ConcatProperties, SubSeqProperties DEF FilePrefix
<1>. QED  BY <1>1, <1>2, <1>3, SeqEqual, FilePrefixSeq DEF StripFilePrefix

(* An S3 key never starts with file:///.                                   *)
LEMMA S3NotLocal ==
  ASSUME NEW p \in Seq(STRING), IsS3Path(p), NEW n
  PROVE  ~IsPrefix(FilePrefix, p \o <<"/", n>>)
<1>. DEFINE u == p \o <<"/", n>>
<1>1. /\ <<"/", n>> \in Seq(STRING \cup {"/", n})
      /\ p \in Seq(STRING \cup {"/", n})
  OBVIOUS
<1>2. /\ u \in Seq(STRING \cup {"/", n})
      /\ Len(u) = Len(p) + 2
      /\ u[1] = "s3:"
  BY <1>1, ConcatProperties DEF IsS3Path
<1>. SUFFICES ASSUME IsPrefix(FilePrefix, u) PROVE FALSE
  OBVIOUS
<1>3. SubSeq(u, 1, 4) = FilePrefix
  BY FilePrefixSeq DEF IsPrefix
<1>4. SubSeq(u, 1, 4)[1] = u[1]
  BY <1>2, FilePrefixSeq, SubSeqProperties DEF IsPrefix
<1>5. FilePrefix[1] = "file:"
  BY DEF FilePrefix
<1>. QED  BY <1>2, <1>3, <1>4, <1>5

(* The output prefix and both reported URIs are sequences of tokens.      *)
LEMMA UriSeqs ==
  ASSUME IInv
  PROVE  /\ prefix \in Seq(STRING)
         /\ prefix \in Seq(Tok)
         /\ LocalUri \in Seq(Tok)
         /\ S3Key \in Seq(Tok)
<1>1. prefix \in Seq(STRING)
  BY OutputAssumption DEF IInv, IShape
<1>2. prefix \in Seq(Tok)
  BY <1>1 DEF Tok
<1>3. <<"/", OutputFileName(format)>> \in Seq(Tok)
  BY DEF OutputFileName, Tok
<1>4. LocalUri \in Seq(Tok)
  BY FilePrefixSeq, ConcatProperties DEF IInv, ISeqs, LocalUri
<1>5. S3Key \in Seq(Tok)
  BY <1>2, <1>3, ConcatProperties DEF S3Key
<1>. QED  BY <1>1, <1>2, <1>4, <1>5

(* A reported URI that starts with file:/// is the local one, reported    *)
(* once write returned Ok, and stripping the prefix gives back the path   *)
(* of the file the writer created.                                        *)
LEMMA ReportedLocal ==
  ASSUME IInv, NEW u, Reported(u), IsPrefix(FilePrefix, u)
  PROVE  /\ branch = "local"
         /\ wpc = "ok"
         /\ StripFilePrefix(u) = outPath
<1>1. CASE branch = "s3" /\ u = S3Key
  <2>1. prefix \in Seq(STRING) /\ IsS3Path(prefix)
    BY <1>1, UriSeqs DEF IInv, IShape
  <2>. QED  BY <1>1, <2>1, S3NotLocal DEF S3Key
<1>2. CASE branch = "local" /\ wpc = "ok" /\ u = LocalUri
  BY <1>2, StripLocal DEF IInv, ISeqs, LocalUri
<1>. QED  BY <1>1, <1>2 DEF Reported

(* A URI once reported stays reported: no step changes the branch, the   *)
(* prefix, the format or the local path after the writer left "start",    *)
(* and only Ok is final.                                                  *)
LEMMA ReportedStable ==
  ASSUME IInv, [Next]_vars
  PROVE  \A u : Reported(u) => Reported(u)'
<1>. SUFFICES ASSUME NEW u, Reported(u) PROVE Reported(u)'
  OBVIOUS
<1>1. wpc # "start"
  BY DEF IInv, IShape, Reported
<1>2. CASE UNCHANGED <<wpc, branch, outPath, prefix, format>>
  BY <1>2 DEF Reported, LocalUri, S3Key
<1>3. CASE wpc # "ok" /\ UNCHANGED <<branch, prefix, format>>
  BY <1>3 DEF Reported, S3Key
<1>. QED
  BY <1>1, <1>2, <1>3
  DEF Next, Writer, Consumer, WriteS3Open, WriteLocalOpen, WriteProgress,
      WriteFail, WriteFinish, Upload, Report, Receive, Finish, vars

LEMMA InitIInv == Init => IInv
BY EmptySeq DEF Init, IInv, IShape, ISeqs, IRep, IFiles, IRead, AllReported,
              Terminated

(* The paths the writer opens are sequences of tokens: the S3 temp file,  *)
(* and the local prefix with the output file name pushed on it.           *)
LEMMA OutPathSeqs ==
  ASSUME IInv
  PROVE  /\ TempPath(format) \in Seq(Tok)
         /\ \A n \in {"u.csv", "u.parquet"} :
               PushName(StripFilePrefix(prefix), n) \in Seq(Tok)
<1>1. TempPath(format) \in Seq(Tok)
  BY DEF TempPath, Tok
<1>2. StripFilePrefix(prefix) \in Seq(Tok)
  <2>1. prefix \in Seq(Tok)
    BY UriSeqs
  <2>2. \A i \in Len(FilePrefix) + 1 .. Len(prefix) : prefix[i] \in Tok
    BY <2>1, FilePrefixSeq, ElementOfSeq
  <2>. QED  BY <2>2, FilePrefixSeq, SubSeqProperties DEF StripFilePrefix
<1>3. ASSUME NEW n \in {"u.csv", "u.parquet"}
      PROVE  PushName(StripFilePrefix(prefix), n) \in Seq(Tok)
  <2>1. n \in Tok /\ <<"/", n>> \in Seq(Tok)
    BY DEF Tok
  <2>. QED  BY <1>2, <2>1, AppendProperties, ConcatProperties DEF PushName
<1>. QED  BY <1>1, <1>3

LEMMA NextIInv == IInv /\ [Next]_vars => IInv'
<1>. SUFFICES ASSUME IInv, [Next]_vars PROVE IInv'
  OBVIOUS
<1>. USE DEF IInv
<1>0. \A u : Reported(u) => Reported(u)'
  BY ReportedStable
<1>u. /\ LocalUri \in Seq(Tok)
      /\ S3Key \in Seq(Tok)
  BY UriSeqs
<1>p. /\ TempPath(format) \in Seq(Tok)
      /\ \A n \in {"u.csv", "u.parquet"} :
            PushName(StripFilePrefix(prefix), n) \in Seq(Tok)
  BY OutPathSeqs
(* The steps that leave the channel and the collected paths alone keep    *)
(* them reported.                                                          *)
<1>c. ASSUME UNCHANGED <<chan, paths>>
      PROVE  IRep'
  BY <1>0, <1>c DEF IRep, AllReported
(* A step that may queue one message whose paths are reported.             *)
<1>s. ASSUME NEW m \in Msg, AllReported(m.paths)',
             chan' \in {chan, Append(chan, m)}, paths' = paths
      PROVE  chan' \in Seq(Msg) /\ IRep'
  <2>1. chan \in Seq(Msg)
    BY DEF ISeqs
  <2>2. AllReported(paths)'
    BY <1>0, <1>s DEF IRep, AllReported
  <2>3. CASE chan' = chan
    BY <1>0, <1>s, <2>1, <2>2, <2>3 DEF IRep, AllReported
  <2>4. CASE chan' = Append(chan, m)
    <3>1. /\ chan' \in Seq(Msg)
          /\ Len(chan') = Len(chan) + 1
          /\ \A j \in 1 .. Len(chan) : chan'[j] = chan[j]
          /\ chan'[Len(chan) + 1] = m
      BY <2>1, <2>4, AppendProperties
    <3>2. ASSUME NEW j \in 1 .. Len(chan') PROVE (AllReported(chan[j].paths))'
      <4>1. CASE j <= Len(chan)
        <5>1. AllReported(chan[j].paths)
          BY <4>1, <2>1, <3>1 DEF IRep
        <5>. QED  BY <5>1, <4>1, <3>1, <1>0 DEF AllReported
      <4>2. CASE j = Len(chan) + 1
        BY <4>2, <3>1, <1>s
      <4>. QED  BY <4>1, <4>2, <3>1, <2>1
    <3>. QED  BY <2>2, <3>1, <3>2 DEF IRep
  <2>. QED  BY <2>3, <2>4, <1>s
<1>1. CASE WriteS3Open
  <2>1. IShape'
    BY <1>1 DEF WriteS3Open, Fail, IShape, Terminated
  <2>2. ISeqs'
    BY <1>1, <1>p DEF WriteS3Open, ISeqs
  <2>3. IRep'
    BY <1>1, <1>c DEF WriteS3Open
  <2>4. IFiles'
    BY <1>1 DEF WriteS3Open, IShape, IFiles
  <2>5. IRead'
    BY <1>1 DEF WriteS3Open, IShape, IRead
  <2>. QED  BY <2>1, <2>2, <2>3, <2>4, <2>5 DEF IInv
<1>2. CASE WriteLocalOpen
  <2>1. IShape'
    BY <1>2 DEF WriteLocalOpen, Fail, OutputFileName, IShape, Terminated
  <2>2. ISeqs'
    BY <1>2, <1>p DEF WriteLocalOpen, Fail, OutputFileName, ISeqs
  <2>3. IRep'
    BY <1>2, <1>c DEF WriteLocalOpen, Fail, OutputFileName
  <2>4. IFiles'
    BY <1>2 DEF WriteLocalOpen, Fail, OutputFileName, IShape, IFiles
  <2>5. IRead'
    BY <1>2 DEF WriteLocalOpen, Fail, OutputFileName, IShape, IRead
  <2>. QED  BY <2>1, <2>2, <2>3, <2>4, <2>5 DEF IInv
<1>3. CASE WriteProgress
  <2>0. /\ Progress \in Msg
        /\ AllReported(Progress.paths)'
        /\ chan' \in {chan, Append(chan, Progress)}
    BY <1>3, EmptySeq DEF Progress, Msg, AllReported, WriteProgress
  <2>1. IShape'
    BY <1>3 DEF WriteProgress, IShape, Terminated
  <2>6. paths' = paths /\ outPath' = outPath
    BY <1>3 DEF WriteProgress
  <2>8. PICK m \in Msg : m = Progress
    BY <2>0
  <2>9. /\ AllReported(m.paths)'
        /\ chan' \in {chan, Append(chan, m)}
    BY <2>0, <2>8 DEF AllReported, FilesProduced, Progress
  <2>7. chan' \in Seq(Msg) /\ IRep'
    BY <1>s, <2>6, <2>9
  <2>2. ISeqs'
    BY <2>6, <2>7 DEF ISeqs
  <2>3. IRep'
    BY <2>7
  <2>4. IFiles'
    BY <1>3 DEF WriteProgress, IShape, IFiles
  <2>5. IRead'
    BY <1>3 DEF WriteProgress, IShape, IRead
  <2>. QED  BY <2>1, <2>2, <2>3, <2>4, <2>5 DEF IInv
<1>4. CASE WriteFail
  <2>1. IShape'
    BY <1>4 DEF WriteFail, Fail, IShape, Terminated
  <2>2. ISeqs'
    BY <1>4, <1>p DEF WriteFail, Fail, ISeqs
  <2>3. IRep'
    BY <1>4, <1>c DEF WriteFail, Fail
  <2>4. IFiles'
    BY <1>4 DEF WriteFail, Fail, IShape, IFiles
  <2>5. IRead'
    BY <1>4 DEF WriteFail, Fail, IShape, IRead
  <2>. QED  BY <2>1, <2>2, <2>3, <2>4, <2>5 DEF IInv
<1>5. CASE WriteFinish
  <2>1. IShape'
    BY <1>5 DEF WriteFinish, IShape, Terminated
  <2>2. ISeqs'
    BY <1>5, <1>p DEF WriteFinish, ISeqs
  <2>3. IRep'
    BY <1>5, <1>c DEF WriteFinish
  <2>4. IFiles'
    BY <1>5 DEF WriteFinish, IShape, IFiles
  <2>5. IRead'
    BY <1>5 DEF WriteFinish, IShape, IRead
  <2>. QED  BY <2>1, <2>2, <2>3, <2>4, <2>5 DEF IInv
<1>6. CASE Upload
  <2>0. /\ FilesProduced(S3Key) \in Msg
        /\ AllReported(FilesProduced(S3Key).paths)'
        /\ chan' \in {chan, Append(chan, FilesProduced(S3Key))}
        /\ Reported(S3Key)' /\ S3Key' = S3Key
    <3>1. <<S3Key>> \in Seq(Seq(Tok))
      BY <1>u
    <3>2. FilesProduced(S3Key) \in Msg
      BY <3>1 DEF FilesProduced, Msg
    <3>3. Reported(S3Key)' /\ S3Key' = S3Key
      BY <1>6 DEF Upload, Fail, IShape, Reported, S3Key
    <3>4. AllReported(FilesProduced(S3Key).paths)'
      BY <3>3 DEF AllReported, FilesProduced
    <3>5. chan' \in {chan, Append(chan, FilesProduced(S3Key))}
      BY <1>6 DEF Upload, Fail, TrySend, S3Key
    <3>. QED  BY <3>2, <3>3, <3>4, <3>5
  <2>1. IShape'
    BY <1>6 DEF Upload, Fail, IShape, Terminated
  <2>6. paths' = paths /\ outPath' = outPath
    BY <1>6 DEF Upload
  <2>8. PICK m \in Msg : m = FilesProduced(S3Key)
    BY <2>0
  <2>9. /\ AllReported(m.paths)'
        /\ chan' \in {chan, Append(chan, m)}
    BY <2>0, <2>8 DEF AllReported, FilesProduced, Progress
  <2>7. chan' \in Seq(Msg) /\ IRep'
    BY <1>s, <2>6, <2>9
  <2>2. ISeqs'
    BY <2>6, <2>7 DEF ISeqs
  <2>3. IRep'
    BY <2>7
  <2>4. IFiles'
    BY <1>6 DEF Upload, Fail, IShape, IFiles
  <2>5. IRead'
    BY <1>6 DEF Upload, Fail, IShape, IRead
  <2>. QED  BY <2>1, <2>2, <2>3, <2>4, <2>5 DEF IInv
<1>7. CASE Report
  <2>0. /\ FilesProduced(LocalUri) \in Msg
        /\ AllReported(FilesProduced(LocalUri).paths)'
        /\ chan' \in {chan, Append(chan, FilesProduced(LocalUri))}
        /\ Reported(LocalUri)' /\ LocalUri' = LocalUri
    <3>1. <<LocalUri>> \in Seq(Seq(Tok))
      BY <1>u
    <3>2. FilesProduced(LocalUri) \in Msg
      BY <3>1 DEF FilesProduced, Msg
    <3>3. Reported(LocalUri)' /\ LocalUri' = LocalUri
      BY <1>7 DEF Report, IShape, Reported, LocalUri
    <3>4. AllReported(FilesProduced(LocalUri).paths)'
      BY <3>3 DEF AllReported, FilesProduced
    <3>5. chan' \in {chan, Append(chan, FilesProduced(LocalUri))}
      BY <1>7 DEF Report, TrySend, LocalUri
    <3>. QED  BY <3>2, <3>3, <3>4, <3>5
  <2>1. IShape'
    BY <1>7 DEF Report, IShape, Terminated
  <2>6. paths' = paths /\ outPath' = outPath
    BY <1>7 DEF Report
  <2>8. PICK m \in Msg : m = FilesProduced(LocalUri)
    BY <2>0
  <2>9. /\ AllReported(m.paths)'
        /\ chan' \in {chan, Append(chan, m)}
    BY <2>0, <2>8 DEF AllReported, FilesProduced, Progress
  <2>7. chan' \in Seq(Msg) /\ IRep'
    BY <1>s, <2>6, <2>9
  <2>2. ISeqs'
    BY <2>6, <2>7 DEF ISeqs
  <2>3. IRep'
    BY <2>7
  <2>4. IFiles'
    BY <1>7 DEF Report, IShape, IFiles
  <2>5. IRead'
    BY <1>7 DEF Report, IShape, IRead
  <2>. QED  BY <2>1, <2>2, <2>3, <2>4, <2>5 DEF IInv
<1>8. CASE Receive
  <2>. DEFINE h == Head(chan)
  <2>0. /\ chan # << >>
        /\ paths' = paths \o h.paths
        /\ chan' = Tail(chan)
        /\ UNCHANGED <<prefix, format, wpc, branch, outPath, files, readFile>>
    BY <1>8 DEF Receive
  <2>a. chan \in Seq(Msg) /\ paths \in Seq(Seq(Tok))
    BY DEF ISeqs
  <2>b. /\ h \in Msg
        /\ h = chan[1]
        /\ Len(chan) >= 1
        /\ chan' \in Seq(Msg)
        /\ Len(chan') = Len(chan) - 1
        /\ \A j \in 1 .. Len(chan') : chan'[j] = chan[j + 1]
    BY <2>0, <2>a, HeadTailProperties, EmptySeq
  <2>c. h.paths \in Seq(Seq(Tok))
    BY <2>b DEF Msg
  <2>d. /\ paths' \in Seq(Seq(Tok))
        /\ Len(paths') = Len(paths) + Len(h.paths)
        /\ \A i \in 1 .. Len(paths') :
              paths'[i] = IF i <= Len(paths) THEN paths[i]
                          ELSE h.paths[i - Len(paths)]
    BY <2>0, <2>a, <2>c, ConcatProperties
  <2>1. IShape'
    BY <2>0 DEF IShape
  <2>2. ISeqs'
    BY <2>0, <2>b, <2>d DEF ISeqs
  <2>3. IRep'
    <3>1. ASSUME NEW i \in 1 .. Len(paths') PROVE (Reported(paths[i]))'
      <4>1. CASE i <= Len(paths)
        <5>1. Reported(paths[i])
          BY <4>1 DEF IRep, AllReported
        <5>. QED  BY <5>1, <4>1, <2>d, <1>0
      <4>2. CASE i > Len(paths)
        <5>1. AllReported(chan[1].paths)
          BY <2>b DEF IRep
        <5>2. i - Len(paths) \in 1 .. Len(h.paths)
          BY <4>2, <2>a, <2>c, <2>d
        <5>3. Reported(h.paths[i - Len(paths)])
          BY <5>1, <5>2, <2>b DEF AllReported
        <5>. QED  BY <5>3, <4>2, <2>d, <1>0
      <4>. QED  BY <4>1, <4>2, <2>a, <2>d
    <3>2. ASSUME NEW j \in 1 .. Len(chan') PROVE (AllReported(chan[j].paths))'
      <4>1. AllReported(chan[j + 1].paths)
        BY <2>b DEF IRep
      <4>. QED  BY <4>1, <2>b, <1>0 DEF AllReported
    <3>. QED  BY <3>1, <3>2 DEF IRep, AllReported
  <2>4. IFiles'
    BY <2>0 DEF IFiles
  <2>5. IRead'
    BY <2>0 DEF IRead
  <2>. QED  BY <2>1, <2>2, <2>3, <2>4, <2>5 DEF IInv
<1>9. CASE Finish
  <2>1. IShape'
    BY <1>9 DEF Finish, IShape, Terminated
  <2>2. ISeqs'
    BY <1>9, <1>p DEF Finish, ISeqs
  <2>3. IRep'
    BY <1>9, <1>c DEF Finish
  <2>4. IFiles'
    BY <1>9 DEF Finish, IShape, IFiles
  <2>5. IRead'
    <3>1. CASE readFile' = readFile
      BY <1>9, <3>1 DEF Finish, IShape, IRead, Terminated
    <3>2. CASE ExampleReads(paths) /\ readFile' = Resolve(StripFilePrefix(paths[1]))
      <4>1. Reported(paths[1]) /\ IsPrefix(FilePrefix, paths[1])
        BY <3>2 DEF ExampleReads, IRep, AllReported
      <4>2. StripFilePrefix(paths[1]) = outPath /\ wpc = "ok"
        BY <4>1, ReportedLocal
      <4>. QED  BY <1>9, <3>2, <4>2 DEF Finish, IRead
    <3>. QED  BY <1>9, <3>1, <3>2 DEF Finish
  <2>. QED  BY <2>1, <2>2, <2>3, <2>4, <2>5 DEF IInv
<1>10. CASE UNCHANGED vars
  BY <1>10, <1>c DEF vars, IShape, ISeqs, IFiles, IRead
<1>. QED
  BY <1>1, <1>2, <1>3, <1>4, <1>5, <1>6, <1>7, <1>8, <1>9, <1>10
  DEF Next, Writer, Consumer

(* The invariant gives the property: a collected file:/// path is the     *)
(* local URI, reported after the file was created and kept.               *)
LEMMA IInvPath == IInv => ReportedPathIsWrittenFile
<1>. SUFFICES ASSUME IInv PROVE ReportedPathIsWrittenFile
  OBVIOUS
<1>1. ASSUME NEW i \in 1 .. Len(paths), IsPrefix(FilePrefix, paths[i])
      PROVE  /\ Resolve(StripFilePrefix(paths[i])) = Resolve(outPath)
             /\ readFile = <<>> => Resolve(outPath) \in files
  <2>1. Reported(paths[i])
    BY DEF IInv, IRep, AllReported
  <2>2. branch = "local" /\ wpc = "ok" /\ StripFilePrefix(paths[i]) = outPath
    BY <1>1, <2>1, ReportedLocal
  <2>. QED  BY <2>2 DEF IInv, IFiles
<1>2. readFile # <<>> => readFile = Resolve(outPath)
  BY DEF IInv, IRead
<1>. QED  BY <1>1, <1>2 DEF ReportedPathIsWrittenFile

(* For every output prefix, format, channel capacity and number of        *)
(* batches, the URI execute_example strips file:/// from names the file   *)
(* `write` created, which still exists until it is opened, and the file   *)
(* opened is that one: insert_str in the writer and strip_prefix in the   *)
(* consumer agree.                                                        *)
THEOREM PathCorrect == Spec => []ReportedPathIsWrittenFile
<1>1. IInv => ReportedPathIsWrittenFile
  BY IInvPath
<1>. QED  BY InitIInv, NextIInv, <1>1, PTL DEF Spec

=============================================================================
