-------------------------- MODULE LocalTableProofs --------------------------
(***************************************************************************)
(* Proofs about LocalTable, for every set of sources and every bound.      *)
(***************************************************************************)
EXTENDS LocalTable, TLAPS

(* The invariant behind PreparedFilesLive and FileCountCountsAddedFiles:  *)
(* until a panic, the files on disk are the retained ones, the prepared    *)
(* files are among them, and the metadata accounts for every prepared or   *)
(* cleared file.  The clause for a missing metadata is what makes it       *)
(* inductive: the first update_table_metadata sets file_count to 1, which  *)
(* is right only because nothing was prepared or cleared before.           *)
Accounted ==
  pc # "panicked" =>
    /\ disk = Kept(retained)
    /\ \A i \in DOMAIN prepared : {prepared[i].data, prepared[i].meta} \subseteq disk
    /\ metadata = Null => prepared = <<>> /\ cleared = 0
    /\ metadata # Null =>
         /\ metadata.file_count = Len(prepared) + cleared
         /\ \A i \in DOMAIN prepared : prepared[i].schema = metadata.schema

IInv == TypeOK /\ Accounted

(* The metadata is a TableMetadata record, never the null of no metadata. *)
LEMMA MetadataNotNull ==
  ASSUME NEW md \in [schema : Schemas, file_count : Nat \ {0}]
  PROVE  md # Null
BY LocalTableAssumption

(* The temp files of a vector with one more pushed.                      *)
LEMMA KeptAppend ==
  ASSUME NEW s \in Seq(Nat), NEW d \in Nat
  PROVE  /\ Append(s, d) \in Seq(Nat)
         /\ Kept(Append(s, d)) = Kept(s) \cup {d}
<1>1. /\ Append(s, d) \in Seq(Nat)
      /\ Len(Append(s, d)) = Len(s) + 1
      /\ \A i \in 1 .. Len(s) : Append(s, d)[i] = s[i]
      /\ Append(s, d)[Len(s) + 1] = d
  OBVIOUS
<1>2. Kept(Append(s, d)) \subseteq Kept(s) \cup {d}
  BY <1>1 DEF Kept
<1>3. Kept(s) \cup {d} \subseteq Kept(Append(s, d))
  BY <1>1 DEF Kept
<1>4. QED
  BY <1>1, <1>2, <1>3

LEMMA InitIInv == Init => IInv
BY LocalTableAssumption DEF Init, IInv, TypeOK, Accounted, Kept

LEMMA NextIInv == IInv /\ [Next]_vars => IInv'
<1> SUFFICES ASSUME IInv, [Next]_vars PROVE IInv'
  OBVIOUS
<1> USE DEF IInv
<1>1. CASE AddSource
  <2>1. PICK src \in Sources :
          \/ pending' = <<>> /\ UNCHANGED pc
          \/ pending' = src /\ pc' = "adding"
    BY <1>1 DEF AddSource
  <2>2. src \in Seq(Schemas)
    BY LocalTableAssumption
  <2>3. calls' \in 0 .. MaxCalls
    BY <1>1, LocalTableAssumption DEF AddSource, Call, TypeOK
  <2>4. pending' \in Seq(Schemas) /\ pc' \in {"idle", "adding"}
    <3>1. pc = "idle"
      BY <1>1 DEF AddSource, Call
    <3>2. CASE pending' = <<>> /\ UNCHANGED pc
      BY <3>1, <3>2
    <3>3. CASE pending' = src /\ pc' = "adding"
      BY <2>2, <3>3
    <3>4. QED
      BY <2>1, <3>2, <3>3
  <2>5. TypeOK'
    BY <1>1, <2>3, <2>4 DEF AddSource, TypeOK
  <2>6. Accounted'
    BY <1>1, <2>4 DEF AddSource, Call, Accounted
  <2>7. QED
    BY <2>5, <2>6
<1>2. CASE BatchFails
  <2>1. TypeOK'
    BY <1>2 DEF BatchFails, TypeOK
  <2>2. Accounted'
    BY <1>2 DEF BatchFails, Accounted
  <2>3. QED
    BY <2>1, <2>2
<1>3. CASE PrepareBatch
  <2> DEFINE schema == Head(pending)
             d == nextTmp
             m == nextTmp + 1
             new == [data |-> d, meta |-> m, schema |-> schema]
  <2>1. pending # <<>> /\ pending \in Seq(Schemas) /\ nextTmp \in Nat
    BY <1>3 DEF PrepareBatch, TypeOK
  <2>2. schema \in Schemas /\ Tail(pending) \in Seq(Schemas)
    BY <2>1
  <2>3. CASE pc' = "panicked"
    <3>1. TypeOK'
      BY <1>3, <2>3 DEF PrepareBatch, TypeOK
    <3>2. QED
      BY <2>3, <3>1 DEF Accounted
  <2>4. CASE pc' # "panicked"
    <3>1. /\ ~SchemaMismatch(schema)
          /\ UpdateTableMetadata(schema)
          /\ prepared' = Append(prepared, new)
          /\ retained' = Append(Append(retained, d), m)
          /\ disk' = disk \cup {d, m}
          /\ nextTmp' = nextTmp + 2
          /\ pending' = Tail(pending)
          /\ pc' = pc
          /\ UNCHANGED <<calls, cleared>>
      BY <1>3, <2>4 DEF PrepareBatch
    <3>2. pc # "panicked"
      BY <1>3 DEF PrepareBatch
    <3>3. metadata' \in [schema : Schemas, file_count : Nat \ {0}]
      <4>1. CASE metadata = Null
        BY <2>2, <3>1, <4>1 DEF UpdateTableMetadata
      <4>2. CASE metadata # Null
        BY <2>2, <3>1, <4>2 DEF UpdateTableMetadata, TypeOK
      <4>3. QED
        BY <4>1, <4>2
    <3>4. /\ retained' \in Seq(Nat)
          /\ Kept(retained') = Kept(retained) \cup {d, m}
      <4>1. /\ Append(retained, d) \in Seq(Nat)
            /\ Kept(Append(retained, d)) = Kept(retained) \cup {d}
        BY <2>1, KeptAppend DEF TypeOK
      <4>2. /\ Append(Append(retained, d), m) \in Seq(Nat)
            /\ Kept(Append(Append(retained, d), m)) = Kept(Append(retained, d)) \cup {m}
        <5>1. m \in Nat
          BY <2>1
        <5>2. QED
          BY <4>1, <5>1, KeptAppend
      <4>3. QED
        BY <3>1, <4>1, <4>2
    <3>5. TypeOK'
      <4>1. new \in Prepared
        BY <2>1, <2>2 DEF Prepared
      <4>2. prepared' \in Seq(Prepared)
        BY <3>1, <4>1 DEF TypeOK
      <4>3. disk' \subseteq 0 .. nextTmp' - 1
        BY <2>1, <3>1 DEF TypeOK
      <4>4. QED
        BY <2>1, <2>2, <3>1, <3>3, <3>4, <4>2, <4>3 DEF TypeOK
    <3>6. Accounted'
      <4>1. disk' = Kept(retained')
        BY <3>1, <3>2, <3>4 DEF Accounted
      <4>2. \A i \in DOMAIN prepared' :
               {prepared'[i].data, prepared'[i].meta} \subseteq disk'
        <5>1. prepared \in Seq(Prepared)
          BY DEF TypeOK
        <5>2. DOMAIN prepared' = 1 .. Len(prepared) + 1
          BY <3>1, <5>1
        <5>3. \A i \in 1 .. Len(prepared) : prepared'[i] = prepared[i]
          BY <3>1, <5>1
        <5>4. prepared'[Len(prepared) + 1] = new
          BY <3>1, <5>1
        <5>5. \A i \in 1 .. Len(prepared) :
                 {prepared[i].data, prepared[i].meta} \subseteq disk
          BY <3>2, <5>1 DEF Accounted
        <5>6. QED
          BY <3>1, <5>2, <5>3, <5>4, <5>5
      <4>3. metadata' # Null
        BY <3>3, MetadataNotNull
      <4>4. metadata'.file_count = Len(prepared') + cleared'
        <5>1. CASE metadata = Null
          BY <3>1, <3>2, <5>1 DEF UpdateTableMetadata, Accounted
        <5>2. CASE metadata # Null
          <6>1. metadata \in [schema : Schemas, file_count : Nat \ {0}]
            BY <5>2 DEF TypeOK
          <6>2. metadata'.file_count = metadata.file_count + 1
            BY <3>1, <5>2, <6>1 DEF UpdateTableMetadata
          <6>3. metadata.file_count = Len(prepared) + cleared
            BY <3>2, <5>2 DEF Accounted
          <6>4. Len(prepared') = Len(prepared) + 1
            BY <3>1 DEF TypeOK
          <6>5. QED
            BY <3>1, <6>1, <6>2, <6>3, <6>4 DEF TypeOK
        <5>3. QED
          BY <5>1, <5>2
      <4>5. \A i \in DOMAIN prepared' : prepared'[i].schema = metadata'.schema
        <5>1. CASE metadata = Null
          BY <3>1, <3>2, <5>1 DEF UpdateTableMetadata, Accounted
        <5>2. CASE metadata # Null
          <6>1. metadata'.schema = metadata.schema
            BY <3>1, <5>2 DEF UpdateTableMetadata
          <6>2. schema = metadata.schema
            BY <3>1, <5>2 DEF SchemaMismatch
          <6>3. \A i \in 1 .. Len(prepared) : prepared[i].schema = metadata.schema
            BY <3>2, <5>2 DEF Accounted, TypeOK
          <6>4. /\ DOMAIN prepared' = 1 .. Len(prepared) + 1
                /\ \A i \in 1 .. Len(prepared) : prepared'[i] = prepared[i]
                /\ prepared'[Len(prepared) + 1] = new
            BY <3>1 DEF TypeOK
          <6>5. QED
            BY <6>1, <6>2, <6>3, <6>4
        <5>3. QED
          BY <5>1, <5>2
      <4>6. QED
        BY <4>1, <4>2, <4>3, <4>4, <4>5 DEF Accounted
    <3>7. QED
      BY <3>5, <3>6
  <2>5. QED
    BY <2>3, <2>4
<1>4. CASE AddSourceDone
  BY <1>4 DEF AddSourceDone, TypeOK, Accounted
<1>5. CASE Clear
  <2>1. TypeOK'
    <3>1. calls' \in 0 .. MaxCalls
      BY <1>5, LocalTableAssumption DEF Clear, Call, TypeOK
    <3>2. disk' \subseteq disk /\ cleared' \in Nat
      BY <1>5 DEF Clear, TypeOK
    <3>3. <<>> \in Seq(Prepared) /\ <<>> \in Seq(Nat)
      OBVIOUS
    <3>4. disk' \subseteq 0 .. nextTmp' - 1
      BY <1>5, <3>2 DEF Clear, TypeOK
    <3>5. UNCHANGED <<metadata, nextTmp, pc, pending>>
      BY <1>5 DEF Clear
    <3>6. QED
      BY <1>5, <3>1, <3>2, <3>3, <3>4, <3>5 DEF Clear, TypeOK
  <2>2. Accounted'
    <3>1. Kept(<<>>) = {}
      BY DEF Kept
    <3>2. metadata # Null => metadata.file_count = Len(prepared') + cleared'
      BY <1>5 DEF Clear, Call, Accounted, TypeOK
    <3>3. QED
      BY <1>5, <3>1, <3>2 DEF Clear, Call, Accounted, TypeOK
  <2>3. QED
    BY <2>1, <2>2
<1>6. CASE Table
  BY <1>6, LocalTableAssumption DEF Table, Call, TypeOK, Accounted
<1>7. CASE UNCHANGED vars
  BY <1>7 DEF vars, TypeOK, Accounted
<1>8. QED
  BY <1>1, <1>2, <1>3, <1>4, <1>5, <1>6, <1>7 DEF Next

(* The table's variables keep their types (TypeOK of the run).            *)
THEOREM TypeCorrect == Spec => []TypeOK
BY InitIInv, NextIInv, PTL DEF Spec, IInv

(* Until a panic, no temp file of the table is leaked or deleted while     *)
(* listed, whatever add_source, clear and table calls a test makes and     *)
(* wherever add_source fails (PreparedFilesLive of the run).               *)
THEOREM FilesLive == Spec => []PreparedFilesLive
<1>1. IInv => PreparedFilesLive
  BY DEF IInv, Accounted, PreparedFilesLive
<1>2. QED
  BY InitIInv, NextIInv, <1>1, PTL DEF Spec

(* file_count is the number of files ever added, cleared ones included,   *)
(* and every prepared file has the table's schema                         *)
(* (FileCountCountsAddedFiles of the run).                                *)
THEOREM FileCount == Spec => []FileCountCountsAddedFiles
<1>1. IInv => FileCountCountsAddedFiles
  BY DEF IInv, Accounted, FileCountCountsAddedFiles
<1>2. QED
  BY InitIInv, NextIInv, <1>1, PTL DEF Spec

=============================================================================
