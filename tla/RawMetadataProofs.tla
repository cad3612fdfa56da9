-------------------------- MODULE RawMetadataProofs --------------------------
(***************************************************************************)
(* Proofs about RawMetadata, for every set of sources whose schemas are    *)
(* arrow schemas (RawMetadataAssumption).                                  *)
(***************************************************************************)
EXTENDS RawMetadata, WellFoundedInduction, TLAPS

(* A schema as arrow builds it, from the sources' fields and Pulsar's       *)
(* _publish_time: only a timestamp carries a time zone.                    *)
ArrowSchema(s) ==
  /\ s \in Seq(Field \cup {PublishTime})
  /\ \A i \in DOMAIN s : s[i].type.kind # "Timestamp" => s[i].type.tz = NoTz

(* The decimal columns of a schema.                                        *)
Decimals(s) == { i \in DOMAIN s : IsDecimal(s[i]) }

(* Once try_from has run, its result is an I/O error of the source's       *)
(* branch or what from_raw_schema makes of the schema the branch read.     *)
IInv ==
  /\ source \in Sources
  /\ \/ result = Pending
     \/ \E e \in IoErrors(source) : result = Err(e, "none")
     \/ Reads(source) /\ result = FromRawSchema(RawSchemaOf(source))

(* A non-empty set of indices has a first one.                             *)
LEMMA FirstIndexIn ==
  ASSUME NEW S \in SUBSET Nat, S # {}
  PROVE  /\ FirstIndex(S) \in S
         /\ \A j \in S : FirstIndex(S) <= j
<1>1. \E x \in S : \A y \in S : ~ (<<y, x>> \in OpToRel(<, Nat))
  BY NatLessThanWellFounded, WFMin
<1>2. \E x \in S : \A y \in S : x <= y
  <2>1. PICK x \in S : \A y \in S : ~ (<<y, x>> \in OpToRel(<, Nat))
    BY <1>1
  <2>2. \A y \in S : <<y, x>> \in Nat \X Nat
    OBVIOUS
  <2>3. \A y \in S : ~(y < x)
    BY <2>1, <2>2 DEF OpToRel
  <2>4. QED
    BY <2>3
<1>3. QED
  BY <1>2 DEF FirstIndex

(* convert_field on one arrow field: an UnsupportedColumn error naming it  *)
(* exactly when it is a decimal, and otherwise the field with its name,   *)
(* nullability, kind and unit kept and no time zone.                       *)
LEMMA ConvertFieldSpec ==
  ASSUME NEW f, f.type.kind # "Timestamp" => f.type.tz = NoTz
  PROVE  /\ ConvertField(f).ok <=> ~IsDecimal(f)
         /\ IsDecimal(f) => ConvertField(f) = Err("UnsupportedColumn", f.name)
         /\ ~IsDecimal(f) =>
              LET t == ConvertField(f).val
              IN  /\ t.name = f.name
                  /\ t.nullable = f.nullable
                  /\ t.type.kind = f.type.kind
                  /\ t.type.unit = f.type.unit
                  /\ t.type.tz = NoTz
<1>1. CASE f.type.kind = "Timestamp" /\ f.type.tz # NoTz
  <2>1. ConvertField(f) = Ok(Fld(f.name, Ts(f.type.unit, NoTz), f.nullable))
    BY <1>1 DEF ConvertField, DecimalKinds
  <2>2. ~IsDecimal(f)
    BY <1>1 DEF IsDecimal, DecimalKinds
  <2>3. QED
    BY <1>1, <2>1, <2>2 DEF Ok, Fld, Ts
<1>2. CASE f.type.kind \in DecimalKinds
  <2>1. ConvertField(f) = Err("UnsupportedColumn", f.name)
    BY <1>2 DEF ConvertField, DecimalKinds
  <2>2. QED
    BY <1>2, <2>1 DEF IsDecimal, Err
<1>3. CASE ~(f.type.kind = "Timestamp" /\ f.type.tz # NoTz)
           /\ f.type.kind \notin DecimalKinds
  <2>1. ConvertField(f) = Ok(f)
    BY <1>3 DEF ConvertField
  <2>2. f.type.tz = NoTz
    BY <1>3
  <2>3. QED
    BY <1>3, <2>1, <2>2 DEF IsDecimal, Ok
<1>4. QED
  BY <1>1, <1>2, <1>3

(* from_raw_schema on an arrow schema: an UnsupportedColumn error naming   *)
(* the first decimal column when there is one; otherwise the raw schema   *)
(* kept beside its field-by-field conversion.                              *)
LEMMA FromRawSchemaSpec ==
  ASSUME NEW s, ArrowSchema(s)
  PROVE  LET res == FromRawSchema(s)
         IN  /\ Decimals(s) # {} =>
                   res = Err("UnsupportedColumn", s[FirstIndex(Decimals(s))].name)
             /\ Decimals(s) = {} =>
                   /\ res = Ok([raw |-> s, table |-> res.val.table])
                   /\ Len(res.val.table) = Len(s)
                   /\ \A i \in DOMAIN s :
                        LET t == res.val.table[i]
                        IN  /\ t.name = s[i].name
                            /\ t.nullable = s[i].nullable
                            /\ t.type.kind = s[i].type.kind
                            /\ t.type.unit = s[i].type.unit
                            /\ t.type.tz = NoTz
<1> DEFINE bad == { i \in DOMAIN s : ~ConvertField(s[i]).ok }
<1>1. \A i \in DOMAIN s : s[i].type.kind # "Timestamp" => s[i].type.tz = NoTz
  BY DEF ArrowSchema
<1>2. bad = Decimals(s)
  <2>1. \A i \in DOMAIN s : ConvertField(s[i]).ok <=> IsDecimal(s[i]) = FALSE
    <3> SUFFICES ASSUME NEW i \in DOMAIN s
                 PROVE  ConvertField(s[i]).ok <=> IsDecimal(s[i]) = FALSE
      OBVIOUS
    <3>1. s[i].type.kind # "Timestamp" => s[i].type.tz = NoTz
      BY <1>1
    <3>2. QED
      BY <3>1, ConvertFieldSpec
  <2>2. QED
    BY <2>1 DEF Decimals
<1>3. CASE Decimals(s) = {}
  <2> DEFINE tbl == [i \in DOMAIN s |-> ConvertField(s[i]).val]
  <2>1. ConvertSchema(s) = Ok(tbl)
    BY <1>2, <1>3 DEF ConvertSchema
  <2>2. FromRawSchema(s) = Ok([raw |-> s, table |-> tbl])
    BY <2>1 DEF FromRawSchema, Ok
  <2>3. \A i \in DOMAIN s : ~IsDecimal(s[i])
    BY <1>3 DEF Decimals
  <2>4. Len(tbl) = Len(s)
    BY DEF ArrowSchema
  <2>5. FromRawSchema(s).val.table = tbl
    BY <2>2 DEF Ok
  <2>6. ASSUME NEW i \in DOMAIN s
        PROVE  LET t == tbl[i]
               IN  /\ t.name = s[i].name
                   /\ t.nullable = s[i].nullable
                   /\ t.type.kind = s[i].type.kind
                   /\ t.type.unit = s[i].type.unit
                   /\ t.type.tz = NoTz
    <3>1. s[i].type.kind # "Timestamp" => s[i].type.tz = NoTz
      BY <1>1
    <3>2. ~IsDecimal(s[i])
      BY <2>3
    <3>3. tbl[i] = ConvertField(s[i]).val
      OBVIOUS
    <3>4. QED
      BY <3>1, <3>2, <3>3, ConvertFieldSpec
  <2>7. QED
    BY <1>3, <2>2, <2>4, <2>5, <2>6
<1>4. CASE Decimals(s) # {}
  <2> DEFINE k == FirstIndex(Decimals(s))
  <2>1. Decimals(s) \subseteq Nat
    BY DEF ArrowSchema, Decimals
  <2>2. k \in Decimals(s)
    BY <1>4, <2>1, FirstIndexIn
  <2>3. ConvertSchema(s) = ConvertField(s[k])
    BY <1>2, <1>4 DEF ConvertSchema
  <2>4. ConvertField(s[k]) = Err("UnsupportedColumn", s[k].name)
    BY <1>1, <2>2, ConvertFieldSpec DEF Decimals
  <2>5. ~ConvertSchema(s).ok
    BY <2>3, <2>4 DEF Err
  <2>6. FromRawSchema(s) = ConvertSchema(s)
    BY <2>5 DEF FromRawSchema
  <2>7. QED
    BY <1>4, <2>3, <2>4, <2>6
<1>5. QED
  BY <1>3, <1>4

(* The schema each branch of try_from reads is an arrow schema; Pulsar's  *)
(* _publish_time column, appended last, is one more timestamp.             *)
LEMMA RawSchemaIsArrow ==
  ASSUME NEW src \in Sources
  PROVE  ArrowSchema(RawSchemaOf(src))
<1>1. ArrowSchema(src.schema)
  BY RawMetadataAssumption DEF ArrowSchema
<1>2. CASE src.kind = "PulsarSubscription"
  <2>1. PublishTime.type.kind = "Timestamp"
    BY DEF PublishTime, Fld, Ts
  <2>2. Append(src.schema, PublishTime) \in Seq(Field \cup {PublishTime})
    BY <1>1 DEF ArrowSchema
  <2>3. \A i \in DOMAIN Append(src.schema, PublishTime) :
           Append(src.schema, PublishTime)[i] =
             IF i = Len(src.schema) + 1 THEN PublishTime ELSE src.schema[i]
    BY <1>1 DEF ArrowSchema
  <2>4. QED
    BY <1>1, <1>2, <2>1, <2>2, <2>3 DEF ArrowSchema, RawSchemaOf
<1>3. CASE src.kind # "PulsarSubscription"
  BY <1>1, <1>3 DEF RawSchemaOf
<1>4. QED
  BY <1>2, <1>3

(* The errors a branch returns before the conversion are I/O errors:     *)
(* none of them is UnsupportedColumn, and none is "none" or pending.      *)
LEMMA IoErrorKinds ==
  ASSUME NEW src \in Sources
  PROVE  IoErrors(src) \subseteq {"ObjectStore", "Download", "LocalFile", "ReadSchema",
                                  "PulsarSubscription", "PulsarSchema"}
<1>1. src.kind \in SourceKinds
  BY RawMetadataAssumption
<1>2. QED
  BY <1>1 DEF IoErrors, SourceKinds

LEMMA InitIInv == Init => IInv
BY DEF Init, IInv

LEMMA NextIInv == IInv /\ [Next]_vars => IInv'
BY DEF IInv, Next, TryFrom, vars

(* For every set of arrow sources, each result of try_from has the shape  *)
(* raw_metadata::Error and RawMetadata give it (TypeOK of the run).        *)
THEOREM TypeCorrect == Spec => []TypeOK
<1>1. IInv => TypeOK
  <2> SUFFICES ASSUME IInv PROVE TypeOK
    OBVIOUS
  <2>1. source.kind \in SourceKinds
    BY RawMetadataAssumption DEF IInv
  <2>2. CASE result = Pending
    BY <2>1, <2>2 DEF TypeOK, Pending, Err
  <2>3. CASE \E e \in IoErrors(source) : result = Err(e, "none")
    BY <2>1, <2>3, IoErrorKinds DEF IInv, TypeOK, Err
  <2>4. CASE Reads(source) /\ result = FromRawSchema(RawSchemaOf(source))
    <3> DEFINE raw == RawSchemaOf(source)
    <3>1. ArrowSchema(raw)
      BY RawSchemaIsArrow DEF IInv
    <3>2. CASE Decimals(raw) # {}
      <4>1. raw[FirstIndex(Decimals(raw))].name \in STRING
        <5>1. FirstIndex(Decimals(raw)) \in DOMAIN raw
          <6>1. Decimals(raw) \subseteq Nat
            BY <3>1 DEF ArrowSchema, Decimals
          <6>2. QED
            BY <3>2, <6>1, FirstIndexIn DEF Decimals
        <5>2. raw[FirstIndex(Decimals(raw))] \in Field \cup {PublishTime}
          BY <3>1, <5>1 DEF ArrowSchema
        <5>3. raw[FirstIndex(Decimals(raw))] # PublishTime
          <6>1. IsDecimal(raw[FirstIndex(Decimals(raw))])
            <7>1. Decimals(raw) \subseteq Nat
              BY <3>1 DEF ArrowSchema, Decimals
            <7>2. QED
              BY <3>2, <7>1, FirstIndexIn DEF Decimals
          <6>2. ~IsDecimal(PublishTime)
            BY DEF IsDecimal, PublishTime, Fld, Ts, DecimalKinds
          <6>3. QED
            BY <6>1, <6>2
        <5>4. QED
          BY <5>2, <5>3 DEF Field
      <4>2. result = Err("UnsupportedColumn", raw[FirstIndex(Decimals(raw))].name)
        BY <2>4, <3>1, <3>2, FromRawSchemaSpec
      <4>3. QED
        BY <2>1, <4>1, <4>2 DEF TypeOK, Err
    <3>3. CASE Decimals(raw) = {}
      <4>1. /\ result = Ok([raw |-> raw, table |-> result.val.table])
            /\ Len(result.val.table) = Len(raw)
        BY <2>4, <3>1, <3>3, FromRawSchemaSpec
      <4>2. /\ result.ok
            /\ result.val = [raw |-> raw, table |-> result.val.table]
        BY <4>1 DEF Ok
      <4>3. /\ DOMAIN result.val = {"raw", "table"}
            /\ Len(result.val.raw) = Len(result.val.table)
        BY <4>1, <4>2
      <4>4. QED
        BY <2>1, <4>2, <4>3 DEF TypeOK
    <3>4. QED
      BY <3>2, <3>3
  <2>5. QED
    BY <2>2, <2>3, <2>4 DEF IInv
<1>2. QED
  BY InitIInv, NextIInv, <1>1, PTL DEF Spec

(* For every set of arrow sources, a conversion that try_from reaches      *)
(* gives what spec section 7 asks: the raw schema kept, each field with    *)
(* its name, nullability, kind and unit and no time zone, or an            *)
(* UnsupportedColumn error naming the first decimal column                 *)
(* (TableSchemaMatchesRaw of the run).                                     *)
THEOREM SchemaCorrect == Spec => []TableSchemaMatchesRaw
<1>1. IInv => TableSchemaMatchesRaw
  <2> SUFFICES ASSUME IInv, result # Pending,
                      result.err \in {"none", "UnsupportedColumn"}
               PROVE  TableSchemaMatchesRaw
    BY DEF TableSchemaMatchesRaw
  <2>1. ~\E e \in IoErrors(source) : result = Err(e, "none")
    BY IoErrorKinds DEF IInv, Err
  <2>2. result = FromRawSchema(RawSchemaOf(source))
    BY <2>1 DEF IInv
  <2> DEFINE raw == RawSchemaOf(source)
  <2>3. ArrowSchema(raw)
    BY RawSchemaIsArrow DEF IInv
  <2>4. CASE Decimals(raw) # {}
    <3>1. result = Err("UnsupportedColumn", raw[FirstIndex(Decimals(raw))].name)
      BY <2>2, <2>3, <2>4, FromRawSchemaSpec
    <3>2. QED
      BY <2>4, <3>1 DEF TableSchemaMatchesRaw, Err, Decimals
  <2>5. CASE Decimals(raw) = {}
    <3>1. /\ result = Ok([raw |-> raw, table |-> result.val.table])
          /\ Len(result.val.table) = Len(raw)
          /\ \A i \in DOMAIN raw :
               LET t == result.val.table[i]
               IN  /\ t.name = raw[i].name
                   /\ t.nullable = raw[i].nullable
                   /\ t.type.kind = raw[i].type.kind
                   /\ t.type.unit = raw[i].type.unit
                   /\ t.type.tz = NoTz
      BY <2>2, <2>3, <2>5, FromRawSchemaSpec
    <3>2. QED
      BY <2>5, <3>1 DEF TableSchemaMatchesRaw, Ok, Decimals
  <2>6. QED
    BY <2>4, <2>5
<1>2. QED
  BY InitIInv, NextIInv, <1>1, PTL DEF Spec

=============================================================================
