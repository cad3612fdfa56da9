---------------------------- MODULE MCRawMetadata ----------------------------
EXTENDS RawMetadata

CONSTANT None

(* Field types a source may carry: time zones and decimals included.        *)
MCTypes == {Prim("Utf8"), Ts("Nanosecond", None), Ts("Nanosecond", "UTC"),
            Ts("Millisecond", "UTC"), Prim("Decimal128"), Prim("Decimal256")}

(* Types the CSV schema inference produces: no time zone, no decimal.       *)
MCCsvTypes == {Prim("Utf8"), Prim("Int64"), Ts("Nanosecond", None)}

MCFields(T) == { Fld(n, t, b) : n \in {"a", "b"}, t \in T, b \in BOOLEAN }

MCSchemas(T) == {<<>>} \cup { <<f>> : f \in MCFields(T) }
                \cup { <<f, g>> : f, g \in MCFields(T) }

Src(k, l, s, c) == [kind |-> k, local |-> l, schema |-> s, config |-> c]

MCSources ==
  { Src("Raw", TRUE, s, TRUE) : s \in MCSchemas(MCTypes) \cup
        {TestPlain, TestConversion("UTC"), TestDropTimezones("UTC"), TestDecimal} }
  \cup { Src("ParquetPath", l, s, TRUE) : l \in BOOLEAN, s \in MCSchemas(MCTypes) }
  \cup { Src("CsvPath", l, s, TRUE) : l \in BOOLEAN, s \in MCSchemas(MCCsvTypes) }
  \cup { Src("CsvData", TRUE, s, TRUE) : s \in MCSchemas(MCCsvTypes) }
  \cup { Src("PulsarSubscription", TRUE, s, c) : c \in BOOLEAN, s \in MCSchemas(MCTypes) }

(* The decimal columns the comments speak of, read directly.               *)
MCDecimalSources == { Src("Raw", TRUE, TestDecimal, TRUE) }

=============================================================================
