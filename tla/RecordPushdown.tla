---------------------------- MODULE RecordPushdown ----------------------------
(***************************************************************************)
(* The record pushdown of `last` and `first` (sparrow-compiler,          *)
(* functions/aggregation.rs).  Over a record input neither is evaluated as *)
(* one aggregation: the compiler instantiates three patterns and wires     *)
(* their evaluators into the plan.  For each field f of the record, with   *)
(* agg the aggregation (`last` or `first`):                                *)
(*                                                                         *)
(*   gate[f]  = agg(if (is_new and is_valid(record)) is_valid(record.f))   *)
(*   value[f] = agg(if is_new record.f)           (the primitive pattern)  *)
(*   field f  = if gate[f] value[f]                                         *)
(*                                                                         *)
(* and for the record  count = count_if(is_new and is_valid(record)),      *)
(* result = if (count > 0) {fields}.  All of them see the same rows and    *)
(* the same window.  The fields here are boolean, so every per-field       *)
(* `last` is a LastBooleanEvaluator: its per-row update is LastAccum;      *)
(* `first` keeps the earliest valid input instead (spec, section 4.3).     *)
(* The evaluators are independent, so one step applies one row to all of   *)
(* them; the batch split was shown not to matter for each (LastBoolean).   *)
(* One entity: the entity indices were shown to be independent there too.  *)
(* `consumed` and `out` are history variables.                              *)
(***************************************************************************)
EXTENDS Naturals, Sequences, LastAccum

CONSTANTS
  Fields,    \* the leaf fields of the input record type
  MaxRows    \* bound on the rows consumed

ASSUME PushdownAssumption ==
  /\ Null \notin BOOLEAN
  /\ MaxRows \in Nat

VARIABLES
  agg,       \* the aggregation pushed down: "last" or "first"
  args,      \* AggregationArgs of every evaluator: "NoWindow" or "Since"
  gate,      \* gate[f]: token entry of the gating agg(is_valid(f))
  value,     \* value[f]: token entry of the per-field agg(f)
  count,     \* token entry of the gating count_if
  consumed,  \* history: the rows consumed, in order
  out        \* history: the record (or Null) produced for each row

vars == <<agg, args, gate, value, count, consumed, out>>

OptBool == BOOLEAN \cup {Null}

(* A non-null record value: every field optional.                          *)
Rec == [Fields -> OptBool]

(* A row of the merged input/window stream: whether the input is new at    *)
(* this row, the record (or Null) and the `since` tick.                    *)
InRow == [isNew : BOOLEAN, rec : Rec \cup {Null}, tick : OptBool]

RowsFor(m) == { r \in InRow : m = "NoWindow" => r.tick = Null }

(* The rows the record-level aggregation sees: a new, valid record is an   *)
(* input, anything else a null input.                                      *)
AsAbstract(r) ==
  [entity |-> 0,
   input  |-> IF r.isNew /\ r.rec # Null THEN r.rec ELSE Null,
   tick   |-> r.tick]

(* The consumed rows as the record-level aggregation sees them.            *)
AbstractRows == [k \in DOMAIN consumed |-> AsAbstract(consumed[k])]

R == INSTANCE LastAbstract
       WITH Values <- Rec, Entities <- {0}, mode <- args,
            inputs <- AbstractRows, outputs <- out

F == INSTANCE FirstAbstract
       WITH Values <- Rec, Entities <- {0}, mode <- args,
            inputs <- AbstractRows, outputs <- out

(* The record-level state of the aggregation pushed down.                  *)
RecordState == IF agg = "last" THEN R!StateAfter(args, AbstractRows, 0)
               ELSE F!FirstStateAfter(args, AbstractRows, 0)

(* The `if` instruction: its value where the condition is TRUE, else null. *)
IfThen(c, v) == IF c = TRUE THEN v ELSE Null

(* field_ref: a field of a null record is null.                            *)
FieldOf(rec, f) == IF rec = Null THEN Null ELSE rec[f]

(* Mutant: a gate that drops the record's validity and only asks is_new.  *)
GateInputNoValid(r, f) == IfThen(r.isNew, FieldOf(r.rec, f) # Null)

(* The per-field gate pattern's input column.                               *)
GateInput(r, f) ==
  IfThen(r.isNew /\ r.rec # Null, FieldOf(r.rec, f) # Null)

(* The primitive pattern's input column, on the field.                      *)
FieldInput(r, f) == IfThen(r.isNew, FieldOf(r.rec, f))

(* The result pattern's count_if input column.                              *)
CountInput(r) == r.isNew /\ r.rec # Null

(* count_if: the emitted count includes the row when its input is TRUE.    *)
CountIfEmit(stored, input) == stored + (IF input = TRUE THEN 1 ELSE 0)

(* Mutant: a count_if whose reset writes the null state of `last`.          *)
CountIfResetNull(m, stored, input, tick) ==
  IF m = "Since" /\ tick = TRUE THEN Null ELSE CountIfEmit(stored, input)

(* Mutant: a count_if that ignores the window.                              *)
CountIfNoReset(m, stored, input, tick) == CountIfEmit(stored, input)

(* count_if's entry after the row: update -> emit -> reset, like `last`.   *)
CountIfEntry(m, stored, input, tick) ==
  IF m = "Since" /\ tick = TRUE THEN 0 ELSE CountIfEmit(stored, input)

(* `first`: the value emitted is the entry when it holds one, else the    *)
(* input; the entry keeps that value.                                      *)
FirstEmit(stored, input) == IF stored # Null THEN stored ELSE input

(* `first` with a window: update -> emit -> reset, like `last`.            *)
FirstSinceEntry(stored, input, tick) ==
  IF tick = TRUE THEN Null ELSE FirstEmit(stored, input)

(* The value agg emits for the row.                                        *)
AggEmit(a, stored, input) ==
  IF a = "last" THEN Emit(stored, input) ELSE FirstEmit(stored, input)

(* agg's entry after the row: for `last`, aggregate (NoWindow) applies     *)
(* update_accum, aggregate_since (Since) update_since_accum.               *)
Accum(a, m, stored, input, tick) ==
  CASE a = "last" /\ m = "Since" -> SinceEntry(stored, input, tick)
    [] a = "last" /\ m = "NoWindow" -> Emit(stored, input)
    [] a = "first" /\ m = "Since" -> FirstSinceEntry(stored, input, tick)
    [] a = "first" /\ m = "NoWindow" -> FirstEmit(stored, input)

(* The result pattern over the per-field outputs: null unless count > 0.   *)
Result(g, v, c) ==
  IfThen(c > 0, [f \in Fields |-> IfThen(g[f], v[f])])

Init ==
  /\ agg \in {"last", "first"}
  /\ args \in {"NoWindow", "Since"}
  /\ gate = [f \in Fields |-> Null]
  /\ value = [f \in Fields |-> Null]
  /\ count = 0
  /\ consumed = <<>>
  /\ out = <<>>

(* One row reaches every evaluator of the pushed-down plan; the stateless *)
(* `if` / `gt` instructions assemble the output record from their outputs. *)
Consume(r) ==
  /\ Len(consumed) < MaxRows
  /\ gate' = [f \in Fields |-> Accum(agg, args, gate[f], GateInput(r, f), r.tick)]
  /\ value' = [f \in Fields |-> Accum(agg, args, value[f], FieldInput(r, f), r.tick)]
  /\ count' = CountIfEntry(args, count, CountInput(r), r.tick)
  /\ out' = Append(out,
              Result([f \in Fields |-> AggEmit(agg, gate[f], GateInput(r, f))],
                     [f \in Fields |-> AggEmit(agg, value[f], FieldInput(r, f))],
                     CountIfEmit(count, CountInput(r))))
  /\ consumed' = Append(consumed, r)
  /\ UNCHANGED <<agg, args>>

Next == \E r \in RowsFor(args) : Consume(r)

Spec == Init /\ [][Next]_vars

-----------------------------------------------------------------------------

(* Every variable has the shape the evaluators' tokens give it.            *)
TypeOK ==
  /\ agg \in {"last", "first"}
  /\ args \in {"NoWindow", "Since"}
  /\ gate \in [Fields -> OptBool]
  /\ value \in [Fields -> OptBool]
  /\ count \in Nat
  /\ consumed \in Seq(InRow)
  /\ out \in Seq(Rec \cup {Null})

(* The three kinds of token together encode the record-level state: the   *)
(* count is positive exactly when a new valid record is in the window, and *)
(* then each gate says whether that record's field is valid and the field  *)
(* token holds the field.  This ties count_if's reset and the gates'       *)
(* resets to one window.                                                   *)
TokensMatchRecord ==
  LET s == RecordState IN
    /\ (count > 0) <=> (s # Null)
    /\ s # Null =>
         \A f \in Fields :
            /\ gate[f] = (s[f] # Null)
            /\ s[f] # Null => value[f] = s[f]

(* The pushed-down plan implements the aggregation over records: every     *)
(* output is the latest (`last`) or earliest (`first`) new, non-null       *)
(* record of the window, including its null fields, and null while there  *)
(* is none (the count_if > 0 gate, P4).  The aggregation never changes,   *)
(* so this is R!ASpec for `last` and F!FSpec for `first`.                 *)
PushdownRefinement ==
  /\ R!AInit
  /\ [][IF agg = "last" THEN R!ANext ELSE F!FNext]_R!avars

=============================================================================
