----------------------------- MODULE LastBoolean -----------------------------
(***************************************************************************)
(* LastBooleanEvaluator (sparrow-instructions, evaluators/aggregation/     *)
(* boolean/last_boolean_evaluator.rs) with its BooleanAccumToken.          *)
(*                                                                         *)
(* The driver hands the evaluator one batch at a time together with the    *)
(* grouping (num_groups and a group index per row).  `evaluate` resolves   *)
(* its operands, grows the token to num_groups entries (new entries null), *)
(* then runs update_accum (NoWindow) or update_since_accum (Since) once    *)
(* per row, in row order, and returns the collected outputs.  The row loop *)
(* is modelled one iteration per step: nothing else touches the token      *)
(* while it runs, so these steps compose to the one call.                  *)
(*                                                                         *)
(* `consumed` and `out` are history variables: every row applied so far    *)
(* and every value emitted, across batches.  They are not state of the     *)
(* code; they let the properties compare the token with the stream.        *)
(***************************************************************************)
EXTENDS Naturals, Sequences, LastAccum

CONSTANTS
  MaxGroups,    \* bound on num_groups
  MaxBatchLen,  \* bound on the rows of one batch
  MaxBatches    \* bound on the batches of one run

ASSUME NullAssumption == Null \notin BOOLEAN
ASSUME BoundsAssumption ==
  /\ MaxGroups \in Nat \ {0}
  /\ MaxBatchLen \in Nat
  /\ MaxBatches \in Nat

VARIABLES
  args,       \* AggregationArgs: "NoWindow" or "Since"
  token,      \* BooleanAccumToken: entity index -> Option<bool>
  capacity,   \* number of entries the token has been resized to
  batch,      \* rows of the batch being evaluated
  pos,        \* index of the next row of the row loop
  phase,      \* "Idle" between calls, "Running" inside evaluate, "Failed"
  batches,    \* number of batches handed to the evaluator
  consumed,   \* history: every row applied to the token, in order
  out         \* history: every value emitted, in order

vars == <<args, token, capacity, batch, pos, phase, batches, consumed, out>>

Entities == 0 .. MaxGroups - 1

A == INSTANCE LastAbstract
       WITH Values <- BOOLEAN, mode <- args, inputs <- consumed, outputs <- out

OptBool == A!OptVal
Row == A!Row

(* Rows a batch of the given arguments can carry when num_groups = ng: a  *)
(* NoWindow batch has no tick column.                                     *)
RowsFor(ng) ==
  { r \in Row :
      /\ r.entity < ng
      /\ args = "NoWindow" => r.tick = Null }

BatchesFor(ng) == UNION { [1 .. n -> RowsFor(ng)] : n \in 0 .. MaxBatchLen }

(* LastBooleanEvaluator::try_new: NoWindow and Since get this evaluator   *)
(* with a default (empty) token; Sliding builds another evaluator.        *)
Init ==
  /\ args \in {"NoWindow", "Since"}
  /\ token = [e \in Entities |-> Null]
  /\ capacity = 0
  /\ batch = <<>>
  /\ pos = 1
  /\ phase = "Idle"
  /\ batches = 0
  /\ consumed = <<>>
  /\ out = <<>>

(* Mutants: plausible bugs of the operations below, one per property.   *)
(* resize that rebuilds the token instead of growing it.                  *)
ResizeRebuilds(len) ==
  /\ token' = [e \in Entities |-> Null]
  /\ capacity' = IF len > capacity THEN len ELSE capacity

(* resize that treats key_capacity as the largest index.                  *)
ResizeOneTooMany(len) ==
  /\ token' = [e \in Entities |-> IF e < capacity THEN token[e] ELSE Null]
  /\ capacity' = IF len + 1 > capacity THEN len + 1 ELSE capacity

(* update_since_accum that resets before it emits.                        *)
UpdateSinceAccumResetFirst(r) ==
  /\ token' = [token EXCEPT ![r.entity] = SinceEntry(@, r.input, r.tick)]
  /\ out' = Append(out, IF r.tick = TRUE THEN Null
                        ELSE Emit(token[r.entity], r.input))

(* BooleanAccumToken::resize via ensure_entity_capacity: the token grows  *)
(* to len entries, the new ones null; existing entries are kept.          *)
Resize(len) ==
  /\ token' = [e \in Entities |-> IF e < capacity THEN token[e] ELSE Null]
  /\ capacity' = IF len > capacity THEN len ELSE capacity

(* evaluate, up to the row loop: the operands resolve, the lengths agree, *)
(* and aggregate / aggregate_since grows the token to key_capacity.       *)
(* The driver's num_groups never decreases and bounds every group index.  *)
Evaluate(ng, b) ==
  /\ phase = "Idle"
  /\ batches < MaxBatches
  /\ Resize(ng)
  /\ batch' = b
  /\ pos' = 1
  /\ phase' = "Running"
  /\ batches' = batches + 1
  /\ UNCHANGED <<args, consumed, out>>

(* evaluate: info.value(input)? or info.value(ticks)? fails (plan/runtime *)
(* mismatch); the error is returned before the token is touched, and the  *)
(* driver stops feeding batches.                                          *)
ResolveFail ==
  /\ phase = "Idle"
  /\ batches < MaxBatches
  /\ phase' = "Failed"
  /\ batches' = batches + 1
  /\ UNCHANGED <<args, token, capacity, batch, pos, consumed, out>>

(* update_accum: a valid input is stored and emitted; a null input emits  *)
(* the stored value.                                                      *)
UpdateAccum(r) ==
  /\ token' = [token EXCEPT ![r.entity] = Emit(@, r.input)]
  /\ out' = Append(out, Emit(token[r.entity], r.input))

(* update_since_accum: as update_accum, then a valid TRUE tick resets the *)
(* entry to null after the value has been emitted.                        *)
UpdateSinceAccum(r) ==
  /\ token' = [token EXCEPT ![r.entity] = SinceEntry(@, r.input, r.tick)]
  /\ out' = Append(out, Emit(token[r.entity], r.input))

(* One iteration of the izip!(..).map(..) row loop of aggregate or        *)
(* aggregate_since.                                                       *)
Step ==
  /\ phase = "Running"
  /\ pos <= Len(batch)
  /\ \/ args = "NoWindow" /\ UpdateAccum(batch[pos])
     \/ args = "Since" /\ UpdateSinceAccum(batch[pos])
  /\ consumed' = Append(consumed, batch[pos])
  /\ pos' = pos + 1
  /\ UNCHANGED <<args, capacity, batch, phase, batches>>

(* The loop has run over every row: collect() returns the output array.   *)
Return ==
  /\ phase = "Running"
  /\ pos > Len(batch)
  /\ phase' = "Idle"
  /\ UNCHANGED <<args, token, capacity, batch, pos, batches, consumed, out>>

Next ==
  \/ \E ng \in capacity .. MaxGroups :
       \E b \in BatchesFor(ng) : ng > 0 /\ Evaluate(ng, b)
  \/ ResolveFail
  \/ Step
  \/ Return

Spec == Init /\ [][Next]_vars

-----------------------------------------------------------------------------

(* Every variable has the shape the code gives it.                        *)
TypeOK ==
  /\ args \in {"NoWindow", "Since"}
  /\ token \in [Entities -> OptBool]
  /\ capacity \in 0 .. MaxGroups
  /\ batch \in Seq(Row)
  /\ pos \in 1 .. Len(batch) + 1
  /\ phase \in {"Idle", "Running", "Failed"}
  /\ batches \in 0 .. MaxBatches
  /\ consumed \in Seq(Row)
  /\ out \in Seq(OptBool)

(* The token entry of every entity is exactly what the rows of that       *)
(* entity consumed so far, in any batches, determine: the latest non-null *)
(* input since its last TRUE tick (NoWindow: ever), or null; entries past *)
(* the resized capacity are null.  This is the cross-batch carry-over of  *)
(* update_accum / update_since_accum and ensure_entity_capacity.          *)
TokenMatchesHistory ==
  \A e \in Entities :
     token[e] = A!StateAfter(args, consumed, e)

(* The evaluator implements the `last` promise of LastAbstract: every     *)
(* emitted value is the reference output for the stream of rows consumed  *)
(* so far, however that stream is split into batches (P1, P2 of the       *)
(* spec) and in update -> emit -> reset order.                            *)
LastRefinement == A!ASpec

=============================================================================
