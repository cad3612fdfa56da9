------------------------------ MODULE LastAccum ------------------------------
(***************************************************************************)
(* The per-entry update of the `last` accumulator: what update_accum and   *)
(* update_since_accum of LastBooleanEvaluator do to one token entry for    *)
(* one row, as pure operators.  The evaluator model applies them to its    *)
(* token; the pushdown model applies them to each of the evaluators the    *)
(* compiler builds for a record `last`.                                     *)
(***************************************************************************)
CONSTANT Null   \* None of an Option<_>

(* update_accum: value_to_emit is the input when it is valid, else the    *)
(* stored entry; the stored entry becomes that same value.                *)
Emit(stored, input) == IF input # Null THEN input ELSE stored

(* update_since_accum: the entry after the row, update -> emit -> reset: *)
(* a valid TRUE tick clears the entry once the value has been emitted.    *)
SinceEntry(stored, input, tick) ==
  IF tick = TRUE THEN Null ELSE Emit(stored, input)

=============================================================================
