------------------------------ MODULE ZipMinMax ------------------------------
(***************************************************************************)
(* ZipMinEvaluator / ZipMaxEvaluator (sparrow-instructions, evaluators/    *)
(* math/min_max.rs).  `evaluate` fetches the two operand arrays and calls  *)
(* zip_min / zip_max, which is arrow's math_op with the closure            *)
(* `if a < b {a} else {b}` (resp. `a > b`): arrays of different lengths   *)
(* are an error, a slot that is null in either operand is null, every      *)
(* other slot is the closure applied to the two values.                    *)
(*                                                                         *)
(* A native value is an integer, or for floating-point types one of the    *)
(* two special values NaN and NegZero (-0.0, numerically 0).  The          *)
(* comparisons are Rust's PartialOrd: NaN is unordered with everything,    *)
(* -0.0 and +0.0 are equal.                                                *)
(***************************************************************************)
EXTENDS Integers, Sequences

CONSTANTS
  Values,     \* the native values an array slot may hold
  NaN,        \* the float NaN
  NegZero,    \* the float -0.0
  Null,       \* a null slot
  MaxLen      \* bound on the length of an operand array

ASSUME ZipAssumption ==
  /\ Null \notin Values
  /\ Values \subseteq Int \cup {NaN, NegZero}
  /\ Null \notin Int \cup {NaN, NegZero}
  /\ NaN \notin Int /\ NegZero \notin Int /\ NaN # NegZero
  /\ MaxLen \in Nat

VARIABLES
  op,       \* "ZipMin" or "ZipMax": which evaluator the plan built
  lhs,      \* the lhs operand array of the batch
  rhs,      \* the rhs operand array of the batch
  result    \* Pending, or the anyhow::Result evaluate returns

vars == <<op, lhs, rhs, result>>

OptValues == Values \cup {Null}

Native == Int \cup {NaN, NegZero}

Arrays == UNION { [1 .. n -> OptValues] : n \in 0 .. MaxLen }

Ok(v) == [ok |-> TRUE, val |-> v]
Err == [ok |-> FALSE, val |-> <<>>]
Pending == [ok |-> FALSE, val |-> <<Null>>]

(* The number a value compares as; NaN has none.                           *)
Num(a) == IF a = NegZero THEN 0 ELSE a

(* PartialOrd's < and >: FALSE whenever NaN is involved.                   *)
Lt(a, b) == a # NaN /\ b # NaN /\ Num(a) < Num(b)
Gt(a, b) == a # NaN /\ b # NaN /\ Num(a) > Num(b)

(* Mutant: a zip_min closure written with the comparison the wrong way.    *)
MinOpSwapped(a, b) == IF Gt(a, b) THEN a ELSE b

(* Mutant: a zip_max closure copied from zip_min and left unchanged.       *)
MaxOpAsMin(a, b) == IF Lt(a, b) THEN a ELSE b

(* The closure of zip_min: `if a < b { a } else { b }`.                    *)
MinOp(a, b) == IF Lt(a, b) THEN a ELSE b

(* The closure of zip_max: `if a > b { a } else { b }`.                    *)
MaxOp(a, b) == IF Gt(a, b) THEN a ELSE b

(* The closure each evaluator hands to math_op.                           *)
Closure(o, a, b) == IF o = "ZipMin" THEN MinOp(a, b) ELSE MaxOp(a, b)

(* Mutant: a math_op that zips to the shorter array instead of failing.    *)
MathOpZipShorter(o, l, r) ==
  LET n == IF Len(l) < Len(r) THEN Len(l) ELSE Len(r)
  IN  Ok([i \in 1 .. n |-> IF l[i] = Null \/ r[i] = Null THEN Null
                           ELSE Closure(o, l[i], r[i])])

(* arrow::compute::math_op: lengths must agree; nulls propagate; the       *)
(* closure runs on the slots valid in both operands.                       *)
MathOp(o, l, r) ==
  IF Len(l) # Len(r) THEN Err
  ELSE Ok([i \in DOMAIN l |-> IF l[i] = Null \/ r[i] = Null THEN Null
                              ELSE Closure(o, l[i], r[i])])

ZipMin(l, r) == MathOp("ZipMin", l, r)
ZipMax(l, r) == MathOp("ZipMax", l, r)

(* The tests of min_max.rs.  Float32 values are scaled by ten to integers, *)
(* which keeps their order: 1.0, -5.1, 0.5, -5.0 are 10, -51, 5, -50.      *)
TestInt32 == [lhs |-> <<1, 5, Null>>, rhs |-> <<0, 6, Null>>,
              min |-> <<0, 5, Null>>, max |-> <<1, 6, Null>>]
TestFloat32 == [lhs |-> <<10, -51, Null>>, rhs |-> <<5, -50, Null>>,
                min |-> <<5, -51, Null>>, max |-> <<10, -50, Null>>]

UnitTests == {TestInt32, TestFloat32}

(* The evaluator the plan built, with the batch it is given: any arrays    *)
(* of the bounded domain, or the arrays of a unit test.                    *)
Init ==
  /\ op \in {"ZipMin", "ZipMax"}
  /\ \/ lhs \in Arrays /\ rhs \in Arrays
     \/ \E t \in UnitTests : lhs = t.lhs /\ rhs = t.rhs
  /\ result = Pending

(* ZipMinEvaluator::evaluate / ZipMaxEvaluator::evaluate.                  *)
Evaluate ==
  /\ result = Pending
  /\ result' = IF op = "ZipMin" THEN ZipMin(lhs, rhs) ELSE ZipMax(lhs, rhs)
  /\ UNCHANGED <<op, lhs, rhs>>

Next == Evaluate

Spec == Init /\ [][Next]_vars

-----------------------------------------------------------------------------

(* Every variable has the shape the code gives it: an Ok result is an      *)
(* array as long as the operands.                                          *)
TypeOK ==
  /\ op \in {"ZipMin", "ZipMax"}
  /\ lhs \in Seq(Native \cup {Null}) /\ rhs \in Seq(Native \cup {Null})
  /\ result.ok \in BOOLEAN
  /\ result.ok => /\ result.val \in Seq(Native \cup {Null})
                  /\ Len(result.val) = Len(lhs)
                  /\ Len(result.val) = Len(rhs)

(* The reference: what min / max under partial-order semantics may return  *)
(* (spec 4.3, numeric semantics): the smaller (larger) operand when the *)
(* two are ordered and differ, either one when they compare equal or are *)
(* unordered (NaN, and -0.0 against +0.0).                                 *)
RefPick(o, a, b) ==
  IF o = "ZipMin" THEN IF Lt(a, b) THEN {a} ELSE IF Lt(b, a) THEN {b} ELSE {a, b}
  ELSE IF Gt(a, b) THEN {a} ELSE IF Gt(b, a) THEN {b} ELSE {a, b}

(* The evaluator is min / max slot by slot: an error exactly when the      *)
(* operand lengths differ; otherwise null where either operand is null,    *)
(* and elsewhere the reference pick.                                        *)
ZipMatchesReference ==
  result # Pending =>
    /\ result.ok <=> Len(lhs) = Len(rhs)
    /\ result.ok =>
         \A i \in DOMAIN lhs :
            IF lhs[i] = Null \/ rhs[i] = Null THEN result.val[i] = Null
            ELSE result.val[i] \in RefPick(op, lhs[i], rhs[i])

(* zip_min and zip_max return on the unit tests' arrays what the tests     *)
(* assert.                                                                 *)
UnitTestArrays ==
  \A t \in UnitTests :
     (result # Pending /\ lhs = t.lhs /\ rhs = t.rhs)
       => result = Ok(IF op = "ZipMin" THEN t.min ELSE t.max)

=============================================================================
