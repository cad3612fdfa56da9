-------------------------- MODULE ZipMinMaxProofs --------------------------
(***************************************************************************)
(* Proofs about ZipMinMax, for every set of values and every array length. *)
(***************************************************************************)
EXTENDS ZipMinMax, TLAPS

Slot == Native \cup {Null}

(* Once evaluate has run, its result is what zip_min / zip_max compute on *)
(* the operands, which never change; the operands are arrays of slots.    *)
IInv ==
  /\ op \in {"ZipMin", "ZipMax"}
  /\ lhs \in Seq(Slot) /\ rhs \in Seq(Slot)
  /\ result = Pending \/ result = MathOp(op, lhs, rhs)

(* The closure of either evaluator picks what the partial-order reference *)
(* allows, for any two non-null values, NaN and -0.0 included.            *)
LEMMA ClosurePicks ==
  ASSUME NEW o \in {"ZipMin", "ZipMax"}, NEW a \in Native, NEW b \in Native
  PROVE  Closure(o, a, b) \in RefPick(o, a, b)
<1>1. CASE o = "ZipMin"
  BY <1>1 DEF Closure, MinOp, RefPick, Lt
<1>2. CASE o = "ZipMax"
  BY <1>2 DEF Closure, MaxOp, RefPick, Gt
<1>3. QED
  BY <1>1, <1>2

(* What math_op returns: an error exactly on a length mismatch, and       *)
(* otherwise null or the reference pick in every slot.                    *)
LEMMA MathOpReference ==
  ASSUME NEW o \in {"ZipMin", "ZipMax"}, NEW l \in Seq(Slot), NEW r \in Seq(Slot)
  PROVE  LET res == MathOp(o, l, r)
         IN  /\ res.ok <=> Len(l) = Len(r)
             /\ res.ok =>
                  \A i \in DOMAIN l :
                     IF l[i] = Null \/ r[i] = Null THEN res.val[i] = Null
                     ELSE res.val[i] \in RefPick(o, l[i], r[i])
<1>1. CASE Len(l) # Len(r)
  BY <1>1 DEF MathOp, Err
<1>2. CASE Len(l) = Len(r)
  <2>1. \A i \in DOMAIN l : l[i] # Null /\ r[i] # Null => l[i] \in Native /\ r[i] \in Native
    BY <1>2 DEF Slot
  <2>2. QED
    BY <1>2, <2>1, ClosurePicks DEF MathOp, Ok
<1>3. QED
  BY <1>1, <1>2

LEMMA InitIInv == Init => IInv
<1> SUFFICES ASSUME Init PROVE IInv
  OBVIOUS
<1>1. Arrays \subseteq Seq(Slot)
  <2>1. OptValues \subseteq Slot
    BY ZipAssumption DEF OptValues, Slot, Native
  <2>2. QED
    BY <2>1, ZipAssumption DEF Arrays
<1>2. \A t \in UnitTests : t.lhs \in Seq(Slot) /\ t.rhs \in Seq(Slot)
  <2>1. \A a, b, c \in Slot : <<a, b, c>> \in Seq(Slot)
    OBVIOUS
  <2>2. {1, 5, 0, 6, 10, -51, -50, Null} \subseteq Slot
    BY DEF Slot, Native
  <2>3. /\ <<1, 5, Null>> \in Seq(Slot) /\ <<0, 6, Null>> \in Seq(Slot)
        /\ <<10, -51, Null>> \in Seq(Slot) /\ <<5, -50, Null>> \in Seq(Slot)
    BY <2>1, <2>2, Zenon
  <2>4. /\ TestInt32.lhs = <<1, 5, Null>> /\ TestInt32.rhs = <<0, 6, Null>>
        /\ TestFloat32.lhs = <<10, -51, Null>> /\ TestFloat32.rhs = <<5, -50, Null>>
    BY DEF TestInt32, TestFloat32
  <2>5. QED
    BY <2>3, <2>4 DEF UnitTests
<1>3. QED
  BY <1>1, <1>2 DEF Init, IInv

LEMMA NextIInv == IInv /\ [Next]_vars => IInv'
BY DEF IInv, Next, Evaluate, ZipMin, ZipMax, vars

(* For every value set, array length and operand pair, zip_min / zip_max  *)
(* fail exactly on a length mismatch and otherwise give null or a          *)
(* partial-order min / max in every slot (ZipMatchesReference of the run). *)
THEOREM ZipCorrect == Spec => []ZipMatchesReference
<1>1. IInv => ZipMatchesReference
  <2> SUFFICES ASSUME IInv, result # Pending
               PROVE  ZipMatchesReference
    BY DEF ZipMatchesReference
  <2>1. result = MathOp(op, lhs, rhs)
    BY DEF IInv
  <2>2. QED
    BY <2>1, MathOpReference DEF IInv, ZipMatchesReference
<1>2. QED
  BY InitIInv, NextIInv, <1>1, PTL DEF Spec

(* An Ok result of math_op is an array of slots as long as both operands: *)
(* each closure returns one of its two operands.                          *)
LEMMA MathOpShape ==
  ASSUME NEW o \in {"ZipMin", "ZipMax"}, NEW l \in Seq(Slot), NEW r \in Seq(Slot),
         MathOp(o, l, r).ok
  PROVE  /\ MathOp(o, l, r).val \in Seq(Slot)
         /\ Len(MathOp(o, l, r).val) = Len(l)
         /\ Len(MathOp(o, l, r).val) = Len(r)
<1>1. Len(l) = Len(r)
  BY DEF MathOp, Err
<1>2. \A a, b \in Native : Closure(o, a, b) \in {a, b}
  BY DEF Closure, MinOp, MaxOp
<1>3. \A i \in DOMAIN l :
        (IF l[i] = Null \/ r[i] = Null THEN Null ELSE Closure(o, l[i], r[i])) \in Slot
  BY <1>1, <1>2 DEF Slot
<1>. QED
  BY <1>1, <1>3 DEF MathOp, Ok

(* The result evaluate gives is a well-formed anyhow::Result for every    *)
(* value set and operand pair: an Ok array of slots exactly as long as    *)
(* both operands (TypeOK of the zip_min_max run).                         *)
THEOREM TypeCorrect == Spec => []TypeOK
<1>1. IInv => TypeOK
  <2> SUFFICES ASSUME IInv PROVE TypeOK
    OBVIOUS
  <2>1. CASE result = Pending
    BY <2>1 DEF IInv, TypeOK, Pending, Slot
  <2>2. CASE result = MathOp(op, lhs, rhs)
    <3>1. result.ok \in BOOLEAN
      BY <2>2 DEF MathOp, Ok, Err
    <3>2. result.ok => /\ result.val \in Seq(Slot)
                       /\ Len(result.val) = Len(lhs) /\ Len(result.val) = Len(rhs)
      BY <2>2, MathOpShape DEF IInv
    <3>. QED
      BY <3>1, <3>2 DEF IInv, TypeOK, Slot
  <2>. QED
    BY <2>1, <2>2 DEF IInv
<1>2. QED
  BY InitIInv, NextIInv, <1>1, PTL DEF Spec

(* math_op on the arrays of one unit test, slot by slot.                  *)
LEMMA MathOpTest ==
  ASSUME NEW o \in {"ZipMin", "ZipMax"}, NEW a1 \in Int, NEW a2 \in Int,
         NEW b1 \in Int, NEW b2 \in Int
  PROVE  MathOp(o, <<a1, a2, Null>>, <<b1, b2, Null>>)
           = Ok(<<Closure(o, a1, b1), Closure(o, a2, b2), Null>>)
<1>1. Null \notin Int
  BY ZipAssumption
<1>2. DOMAIN <<a1, a2, Null>> = 1 .. 3 /\ Len(<<a1, a2, Null>>) = Len(<<b1, b2, Null>>)
  OBVIOUS
<1>3. a1 # Null /\ a2 # Null /\ b1 # Null /\ b2 # Null
  BY <1>1
<1>4. [i \in 1 .. 3 |-> IF <<a1, a2, Null>>[i] = Null \/ <<b1, b2, Null>>[i] = Null
                        THEN Null
                        ELSE Closure(o, <<a1, a2, Null>>[i], <<b1, b2, Null>>[i])]
        = <<Closure(o, a1, b1), Closure(o, a2, b2), Null>>
  BY <1>3
<1>. QED
  BY <1>2, <1>4, Zenon DEF MathOp, Ok

(* The closures on integers are the ordinary min and max.                 *)
LEMMA ClosureInt ==
  ASSUME NEW o \in {"ZipMin", "ZipMax"}, NEW a \in Int, NEW b \in Int
  PROVE  Closure(o, a, b) = IF o = "ZipMin" THEN (IF a < b THEN a ELSE b)
                                            ELSE (IF a > b THEN a ELSE b)
<1>1. a # NaN /\ b # NaN /\ a # NegZero /\ b # NegZero
  BY ZipAssumption
<1>. QED
  BY <1>1 DEF Closure, MinOp, MaxOp, Lt, Gt, Num

(* On the arrays of both tests of min_max.rs (i32 and f32), for every     *)
(* value set, evaluate returns exactly the arrays the tests assert         *)
(* (UnitTestArrays of the zip_min_max run).                               *)
THEOREM UnitTestsCorrect == Spec => []UnitTestArrays
<1>1. IInv => UnitTestArrays
  <2> SUFFICES ASSUME IInv, NEW t \in UnitTests, result # Pending,
                      lhs = t.lhs, rhs = t.rhs
               PROVE  result = Ok(IF op = "ZipMin" THEN t.min ELSE t.max)
    BY DEF UnitTestArrays
  <2>1. result = MathOp(op, t.lhs, t.rhs) /\ op \in {"ZipMin", "ZipMax"}
    BY DEF IInv
  <2>2. CASE t = TestInt32
    <3>1. MathOp(op, t.lhs, t.rhs) = Ok(<<Closure(op, 1, 0), Closure(op, 5, 6), Null>>)
      BY <2>1, <2>2, MathOpTest DEF TestInt32
    <3>2. Closure(op, 1, 0) = (IF op = "ZipMin" THEN 0 ELSE 1)
          /\ Closure(op, 5, 6) = (IF op = "ZipMin" THEN 5 ELSE 6)
      BY <2>1, ClosureInt
    <3>. QED
      BY <2>1, <2>2, <3>1, <3>2 DEF TestInt32
  <2>3. CASE t = TestFloat32
    <3>1. MathOp(op, t.lhs, t.rhs) = Ok(<<Closure(op, 10, 5), Closure(op, -51, -50), Null>>)
      BY <2>1, <2>3, MathOpTest DEF TestFloat32
    <3>2. Closure(op, 10, 5) = (IF op = "ZipMin" THEN 5 ELSE 10)
          /\ Closure(op, -51, -50) = (IF op = "ZipMin" THEN -51 ELSE -50)
      BY <2>1, ClosureInt
    <3>. QED
      BY <2>1, <2>3, <3>1, <3>2 DEF TestFloat32
  <2>. QED
    BY <2>2, <2>3 DEF UnitTests
<1>2. QED
  BY InitIInv, NextIInv, <1>1, PTL DEF Spec

=============================================================================
