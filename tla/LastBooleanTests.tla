--------------------------- MODULE LastBooleanTests ---------------------------
(***************************************************************************)
(* The unit tests of last_boolean_evaluator.rs replayed on the evaluator   *)
(* model, and the literal `last(bool)` scenario of the spec.  Each case is *)
(* a stream of rows with the outputs its test asserts.  The driver hands   *)
(* the rows to the evaluator in every possible split into batches, with    *)
(* every admissible num_groups, so a run checks each assertion under       *)
(* batch-boundary invariance (P2) and not only for the split the test     *)
(* happens to use.                                                        *)
(***************************************************************************)
EXTENDS LastBoolean

CONSTANT Cases   \* the cases a run replays

VARIABLES
  tc,    \* the case being replayed
  fed    \* rows of the case handed to the evaluator so far

tvars == <<vars, tc, fed>>

R(e, v) == [entity |-> e, input |-> v, tick |-> Null]
RS(e, v, t) == [entity |-> e, input |-> v, tick |-> t]

(* test_boolean_last_with_no_null: one aggregate call, num_groups 3.      *)
TestNoNull ==
  [args |-> "NoWindow",
   rows |-> <<R(0, FALSE), R(1, TRUE), R(2, FALSE), R(1, TRUE), R(1, FALSE)>>,
   expected |-> <<FALSE, TRUE, FALSE, TRUE, FALSE>>]

(* test_boolean_last_with_null: two aggregate calls on one token, num_groups *)
(* 3 then 4; the second round reads values the first one stored.          *)
TestWithNull ==
  [args |-> "NoWindow",
   rows |-> <<R(0, FALSE), R(1, TRUE), R(2, Null), R(1, Null), R(1, FALSE),
              R(0, Null), R(1, Null), R(1, TRUE), R(2, TRUE), R(3, Null)>>,
   expected |-> <<FALSE, TRUE, Null, TRUE, FALSE,
                  FALSE, FALSE, TRUE, TRUE, Null>>]

(* test_boolean_last_since_with_null: two aggregate_since calls, entity 0. *)
TestSinceWithNull ==
  [args |-> "Since",
   rows |-> <<RS(0, FALSE, FALSE), RS(0, TRUE, FALSE), RS(0, Null, FALSE),
              RS(0, Null, TRUE), RS(0, FALSE, FALSE),
              RS(0, Null, FALSE), RS(0, Null, FALSE), RS(0, TRUE, FALSE),
              RS(0, TRUE, TRUE), RS(0, Null, FALSE)>>,
   expected |-> <<FALSE, TRUE, TRUE, TRUE, FALSE,
                  FALSE, FALSE, TRUE, TRUE, Null>>]

(* Scenario 1 of the spec (section 8), entities A = 0 and B = 1:           *)
(* (A,false),(B,true),(A,null),(A,null),(A,false) -> false,true,null,true,false *)
SpecScenario1 ==
  [args |-> "NoWindow",
   rows |-> <<R(0, FALSE), R(1, TRUE), R(0, Null), R(0, Null), R(0, FALSE)>>,
   expected |-> <<FALSE, TRUE, Null, TRUE, FALSE>>]

Case(i) ==
  CASE i = 1 -> TestNoNull
    [] i = 2 -> TestWithNull
    [] i = 3 -> TestSinceWithNull
    [] i = 4 -> SpecScenario1

TestInit ==
  /\ Init
  /\ tc \in Cases
  /\ args = Case(tc).args
  /\ fed = 0

(* The test calls aggregate / aggregate_since on the next rows, with a    *)
(* num_groups that covers them and never decreases.                        *)
Feed ==
  \E k \in fed + 1 .. Len(Case(tc).rows), ng \in 1 .. MaxGroups :
     LET b == SubSeq(Case(tc).rows, fed + 1, k)
     IN  /\ \A i \in DOMAIN b : b[i].entity < ng
         /\ ng >= capacity
         /\ Evaluate(ng, b)
         /\ fed' = k
         /\ UNCHANGED tc

TestNext ==
  \/ Feed
  \/ (Step \/ Return) /\ UNCHANGED <<tc, fed>>

TestSpec == TestInit /\ [][TestNext]_tvars

-----------------------------------------------------------------------------

(* Every value the evaluator has emitted is the one the test asserts at   *)
(* that row, whatever the split of the rows into batches.                 *)
UnitTestOutputs ==
  out = SubSeq(Case(tc).expected, 1, Len(out))

=============================================================================
