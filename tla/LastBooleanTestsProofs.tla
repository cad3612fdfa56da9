------------------------ MODULE LastBooleanTestsProofs ------------------------
(***************************************************************************)
(* Proofs about the replay of the unit tests of last_boolean_evaluator.rs  *)
(* (module LastBooleanTests): for every bound on num_groups and batches,  *)
(* every split of a test's rows into batches and every admissible         *)
(* num_groups, the evaluator emits what the test asserts.                  *)
(***************************************************************************)
EXTENDS LastBooleanTests, SequenceTheorems, TLAPS

(* The token after the first n rows of each unit test, entity by entity   *)
(* (entities 0 to 3; every other entry is null): Snap<c>[n + 1][e + 1].    *)
Snap1 ==
  << <<Null, Null, Null, Null>>,
     <<FALSE, Null, Null, Null>>,
     <<FALSE, TRUE, Null, Null>>,
     <<FALSE, TRUE, FALSE, Null>>,
     <<FALSE, TRUE, FALSE, Null>>,
     <<FALSE, FALSE, FALSE, Null>> >>

Snap2 ==
  << <<Null, Null, Null, Null>>,
     <<FALSE, Null, Null, Null>>,
     <<FALSE, TRUE, Null, Null>>,
     <<FALSE, TRUE, Null, Null>>,
     <<FALSE, TRUE, Null, Null>>,
     <<FALSE, FALSE, Null, Null>>,
     <<FALSE, FALSE, Null, Null>>,
     <<FALSE, FALSE, Null, Null>>,
     <<FALSE, TRUE, Null, Null>>,
     <<FALSE, TRUE, TRUE, Null>>,
     <<FALSE, TRUE, TRUE, Null>> >>

Snap3 ==
  << <<Null, Null, Null, Null>>,
     <<FALSE, Null, Null, Null>>,
     <<TRUE, Null, Null, Null>>,
     <<TRUE, Null, Null, Null>>,
     <<Null, Null, Null, Null>>,
     <<FALSE, Null, Null, Null>>,
     <<FALSE, Null, Null, Null>>,
     <<FALSE, Null, Null, Null>>,
     <<TRUE, Null, Null, Null>>,
     <<Null, Null, Null, Null>>,
     <<Null, Null, Null, Null>> >>

(* The snapshot table of case c.                                          *)
SnapOf(c) == CASE c = 1 -> Snap1 [] c = 2 -> Snap2 [] c = 3 -> Snap3

(* The entry of entity e after the first n rows of case c.                 *)
EntryAfter(c, n, e) == IF e \in 0 .. 3 THEN SnapOf(c)[n + 1][e + 1] ELSE Null

(* The row loop's update of one entry: update_accum, or update_since_accum *)
(* under Since.                                                            *)
Updated(m, x, r) ==
  IF m = "Since" THEN SinceEntry(x, r.input, r.tick) ELSE Emit(x, r.input)

(* Row r, under arguments m, takes entry j of the token s to entry j of    *)
(* the token t, and emits ex when it is the row's entity.                  *)
EntryOK(s, t, r, m, ex, j) ==
  /\ s[j] \in OptBool
  /\ t[j] = IF j = r.entity + 1 THEN Updated(m, s[j], r) ELSE s[j]
  /\ j = r.entity + 1 => Emit(s[j], r.input) = ex

(* ... for each of the four entities, and r is a row of a unit test.      *)
RowOK(s, t, r, m, ex) ==
  /\ r.entity \in 0 .. 3 /\ r.input \in OptBool /\ r.tick \in OptBool
  /\ EntryOK(s, t, r, m, ex, 1) /\ EntryOK(s, t, r, m, ex, 2)
  /\ EntryOK(s, t, r, m, ex, 3) /\ EntryOK(s, t, r, m, ex, 4)

(* Row i of case c agrees with the table: it emits the asserted value and  *)
(* turns snapshot i into snapshot i2 (= i + 1).                            *)
RowAgrees(c, i, i2) ==
  RowOK(SnapOf(c)[i], SnapOf(c)[i2], Case(c).rows[i], Case(c).args, Case(c).expected[i])

(* A row of a unit test: entity 0 to 3, optional input and tick.          *)
TestRows == [entity : 0 .. 3, input : OptBool, tick : OptBool]

(* The tables of the three cases.                                          *)
LEMMA SnapOfCases == SnapOf(1) = Snap1 /\ SnapOf(2) = Snap2 /\ SnapOf(3) = Snap3
BY DEF SnapOf

(* The arguments and the lengths of the rows and outputs of case 1.      *)
LEMMA Data1 ==
  /\ Case(1) = TestNoNull
  /\ Case(1).args = "NoWindow"
  /\ Len(TestNoNull.rows) = 5 /\ Len(TestNoNull.expected) = 5
  /\ TestNoNull.rows \in Seq(TestRows) /\ TestNoNull.expected \in Seq(OptBool)
BY NullAssumption DEF Case, TestNoNull, R, RS, TestRows, OptBool, A!OptVal

(* Every row of case 1 agrees with the table.                             *)
LEMMA Rows1 == \A n \in 0 .. 4 : RowAgrees(1, n + 1, n + 2)
<1>1. RowAgrees(1, 1, 2)
  <2>1. TestNoNull.rows[1] = [entity |-> 0, input |-> FALSE, tick |-> Null] /\ TestNoNull.expected[1] = FALSE
    BY DEF TestNoNull, R, RS
  <2>2. Snap1[1] = <<Null, Null, Null, Null>> /\ Snap1[2] = <<FALSE, Null, Null, Null>>
    BY DEF Snap1
  <2>3. RowOK(<<Null, Null, Null, Null>>, <<FALSE, Null, Null, Null>>,
              [entity |-> 0, input |-> FALSE, tick |-> Null], "NoWindow", FALSE)
    <3>. DEFINE s == <<Null, Null, Null, Null>>
                t == <<FALSE, Null, Null, Null>>
                r == [entity |-> 0, input |-> FALSE, tick |-> Null]
    <3>5. r.entity \in 0 .. 3
      OBVIOUS
    <3>6. r.input \in OptBool /\ r.tick \in OptBool
      BY Zenon DEF OptBool, A!OptVal
    <3>1. EntryOK(s, t, r, "NoWindow", FALSE, 1)
      <4>1. 1 = r.entity + 1 /\ s[1] = Null /\ t[1] = FALSE
        OBVIOUS
      <4>. QED
        BY <4>1, NullAssumption, Zenon DEF EntryOK, Updated, Emit, SinceEntry, OptBool, A!OptVal
    <3>2. EntryOK(s, t, r, "NoWindow", FALSE, 2)
      BY NullAssumption DEF EntryOK, Updated, Emit, SinceEntry, OptBool, A!OptVal
    <3>3. EntryOK(s, t, r, "NoWindow", FALSE, 3)
      BY NullAssumption DEF EntryOK, Updated, Emit, SinceEntry, OptBool, A!OptVal
    <3>4. EntryOK(s, t, r, "NoWindow", FALSE, 4)
      BY NullAssumption DEF EntryOK, Updated, Emit, SinceEntry, OptBool, A!OptVal
    <3>. QED
      BY <3>1, <3>2, <3>3, <3>4, <3>5, <3>6 DEF RowOK
  <2>. QED
    BY <2>1, <2>2, <2>3, Data1, SnapOfCases DEF RowAgrees
<1>2. RowAgrees(1, 2, 3)
  <2>1. TestNoNull.rows[2] = [entity |-> 1, input |-> TRUE, tick |-> Null] /\ TestNoNull.expected[2] = TRUE
    BY DEF TestNoNull, R, RS
  <2>2. Snap1[2] = <<FALSE, Null, Null, Null>> /\ Snap1[3] = <<FALSE, TRUE, Null, Null>>
    BY DEF Snap1
  <2>3. RowOK(<<FALSE, Null, Null, Null>>, <<FALSE, TRUE, Null, Null>>,
              [entity |-> 1, input |-> TRUE, tick |-> Null], "NoWindow", TRUE)
    <3>. DEFINE s == <<FALSE, Null, Null, Null>>
                t == <<FALSE, TRUE, Null, Null>>
                r == [entity |-> 1, input |-> TRUE, tick |-> Null]
    <3>5. r.entity \in 0 .. 3
      OBVIOUS
    <3>6. r.input \in OptBool /\ r.tick \in OptBool
      BY Zenon DEF OptBool, A!OptVal
    <3>1. EntryOK(s, t, r, "NoWindow", TRUE, 1)
      BY NullAssumption DEF EntryOK, Updated, Emit, SinceEntry, OptBool, A!OptVal
    <3>2. EntryOK(s, t, r, "NoWindow", TRUE, 2)
      <4>1. 2 = r.entity + 1 /\ s[2] = Null /\ t[2] = TRUE
        OBVIOUS
      <4>. QED
        BY <4>1, NullAssumption, Zenon DEF EntryOK, Updated, Emit, SinceEntry, OptBool, A!OptVal
    <3>3. EntryOK(s, t, r, "NoWindow", TRUE, 3)
      BY NullAssumption DEF EntryOK, Updated, Emit, SinceEntry, OptBool, A!OptVal
    <3>4. EntryOK(s, t, r, "NoWindow", TRUE, 4)
      BY NullAssumption DEF EntryOK, Updated, Emit, SinceEntry, OptBool, A!OptVal
    <3>. QED
      BY <3>1, <3>2, <3>3, <3>4, <3>5, <3>6 DEF RowOK
  <2>. QED
    BY <2>1, <2>2, <2>3, Data1, SnapOfCases DEF RowAgrees
<1>3. RowAgrees(1, 3, 4)
  <2>1. TestNoNull.rows[3] = [entity |-> 2, input |-> FALSE, tick |-> Null] /\ TestNoNull.expected[3] = FALSE
    BY DEF TestNoNull, R, RS
  <2>2. Snap1[3] = <<FALSE, TRUE, Null, Null>> /\ Snap1[4] = <<FALSE, TRUE, FALSE, Null>>
    BY DEF Snap1
  <2>3. RowOK(<<FALSE, TRUE, Null, Null>>, <<FALSE, TRUE, FALSE, Null>>,
              [entity |-> 2, input |-> FALSE, tick |-> Null], "NoWindow", FALSE)
    <3>. DEFINE s == <<FALSE, TRUE, Null, Null>>
                t == <<FALSE, TRUE, FALSE, Null>>
                r == [entity |-> 2, input |-> FALSE, tick |-> Null]
    <3>5. r.entity \in 0 .. 3
      OBVIOUS
    <3>6. r.input \in OptBool /\ r.tick \in OptBool
      BY Zenon DEF OptBool, A!OptVal
    <3>1. EntryOK(s, t, r, "NoWindow", FALSE, 1)
      BY NullAssumption DEF EntryOK, Updated, Emit, SinceEntry, OptBool, A!OptVal
    <3>2. EntryOK(s, t, r, "NoWindow", FALSE, 2)
      BY NullAssumption DEF EntryOK, Updated, Emit, SinceEntry, OptBool, A!OptVal
    <3>3. EntryOK(s, t, r, "NoWindow", FALSE, 3)
      <4>1. 3 = r.entity + 1 /\ s[3] = Null /\ t[3] = FALSE
        OBVIOUS
      <4>. QED
        BY <4>1, NullAssumption, Zenon DEF EntryOK, Updated, Emit, SinceEntry, OptBool, A!OptVal
    <3>4. EntryOK(s, t, r, "NoWindow", FALSE, 4)
      BY NullAssumption DEF EntryOK, Updated, Emit, SinceEntry, OptBool, A!OptVal
    <3>. QED
      BY <3>1, <3>2, <3>3, <3>4, <3>5, <3>6 DEF RowOK
  <2>. QED
    BY <2>1, <2>2, <2>3, Data1, SnapOfCases DEF RowAgrees
<1>4. RowAgrees(1, 4, 5)
  <2>1. TestNoNull.rows[4] = [entity |-> 1, input |-> TRUE, tick |-> Null] /\ TestNoNull.expected[4] = TRUE
    BY DEF TestNoNull, R, RS
  <2>2. Snap1[4] = <<FALSE, TRUE, FALSE, Null>> /\ Snap1[5] = <<FALSE, TRUE, FALSE, Null>>
    BY DEF Snap1
  <2>3. RowOK(<<FALSE, TRUE, FALSE, Null>>, <<FALSE, TRUE, FALSE, Null>>,
              [entity |-> 1, input |-> TRUE, tick |-> Null], "NoWindow", TRUE)
    <3>. DEFINE s == <<FALSE, TRUE, FALSE, Null>>
                t == <<FALSE, TRUE, FALSE, Null>>
                r == [entity |-> 1, input |-> TRUE, tick |-> Null]
    <3>5. r.entity \in 0 .. 3
      OBVIOUS
    <3>6. r.input \in OptBool /\ r.tick \in OptBool
      BY Zenon DEF OptBool, A!OptVal
    <3>1. EntryOK(s, t, r, "NoWindow", TRUE, 1)
      BY NullAssumption DEF EntryOK, Updated, Emit, SinceEntry, OptBool, A!OptVal
    <3>2. EntryOK(s, t, r, "NoWindow", TRUE, 2)
      <4>1. 2 = r.entity + 1 /\ s[2] = TRUE /\ t[2] = TRUE
        OBVIOUS
      <4>. QED
        BY <4>1, NullAssumption, Zenon DEF EntryOK, Updated, Emit, SinceEntry, OptBool, A!OptVal
    <3>3. EntryOK(s, t, r, "NoWindow", TRUE, 3)
      BY NullAssumption DEF EntryOK, Updated, Emit, SinceEntry, OptBool, A!OptVal
    <3>4. EntryOK(s, t, r, "NoWindow", TRUE, 4)
      BY NullAssumption DEF EntryOK, Updated, Emit, SinceEntry, OptBool, A!OptVal
    <3>. QED
      BY <3>1, <3>2, <3>3, <3>4, <3>5, <3>6 DEF RowOK
  <2>. QED
    BY <2>1, <2>2, <2>3, Data1, SnapOfCases DEF RowAgrees
<1>5. RowAgrees(1, 5, 6)
  <2>1. TestNoNull.rows[5] = [entity |-> 1, input |-> FALSE, tick |-> Null] /\ TestNoNull.expected[5] = FALSE
    BY DEF TestNoNull, R, RS
  <2>2. Snap1[5] = <<FALSE, TRUE, FALSE, Null>> /\ Snap1[6] = <<FALSE, FALSE, FALSE, Null>>
    BY DEF Snap1
  <2>3. RowOK(<<FALSE, TRUE, FALSE, Null>>, <<FALSE, FALSE, FALSE, Null>>,
              [entity |-> 1, input |-> FALSE, tick |-> Null], "NoWindow", FALSE)
    <3>. DEFINE s == <<FALSE, TRUE, FALSE, Null>>
                t == <<FALSE, FALSE, FALSE, Null>>
                r == [entity |-> 1, input |-> FALSE, tick |-> Null]
    <3>5. r.entity \in 0 .. 3
      OBVIOUS
    <3>6. r.input \in OptBool /\ r.tick \in OptBool
      BY Zenon DEF OptBool, A!OptVal
    <3>1. EntryOK(s, t, r, "NoWindow", FALSE, 1)
      BY NullAssumption DEF EntryOK, Updated, Emit, SinceEntry, OptBool, A!OptVal
    <3>2. EntryOK(s, t, r, "NoWindow", FALSE, 2)
      <4>1. 2 = r.entity + 1 /\ s[2] = TRUE /\ t[2] = FALSE
        OBVIOUS
      <4>. QED
        BY <4>1, NullAssumption, Zenon DEF EntryOK, Updated, Emit, SinceEntry, OptBool, A!OptVal
    <3>3. EntryOK(s, t, r, "NoWindow", FALSE, 3)
      BY NullAssumption DEF EntryOK, Updated, Emit, SinceEntry, OptBool, A!OptVal
    <3>4. EntryOK(s, t, r, "NoWindow", FALSE, 4)
      BY NullAssumption DEF EntryOK, Updated, Emit, SinceEntry, OptBool, A!OptVal
    <3>. QED
      BY <3>1, <3>2, <3>3, <3>4, <3>5, <3>6 DEF RowOK
  <2>. QED
    BY <2>1, <2>2, <2>3, Data1, SnapOfCases DEF RowAgrees
<1>. QED
  BY <1>1, <1>2, <1>3, <1>4, <1>5

(* The arguments and the lengths of the rows and outputs of case 2.      *)
LEMMA Data2 ==
  /\ Case(2) = TestWithNull
  /\ Case(2).args = "NoWindow"
  /\ Len(TestWithNull.rows) = 10 /\ Len(TestWithNull.expected) = 10
  /\ TestWithNull.rows \in Seq(TestRows) /\ TestWithNull.expected \in Seq(OptBool)
BY NullAssumption DEF Case, TestWithNull, R, RS, TestRows, OptBool, A!OptVal

(* Every row of case 2 agrees with the table.                             *)
LEMMA Rows2 == \A n \in 0 .. 9 : RowAgrees(2, n + 1, n + 2)
<1>1. RowAgrees(2, 1, 2)
  <2>1. TestWithNull.rows[1] = [entity |-> 0, input |-> FALSE, tick |-> Null] /\ TestWithNull.expected[1] = FALSE
    BY DEF TestWithNull, R, RS
  <2>2. Snap2[1] = <<Null, Null, Null, Null>> /\ Snap2[2] = <<FALSE, Null, Null, Null>>
    BY DEF Snap2
  <2>3. RowOK(<<Null, Null, Null, Null>>, <<FALSE, Null, Null, Null>>,
              [entity |-> 0, input |-> FALSE, tick |-> Null], "NoWindow", FALSE)
    <3>. DEFINE s == <<Null, Null, Null, Null>>
                t == <<FALSE, Null, Null, Null>>
                r == [entity |-> 0, input |-> FALSE, tick |-> Null]
    <3>5. r.entity \in 0 .. 3
      OBVIOUS
    <3>6. r.input \in OptBool /\ r.tick \in OptBool
      BY Zenon DEF OptBool, A!OptVal
    <3>1. EntryOK(s, t, r, "NoWindow", FALSE, 1)
      <4>1. 1 = r.entity + 1 /\ s[1] = Null /\ t[1] = FALSE
        OBVIOUS
      <4>. QED
        BY <4>1, NullAssumption, Zenon DEF EntryOK, Updated, Emit, SinceEntry, OptBool, A!OptVal
    <3>2. EntryOK(s, t, r, "NoWindow", FALSE, 2)
      BY NullAssumption DEF EntryOK, Updated, Emit, SinceEntry, OptBool, A!OptVal
    <3>3. EntryOK(s, t, r, "NoWindow", FALSE, 3)
      BY NullAssumption DEF EntryOK, Updated, Emit, SinceEntry, OptBool, A!OptVal
    <3>4. EntryOK(s, t, r, "NoWindow", FALSE, 4)
      BY NullAssumption DEF EntryOK, Updated, Emit, SinceEntry, OptBool, A!OptVal
    <3>. QED
      BY <3>1, <3>2, <3>3, <3>4, <3>5, <3>6 DEF RowOK
  <2>. QED
    BY <2>1, <2>2, <2>3, Data2, SnapOfCases DEF RowAgrees
<1>2. RowAgrees(2, 2, 3)
  <2>1. TestWithNull.rows[2] = [entity |-> 1, input |-> TRUE, tick |-> Null] /\ TestWithNull.expected[2] = TRUE
    BY DEF TestWithNull, R, RS
  <2>2. Snap2[2] = <<FALSE, Null, Null, Null>> /\ Snap2[3] = <<FALSE, TRUE, Null, Null>>
    BY DEF Snap2
  <2>3. RowOK(<<FALSE, Null, Null, Null>>, <<FALSE, TRUE, Null, Null>>,
              [entity |-> 1, input |-> TRUE, tick |-> Null], "NoWindow", TRUE)
    <3>. DEFINE s == <<FALSE, Null, Null, Null>>
                t == <<FALSE, TRUE, Null, Null>>
                r == [entity |-> 1, input |-> TRUE, tick |-> Null]
    <3>5. r.entity \in 0 .. 3
      OBVIOUS
    <3>6. r.input \in OptBool /\ r.tick \in OptBool
      BY Zenon DEF OptBool, A!OptVal
    <3>1. EntryOK(s, t, r, "NoWindow", TRUE, 1)
      BY NullAssumption DEF EntryOK, Updated, Emit, SinceEntry, OptBool, A!OptVal
    <3>2. EntryOK(s, t, r, "NoWindow", TRUE, 2)
      <4>1. 2 = r.entity + 1 /\ s[2] = Null /\ t[2] = TRUE
        OBVIOUS
      <4>. QED
        BY <4>1, NullAssumption, Zenon DEF EntryOK, Updated, Emit, SinceEntry, OptBool, A!OptVal
    <3>3. EntryOK(s, t, r, "NoWindow", TRUE, 3)
      BY NullAssumption DEF EntryOK, Updated, Emit, SinceEntry, OptBool, A!OptVal
    <3>4. EntryOK(s, t, r, "NoWindow", TRUE, 4)
      BY NullAssumption DEF EntryOK, Updated, Emit, SinceEntry, OptBool, A!OptVal
    <3>. QED
      BY <3>1, <3>2, <3>3, <3>4, <3>5, <3>6 DEF RowOK
  <2>. QED
    BY <2>1, <2>2, <2>3, Data2, SnapOfCases DEF RowAgrees
<1>3. RowAgrees(2, 3, 4)
  <2>1. TestWithNull.rows[3] = [entity |-> 2, input |-> Null, tick |-> Null] /\ TestWithNull.expected[3] = Null
    BY DEF TestWithNull, R, RS
  <2>2. Snap2[3] = <<FALSE, TRUE, Null, Null>> /\ Snap2[4] = <<FALSE, TRUE, Null, Null>>
    BY DEF Snap2
  <2>3. RowOK(<<FALSE, TRUE, Null, Null>>, <<FALSE, TRUE, Null, Null>>,
              [entity |-> 2, input |-> Null, tick |-> Null], "NoWindow", Null)
    <3>. DEFINE s == <<FALSE, TRUE, Null, Null>>
                t == <<FALSE, TRUE, Null, Null>>
                r == [entity |-> 2, input |-> Null, tick |-> Null]
    <3>5. r.entity \in 0 .. 3
      OBVIOUS
    <3>6. r.input \in OptBool /\ r.tick \in OptBool
      BY Zenon DEF OptBool, A!OptVal
    <3>1. EntryOK(s, t, r, "NoWindow", Null, 1)
      BY NullAssumption DEF EntryOK, Updated, Emit, SinceEntry, OptBool, A!OptVal
    <3>2. EntryOK(s, t, r, "NoWindow", Null, 2)
      BY NullAssumption DEF EntryOK, Updated, Emit, SinceEntry, OptBool, A!OptVal
    <3>3. EntryOK(s, t, r, "NoWindow", Null, 3)
      <4>1. 3 = r.entity + 1 /\ s[3] = Null /\ t[3] = Null
        OBVIOUS
      <4>. QED
        BY <4>1, NullAssumption, Zenon DEF EntryOK, Updated, Emit, SinceEntry, OptBool, A!OptVal
    <3>4. EntryOK(s, t, r, "NoWindow", Null, 4)
      BY NullAssumption DEF EntryOK, Updated, Emit, SinceEntry, OptBool, A!OptVal
    <3>. QED
      BY <3>1, <3>2, <3>3, <3>4, <3>5, <3>6 DEF RowOK
  <2>. QED
    BY <2>1, <2>2, <2>3, Data2, SnapOfCases DEF RowAgrees
<1>4. RowAgrees(2, 4, 5)
  <2>1. TestWithNull.rows[4] = [entity |-> 1, input |-> Null, tick |-> Null] /\ TestWithNull.expected[4] = TRUE
    BY DEF TestWithNull, R, RS
  <2>2. Snap2[4] = <<FALSE, TRUE, Null, Null>> /\ Snap2[5] = <<FALSE, TRUE, Null, Null>>
    BY DEF Snap2
  <2>3. RowOK(<<FALSE, TRUE, Null, Null>>, <<FALSE, TRUE, Null, Null>>,
              [entity |-> 1, input |-> Null, tick |-> Null], "NoWindow", TRUE)
    <3>. DEFINE s == <<FALSE, TRUE, Null, Null>>
                t == <<FALSE, TRUE, Null, Null>>
                r == [entity |-> 1, input |-> Null, tick |-> Null]
    <3>5. r.entity \in 0 .. 3
      OBVIOUS
    <3>6. r.input \in OptBool /\ r.tick \in OptBool
      BY Zenon DEF OptBool, A!OptVal
    <3>1. EntryOK(s, t, r, "NoWindow", TRUE, 1)
      BY NullAssumption DEF EntryOK, Updated, Emit, SinceEntry, OptBool, A!OptVal
    <3>2. EntryOK(s, t, r, "NoWindow", TRUE, 2)
      <4>1. 2 = r.entity + 1 /\ s[2] = TRUE /\ t[2] = TRUE
        OBVIOUS
      <4>. QED
        BY <4>1, NullAssumption, Zenon DEF EntryOK, Updated, Emit, SinceEntry, OptBool, A!OptVal
    <3>3. EntryOK(s, t, r, "NoWindow", TRUE, 3)
      BY NullAssumption DEF EntryOK, Updated, Emit, SinceEntry, OptBool, A!OptVal
    <3>4. EntryOK(s, t, r, "NoWindow", TRUE, 4)
      BY NullAssumption DEF EntryOK, Updated, Emit, SinceEntry, OptBool, A!OptVal
    <3>. QED
      BY <3>1, <3>2, <3>3, <3>4, <3>5, <3>6 DEF RowOK
  <2>. QED
    BY <2>1, <2>2, <2>3, Data2, SnapOfCases DEF RowAgrees
<1>5. RowAgrees(2, 5, 6)
  <2>1. TestWithNull.rows[5] = [entity |-> 1, input |-> FALSE, tick |-> Null] /\ TestWithNull.expected[5] = FALSE
    BY DEF TestWithNull, R, RS
  <2>2. Snap2[5] = <<FALSE, TRUE, Null, Null>> /\ Snap2[6] = <<FALSE, FALSE, Null, Null>>
    BY DEF Snap2
  <2>3. RowOK(<<FALSE, TRUE, Null, Null>>, <<FALSE, FALSE, Null, Null>>,
              [entity |-> 1, input |-> FALSE, tick |-> Null], "NoWindow", FALSE)
    <3>. DEFINE s == <<FALSE, TRUE, Null, Null>>
                t == <<FALSE, FALSE, Null, Null>>
                r == [entity |-> 1, input |-> FALSE, tick |-> Null]
    <3>5. r.entity \in 0 .. 3
      OBVIOUS
    <3>6. r.input \in OptBool /\ r.tick \in OptBool
      BY Zenon DEF OptBool, A!OptVal
    <3>1. EntryOK(s, t, r, "NoWindow", FALSE, 1)
      BY NullAssumption DEF EntryOK, Updated, Emit, SinceEntry, OptBool, A!OptVal
    <3>2. EntryOK(s, t, r, "NoWindow", FALSE, 2)
      <4>1. 2 = r.entity + 1 /\ s[2] = TRUE /\ t[2] = FALSE
        OBVIOUS
      <4>. QED
        BY <4>1, NullAssumption, Zenon DEF EntryOK, Updated, Emit, SinceEntry, OptBool, A!OptVal
    <3>3. EntryOK(s, t, r, "NoWindow", FALSE, 3)
      BY NullAssumption DEF EntryOK, Updated, Emit, SinceEntry, OptBool, A!OptVal
    <3>4. EntryOK(s, t, r, "NoWindow", FALSE, 4)
      BY NullAssumption DEF EntryOK, Updated, Emit, SinceEntry, OptBool, A!OptVal
    <3>. QED
      BY <3>1, <3>2, <3>3, <3>4, <3>5, <3>6 DEF RowOK
  <2>. QED
    BY <2>1, <2>2, <2>3, Data2, SnapOfCases DEF RowAgrees
<1>6. RowAgrees(2, 6, 7)
  <2>1. TestWithNull.rows[6] = [entity |-> 0, input |-> Null, tick |-> Null] /\ TestWithNull.expected[6] = FALSE
    BY DEF TestWithNull, R, RS
  <2>2. Snap2[6] = <<FALSE, FALSE, Null, Null>> /\ Snap2[7] = <<FALSE, FALSE, Null, Null>>
    BY DEF Snap2
  <2>3. RowOK(<<FALSE, FALSE, Null, Null>>, <<FALSE, FALSE, Null, Null>>,
              [entity |-> 0, input |-> Null, tick |-> Null], "NoWindow", FALSE)
    <3>. DEFINE s == <<FALSE, FALSE, Null, Null>>
                t == <<FALSE, FALSE, Null, Null>>
                r == [entity |-> 0, input |-> Null, tick |-> Null]
    <3>5. r.entity \in 0 .. 3
      OBVIOUS
    <3>6. r.input \in OptBool /\ r.tick \in OptBool
      BY Zenon DEF OptBool, A!OptVal
    <3>1. EntryOK(s, t, r, "NoWindow", FALSE, 1)
      <4>1. 1 = r.entity + 1 /\ s[1] = FALSE /\ t[1] = FALSE
        OBVIOUS
      <4>. QED
        BY <4>1, NullAssumption, Zenon DEF EntryOK, Updated, Emit, SinceEntry, OptBool, A!OptVal
    <3>2. EntryOK(s, t, r, "NoWindow", FALSE, 2)
      BY NullAssumption DEF EntryOK, Updated, Emit, SinceEntry, OptBool, A!OptVal
    <3>3. EntryOK(s, t, r, "NoWindow", FALSE, 3)
      BY NullAssumption DEF EntryOK, Updated, Emit, SinceEntry, OptBool, A!OptVal
    <3>4. EntryOK(s, t, r, "NoWindow", FALSE, 4)
      BY NullAssumption DEF EntryOK, Updated, Emit, SinceEntry, OptBool, A!OptVal
    <3>. QED
      BY <3>1, <3>2, <3>3, <3>4, <3>5, <3>6 DEF RowOK
  <2>. QED
    BY <2>1, <2>2, <2>3, Data2, SnapOfCases DEF RowAgrees
<1>7. RowAgrees(2, 7, 8)
  <2>1. TestWithNull.rows[7] = [entity |-> 1, input |-> Null, tick |-> Null] /\ TestWithNull.expected[7] = FALSE
    BY DEF TestWithNull, R, RS
  <2>2. Snap2[7] = <<FALSE, FALSE, Null, Null>> /\ Snap2[8] = <<FALSE, FALSE, Null, Null>>
    BY DEF Snap2
  <2>3. RowOK(<<FALSE, FALSE, Null, Null>>, <<FALSE, FALSE, Null, Null>>,
              [entity |-> 1, input |-> Null, tick |-> Null], "NoWindow", FALSE)
    <3>. DEFINE s == <<FALSE, FALSE, Null, Null>>
                t == <<FALSE, FALSE, Null, Null>>
                r == [entity |-> 1, input |-> Null, tick |-> Null]
    <3>5. r.entity \in 0 .. 3
      OBVIOUS
    <3>6. r.input \in OptBool /\ r.tick \in OptBool
      BY Zenon DEF OptBool, A!OptVal
    <3>1. EntryOK(s, t, r, "NoWindow", FALSE, 1)
      BY NullAssumption DEF EntryOK, Updated, Emit, SinceEntry, OptBool, A!OptVal
    <3>2. EntryOK(s, t, r, "NoWindow", FALSE, 2)
      <4>1. 2 = r.entity + 1 /\ s[2] = FALSE /\ t[2] = FALSE
        OBVIOUS
      <4>. QED
        BY <4>1, NullAssumption, Zenon DEF EntryOK, Updated, Emit, SinceEntry, OptBool, A!OptVal
    <3>3. EntryOK(s, t, r, "NoWindow", FALSE, 3)
      BY NullAssumption DEF EntryOK, Updated, Emit, SinceEntry, OptBool, A!OptVal
    <3>4. EntryOK(s, t, r, "NoWindow", FALSE, 4)
      BY NullAssumption DEF EntryOK, Updated, Emit, SinceEntry, OptBool, A!OptVal
    <3>. QED
      BY <3>1, <3>2, <3>3, <3>4, <3>5, <3>6 DEF RowOK
  <2>. QED
    BY <2>1, <2>2, <2>3, Data2, SnapOfCases DEF RowAgrees
<1>8. RowAgrees(2, 8, 9)
  <2>1. TestWithNull.rows[8] = [entity |-> 1, input |-> TRUE, tick |-> Null] /\ TestWithNull.expected[8] = TRUE
    BY DEF TestWithNull, R, RS
  <2>2. Snap2[8] = <<FALSE, FALSE, Null, Null>> /\ Snap2[9] = <<FALSE, TRUE, Null, Null>>
    BY DEF Snap2
  <2>3. RowOK(<<FALSE, FALSE, Null, Null>>, <<FALSE, TRUE, Null, Null>>,
              [entity |-> 1, input |-> TRUE, tick |-> Null], "NoWindow", TRUE)
    <3>. DEFINE s == <<FALSE, FALSE, Null, Null>>
                t == <<FALSE, TRUE, Null, Null>>
                r == [entity |-> 1, input |-> TRUE, tick |-> Null]
    <3>5. r.entity \in 0 .. 3
      OBVIOUS
    <3>6. r.input \in OptBool /\ r.tick \in OptBool
      BY Zenon DEF OptBool, A!OptVal
    <3>1. EntryOK(s, t, r, "NoWindow", TRUE, 1)
      BY NullAssumption DEF EntryOK, Updated, Emit, SinceEntry, OptBool, A!OptVal
    <3>2. EntryOK(s, t, r, "NoWindow", TRUE, 2)
      <4>1. 2 = r.entity + 1 /\ s[2] = FALSE /\ t[2] = TRUE
        OBVIOUS
      <4>. QED
        BY <4>1, NullAssumption, Zenon DEF EntryOK, Updated, Emit, SinceEntry, OptBool, A!OptVal
    <3>3. EntryOK(s, t, r, "NoWindow", TRUE, 3)
      BY NullAssumption DEF EntryOK, Updated, Emit, SinceEntry, OptBool, A!OptVal
    <3>4. EntryOK(s, t, r, "NoWindow", TRUE, 4)
      BY NullAssumption DEF EntryOK, Updated, Emit, SinceEntry, OptBool, A!OptVal
    <3>. QED
      BY <3>1, <3>2, <3>3, <3>4, <3>5, <3>6 DEF RowOK
  <2>. QED
    BY <2>1, <2>2, <2>3, Data2, SnapOfCases DEF RowAgrees
<1>9. RowAgrees(2, 9, 10)
  <2>1. TestWithNull.rows[9] = [entity |-> 2, input |-> TRUE, tick |-> Null] /\ TestWithNull.expected[9] = TRUE
    BY DEF TestWithNull, R, RS
  <2>2. Snap2[9] = <<FALSE, TRUE, Null, Null>> /\ Snap2[10] = <<FALSE, TRUE, TRUE, Null>>
    BY DEF Snap2
  <2>3. RowOK(<<FALSE, TRUE, Null, Null>>, <<FALSE, TRUE, TRUE, Null>>,
              [entity |-> 2, input |-> TRUE, tick |-> Null], "NoWindow", TRUE)
    <3>. DEFINE s == <<FALSE, TRUE, Null, Null>>
                t == <<FALSE, TRUE, TRUE, Null>>
                r == [entity |-> 2, input |-> TRUE, tick |-> Null]
    <3>5. r.entity \in 0 .. 3
      OBVIOUS
    <3>6. r.input \in OptBool /\ r.tick \in OptBool
      BY Zenon DEF OptBool, A!OptVal
    <3>1. EntryOK(s, t, r, "NoWindow", TRUE, 1)
      BY NullAssumption DEF EntryOK, Updated, Emit, SinceEntry, OptBool, A!OptVal
    <3>2. EntryOK(s, t, r, "NoWindow", TRUE, 2)
      BY NullAssumption DEF EntryOK, Updated, Emit, SinceEntry, OptBool, A!OptVal
    <3>3. EntryOK(s, t, r, "NoWindow", TRUE, 3)
      <4>1. 3 = r.entity + 1 /\ s[3] = Null /\ t[3] = TRUE
        OBVIOUS
      <4>. QED
        BY <4>1, NullAssumption, Zenon DEF EntryOK, Updated, Emit, SinceEntry, OptBool, A!OptVal
    <3>4. EntryOK(s, t, r, "NoWindow", TRUE, 4)
      BY NullAssumption DEF EntryOK, Updated, Emit, SinceEntry, OptBool, A!OptVal
    <3>. QED
      BY <3>1, <3>2, <3>3, <3>4, <3>5, <3>6 DEF RowOK
  <2>. QED
    BY <2>1, <2>2, <2>3, Data2, SnapOfCases DEF RowAgrees
<1>10. RowAgrees(2, 10, 11)
  <2>1. TestWithNull.rows[10] = [entity |-> 3, input |-> Null, tick |-> Null] /\ TestWithNull.expected[10] = Null
    BY DEF TestWithNull, R, RS
  <2>2. Snap2[10] = <<FALSE, TRUE, TRUE, Null>> /\ Snap2[11] = <<FALSE, TRUE, TRUE, Null>>
    BY DEF Snap2
  <2>3. RowOK(<<FALSE, TRUE, TRUE, Null>>, <<FALSE, TRUE, TRUE, Null>>,
              [entity |-> 3, input |-> Null, tick |-> Null], "NoWindow", Null)
    <3>. DEFINE s == <<FALSE, TRUE, TRUE, Null>>
                t == <<FALSE, TRUE, TRUE, Null>>
                r == [entity |-> 3, input |-> Null, tick |-> Null]
    <3>5. r.entity \in 0 .. 3
      OBVIOUS
    <3>6. r.input \in OptBool /\ r.tick \in OptBool
      BY Zenon DEF OptBool, A!OptVal
    <3>1. EntryOK(s, t, r, "NoWindow", Null, 1)
      BY NullAssumption DEF EntryOK, Updated, Emit, SinceEntry, OptBool, A!OptVal
    <3>2. EntryOK(s, t, r, "NoWindow", Null, 2)
      BY NullAssumption DEF EntryOK, Updated, Emit, SinceEntry, OptBool, A!OptVal
    <3>3. EntryOK(s, t, r, "NoWindow", Null, 3)
      BY NullAssumption DEF EntryOK, Updated, Emit, SinceEntry, OptBool, A!OptVal
    <3>4. EntryOK(s, t, r, "NoWindow", Null, 4)
      <4>1. 4 = r.entity + 1 /\ s[4] = Null /\ t[4] = Null
        OBVIOUS
      <4>. QED
        BY <4>1, NullAssumption, Zenon DEF EntryOK, Updated, Emit, SinceEntry, OptBool, A!OptVal
    <3>. QED
      BY <3>1, <3>2, <3>3, <3>4, <3>5, <3>6 DEF RowOK
  <2>. QED
    BY <2>1, <2>2, <2>3, Data2, SnapOfCases DEF RowAgrees
<1>. QED
  BY <1>1, <1>2, <1>3, <1>4, <1>5, <1>6, <1>7, <1>8, <1>9, <1>10

(* The arguments and the lengths of the rows and outputs of case 3.      *)
LEMMA Data3 ==
  /\ Case(3) = TestSinceWithNull
  /\ Case(3).args = "Since"
  /\ Len(TestSinceWithNull.rows) = 10 /\ Len(TestSinceWithNull.expected) = 10
  /\ TestSinceWithNull.rows \in Seq(TestRows) /\ TestSinceWithNull.expected \in Seq(OptBool)
BY NullAssumption DEF Case, TestSinceWithNull, R, RS, TestRows, OptBool, A!OptVal

(* Every row of case 3 agrees with the table.                             *)
LEMMA Rows3 == \A n \in 0 .. 9 : RowAgrees(3, n + 1, n + 2)
<1>1. RowAgrees(3, 1, 2)
  <2>1. TestSinceWithNull.rows[1] = [entity |-> 0, input |-> FALSE, tick |-> FALSE] /\ TestSinceWithNull.expected[1] = FALSE
    BY DEF TestSinceWithNull, R, RS
  <2>2. Snap3[1] = <<Null, Null, Null, Null>> /\ Snap3[2] = <<FALSE, Null, Null, Null>>
    BY DEF Snap3
  <2>3. RowOK(<<Null, Null, Null, Null>>, <<FALSE, Null, Null, Null>>,
              [entity |-> 0, input |-> FALSE, tick |-> FALSE], "Since", FALSE)
    <3>. DEFINE s == <<Null, Null, Null, Null>>
                t == <<FALSE, Null, Null, Null>>
                r == [entity |-> 0, input |-> FALSE, tick |-> FALSE]
    <3>5. r.entity \in 0 .. 3
      OBVIOUS
    <3>6. r.input \in OptBool /\ r.tick \in OptBool
      BY Zenon DEF OptBool, A!OptVal
    <3>1. EntryOK(s, t, r, "Since", FALSE, 1)
      <4>1. 1 = r.entity + 1 /\ s[1] = Null /\ t[1] = FALSE
        OBVIOUS
      <4>. QED
        BY <4>1, NullAssumption, Zenon DEF EntryOK, Updated, Emit, SinceEntry, OptBool, A!OptVal
    <3>2. EntryOK(s, t, r, "Since", FALSE, 2)
      BY NullAssumption DEF EntryOK, Updated, Emit, SinceEntry, OptBool, A!OptVal
    <3>3. EntryOK(s, t, r, "Since", FALSE, 3)
      BY NullAssumption DEF EntryOK, Updated, Emit, SinceEntry, OptBool, A!OptVal
    <3>4. EntryOK(s, t, r, "Since", FALSE, 4)
      BY NullAssumption DEF EntryOK, Updated, Emit, SinceEntry, OptBool, A!OptVal
    <3>. QED
      BY <3>1, <3>2, <3>3, <3>4, <3>5, <3>6 DEF RowOK
  <2>. QED
    BY <2>1, <2>2, <2>3, Data3, SnapOfCases DEF RowAgrees
<1>2. RowAgrees(3, 2, 3)
  <2>1. TestSinceWithNull.rows[2] = [entity |-> 0, input |-> TRUE, tick |-> FALSE] /\ TestSinceWithNull.expected[2] = TRUE
    BY DEF TestSinceWithNull, R, RS
  <2>2. Snap3[2] = <<FALSE, Null, Null, Null>> /\ Snap3[3] = <<TRUE, Null, Null, Null>>
    BY DEF Snap3
  <2>3. RowOK(<<FALSE, Null, Null, Null>>, <<TRUE, Null, Null, Null>>,
              [entity |-> 0, input |-> TRUE, tick |-> FALSE], "Since", TRUE)
    <3>. DEFINE s == <<FALSE, Null, Null, Null>>
                t == <<TRUE, Null, Null, Null>>
                r == [entity |-> 0, input |-> TRUE, tick |-> FALSE]
    <3>5. r.entity \in 0 .. 3
      OBVIOUS
    <3>6. r.input \in OptBool /\ r.tick \in OptBool
      BY Zenon DEF OptBool, A!OptVal
    <3>1. EntryOK(s, t, r, "Since", TRUE, 1)
      <4>1. 1 = r.entity + 1 /\ s[1] = FALSE /\ t[1] = TRUE
        OBVIOUS
      <4>. QED
        BY <4>1, NullAssumption, Zenon DEF EntryOK, Updated, Emit, SinceEntry, OptBool, A!OptVal
    <3>2. EntryOK(s, t, r, "Since", TRUE, 2)
      BY NullAssumption DEF EntryOK, Updated, Emit, SinceEntry, OptBool, A!OptVal
    <3>3. EntryOK(s, t, r, "Since", TRUE, 3)
      BY NullAssumption DEF EntryOK, Updated, Emit, SinceEntry, OptBool, A!OptVal
    <3>4. EntryOK(s, t, r, "Since", TRUE, 4)
      BY NullAssumption DEF EntryOK, Updated, Emit, SinceEntry, OptBool, A!OptVal
    <3>. QED
      BY <3>1, <3>2, <3>3, <3>4, <3>5, <3>6 DEF RowOK
  <2>. QED
    BY <2>1, <2>2, <2>3, Data3, SnapOfCases DEF RowAgrees
<1>3. RowAgrees(3, 3, 4)
  <2>1. TestSinceWithNull.rows[3] = [entity |-> 0, input |-> Null, tick |-> FALSE] /\ TestSinceWithNull.expected[3] = TRUE
    BY DEF TestSinceWithNull, R, RS
  <2>2. Snap3[3] = <<TRUE, Null, Null, Null>> /\ Snap3[4] = <<TRUE, Null, Null, Null>>
    BY DEF Snap3
  <2>3. RowOK(<<TRUE, Null, Null, Null>>, <<TRUE, Null, Null, Null>>,
              [entity |-> 0, input |-> Null, tick |-> FALSE], "Since", TRUE)
    <3>. DEFINE s == <<TRUE, Null, Null, Null>>
                t == <<TRUE, Null, Null, Null>>
                r == [entity |-> 0, input |-> Null, tick |-> FALSE]
    <3>5. r.entity \in 0 .. 3
      OBVIOUS
    <3>6. r.input \in OptBool /\ r.tick \in OptBool
      BY Zenon DEF OptBool, A!OptVal
    <3>1. EntryOK(s, t, r, "Since", TRUE, 1)
      <4>1. 1 = r.entity + 1 /\ s[1] = TRUE /\ t[1] = TRUE
        OBVIOUS
      <4>. QED
        BY <4>1, NullAssumption, Zenon DEF EntryOK, Updated, Emit, SinceEntry, OptBool, A!OptVal
    <3>2. EntryOK(s, t, r, "Since", TRUE, 2)
      BY NullAssumption DEF EntryOK, Updated, Emit, SinceEntry, OptBool, A!OptVal
    <3>3. EntryOK(s, t, r, "Since", TRUE, 3)
      BY NullAssumption DEF EntryOK, Updated, Emit, SinceEntry, OptBool, A!OptVal
    <3>4. EntryOK(s, t, r, "Since", TRUE, 4)
      BY NullAssumption DEF EntryOK, Updated, Emit, SinceEntry, OptBool, A!OptVal
    <3>. QED
      BY <3>1, <3>2, <3>3, <3>4, <3>5, <3>6 DEF RowOK
  <2>. QED
    BY <2>1, <2>2, <2>3, Data3, SnapOfCases DEF RowAgrees
<1>4. RowAgrees(3, 4, 5)
  <2>1. TestSinceWithNull.rows[4] = [entity |-> 0, input |-> Null, tick |-> TRUE] /\ TestSinceWithNull.expected[4] = TRUE
    BY DEF TestSinceWithNull, R, RS
  <2>2. Snap3[4] = <<TRUE, Null, Null, Null>> /\ Snap3[5] = <<Null, Null, Null, Null>>
    BY DEF Snap3
  <2>3. RowOK(<<TRUE, Null, Null, Null>>, <<Null, Null, Null, Null>>,
              [entity |-> 0, input |-> Null, tick |-> TRUE], "Since", TRUE)
    <3>. DEFINE s == <<TRUE, Null, Null, Null>>
                t == <<Null, Null, Null, Null>>
                r == [entity |-> 0, input |-> Null, tick |-> TRUE]
    <3>5. r.entity \in 0 .. 3
      OBVIOUS
    <3>6. r.input \in OptBool /\ r.tick \in OptBool
      BY Zenon DEF OptBool, A!OptVal
    <3>1. EntryOK(s, t, r, "Since", TRUE, 1)
      <4>1. 1 = r.entity + 1 /\ s[1] = TRUE /\ t[1] = Null
        OBVIOUS
      <4>. QED
        BY <4>1, NullAssumption, Zenon DEF EntryOK, Updated, Emit, SinceEntry, OptBool, A!OptVal
    <3>2. EntryOK(s, t, r, "Since", TRUE, 2)
      BY NullAssumption DEF EntryOK, Updated, Emit, SinceEntry, OptBool, A!OptVal
    <3>3. EntryOK(s, t, r, "Since", TRUE, 3)
      BY NullAssumption DEF EntryOK, Updated, Emit, SinceEntry, OptBool, A!OptVal
    <3>4. EntryOK(s, t, r, "Since", TRUE, 4)
      BY NullAssumption DEF EntryOK, Updated, Emit, SinceEntry, OptBool, A!OptVal
    <3>. QED
      BY <3>1, <3>2, <3>3, <3>4, <3>5, <3>6 DEF RowOK
  <2>. QED
    BY <2>1, <2>2, <2>3, Data3, SnapOfCases DEF RowAgrees
<1>5. RowAgrees(3, 5, 6)
  <2>1. TestSinceWithNull.rows[5] = [entity |-> 0, input |-> FALSE, tick |-> FALSE] /\ TestSinceWithNull.expected[5] = FALSE
    BY DEF TestSinceWithNull, R, RS
  <2>2. Snap3[5] = <<Null, Null, Null, Null>> /\ Snap3[6] = <<FALSE, Null, Null, Null>>
    BY DEF Snap3
  <2>3. RowOK(<<Null, Null, Null, Null>>, <<FALSE, Null, Null, Null>>,
              [entity |-> 0, input |-> FALSE, tick |-> FALSE], "Since", FALSE)
    <3>. DEFINE s == <<Null, Null, Null, Null>>
                t == <<FALSE, Null, Null, Null>>
                r == [entity |-> 0, input |-> FALSE, tick |-> FALSE]
    <3>5. r.entity \in 0 .. 3
      OBVIOUS
    <3>6. r.input \in OptBool /\ r.tick \in OptBool
      BY Zenon DEF OptBool, A!OptVal
    <3>1. EntryOK(s, t, r, "Since", FALSE, 1)
      <4>1. 1 = r.entity + 1 /\ s[1] = Null /\ t[1] = FALSE
        OBVIOUS
      <4>. QED
        BY <4>1, NullAssumption, Zenon DEF EntryOK, Updated, Emit, SinceEntry, OptBool, A!OptVal
    <3>2. EntryOK(s, t, r, "Since", FALSE, 2)
      BY NullAssumption DEF EntryOK, Updated, Emit, SinceEntry, OptBool, A!OptVal
    <3>3. EntryOK(s, t, r, "Since", FALSE, 3)
      BY NullAssumption DEF EntryOK, Updated, Emit, SinceEntry, OptBool, A!OptVal
    <3>4. EntryOK(s, t, r, "Since", FALSE, 4)
      BY NullAssumption DEF EntryOK, Updated, Emit, SinceEntry, OptBool, A!OptVal
    <3>. QED
      BY <3>1, <3>2, <3>3, <3>4, <3>5, <3>6 DEF RowOK
  <2>. QED
    BY <2>1, <2>2, <2>3, Data3, SnapOfCases DEF RowAgrees
<1>6. RowAgrees(3, 6, 7)
  <2>1. TestSinceWithNull.rows[6] = [entity |-> 0, input |-> Null, tick |-> FALSE] /\ TestSinceWithNull.expected[6] = FALSE
    BY DEF TestSinceWithNull, R, RS
  <2>2. Snap3[6] = <<FALSE, Null, Null, Null>> /\ Snap3[7] = <<FALSE, Null, Null, Null>>
    BY DEF Snap3
  <2>3. RowOK(<<FALSE, Null, Null, Null>>, <<FALSE, Null, Null, Null>>,
              [entity |-> 0, input |-> Null, tick |-> FALSE], "Since", FALSE)
    <3>. DEFINE s == <<FALSE, Null, Null, Null>>
                t == <<FALSE, Null, Null, Null>>
                r == [entity |-> 0, input |-> Null, tick |-> FALSE]
    <3>5. r.entity \in 0 .. 3
      OBVIOUS
    <3>6. r.input \in OptBool /\ r.tick \in OptBool
      BY Zenon DEF OptBool, A!OptVal
    <3>1. EntryOK(s, t, r, "Since", FALSE, 1)
      <4>1. 1 = r.entity + 1 /\ s[1] = FALSE /\ t[1] = FALSE
        OBVIOUS
      <4>. QED
        BY <4>1, NullAssumption, Zenon DEF EntryOK, Updated, Emit, SinceEntry, OptBool, A!OptVal
    <3>2. EntryOK(s, t, r, "Since", FALSE, 2)
      BY NullAssumption DEF EntryOK, Updated, Emit, SinceEntry, OptBool, A!OptVal
    <3>3. EntryOK(s, t, r, "Since", FALSE, 3)
      BY NullAssumption DEF EntryOK, Updated, Emit, SinceEntry, OptBool, A!OptVal
    <3>4. EntryOK(s, t, r, "Since", FALSE, 4)
      BY NullAssumption DEF EntryOK, Updated, Emit, SinceEntry, OptBool, A!OptVal
    <3>. QED
      BY <3>1, <3>2, <3>3, <3>4, <3>5, <3>6 DEF RowOK
  <2>. QED
    BY <2>1, <2>2, <2>3, Data3, SnapOfCases DEF RowAgrees
<1>7. RowAgrees(3, 7, 8)
  <2>1. TestSinceWithNull.rows[7] = [entity |-> 0, input |-> Null, tick |-> FALSE] /\ TestSinceWithNull.expected[7] = FALSE
    BY DEF TestSinceWithNull, R, RS
  <2>2. Snap3[7] = <<FALSE, Null, Null, Null>> /\ Snap3[8] = <<FALSE, Null, Null, Null>>
    BY DEF Snap3
  <2>3. RowOK(<<FALSE, Null, Null, Null>>, <<FALSE, Null, Null, Null>>,
              [entity |-> 0, input |-> Null, tick |-> FALSE], "Since", FALSE)
    <3>. DEFINE s == <<FALSE, Null, Null, Null>>
                t == <<FALSE, Null, Null, Null>>
                r == [entity |-> 0, input |-> Null, tick |-> FALSE]
    <3>5. r.entity \in 0 .. 3
      OBVIOUS
    <3>6. r.input \in OptBool /\ r.tick \in OptBool
      BY Zenon DEF OptBool, A!OptVal
    <3>1. EntryOK(s, t, r, "Since", FALSE, 1)
      <4>1. 1 = r.entity + 1 /\ s[1] = FALSE /\ t[1] = FALSE
        OBVIOUS
      <4>. QED
        BY <4>1, NullAssumption, Zenon DEF EntryOK, Updated, Emit, SinceEntry, OptBool, A!OptVal
    <3>2. EntryOK(s, t, r, "Since", FALSE, 2)
      BY NullAssumption DEF EntryOK, Updated, Emit, SinceEntry, OptBool, A!OptVal
    <3>3. EntryOK(s, t, r, "Since", FALSE, 3)
      BY NullAssumption DEF EntryOK, Updated, Emit, SinceEntry, OptBool, A!OptVal
    <3>4. EntryOK(s, t, r, "Since", FALSE, 4)
      BY NullAssumption DEF EntryOK, Updated, Emit, SinceEntry, OptBool, A!OptVal
    <3>. QED
      BY <3>1, <3>2, <3>3, <3>4, <3>5, <3>6 DEF RowOK
  <2>. QED
    BY <2>1, <2>2, <2>3, Data3, SnapOfCases DEF RowAgrees
<1>8. RowAgrees(3, 8, 9)
  <2>1. TestSinceWithNull.rows[8] = [entity |-> 0, input |-> TRUE, tick |-> FALSE] /\ TestSinceWithNull.expected[8] = TRUE
    BY DEF TestSinceWithNull, R, RS
  <2>2. Snap3[8] = <<FALSE, Null, Null, Null>> /\ Snap3[9] = <<TRUE, Null, Null, Null>>
    BY DEF Snap3
  <2>3. RowOK(<<FALSE, Null, Null, Null>>, <<TRUE, Null, Null, Null>>,
              [entity |-> 0, input |-> TRUE, tick |-> FALSE], "Since", TRUE)
    <3>. DEFINE s == <<FALSE, Null, Null, Null>>
                t == <<TRUE, Null, Null, Null>>
                r == [entity |-> 0, input |-> TRUE, tick |-> FALSE]
    <3>5. r.entity \in 0 .. 3
      OBVIOUS
    <3>6. r.input \in OptBool /\ r.tick \in OptBool
      BY Zenon DEF OptBool, A!OptVal
    <3>1. EntryOK(s, t, r, "Since", TRUE, 1)
      <4>1. 1 = r.entity + 1 /\ s[1] = FALSE /\ t[1] = TRUE
        OBVIOUS
      <4>. QED
        BY <4>1, NullAssumption, Zenon DEF EntryOK, Updated, Emit, SinceEntry, OptBool, A!OptVal
    <3>2. EntryOK(s, t, r, "Since", TRUE, 2)
      BY NullAssumption DEF EntryOK, Updated, Emit, SinceEntry, OptBool, A!OptVal
    <3>3. EntryOK(s, t, r, "Since", TRUE, 3)
      BY NullAssumption DEF EntryOK, Updated, Emit, SinceEntry, OptBool, A!OptVal
    <3>4. EntryOK(s, t, r, "Since", TRUE, 4)
      BY NullAssumption DEF EntryOK, Updated, Emit, SinceEntry, OptBool, A!OptVal
    <3>. QED
      BY <3>1, <3>2, <3>3, <3>4, <3>5, <3>6 DEF RowOK
  <2>. QED
    BY <2>1, <2>2, <2>3, Data3, SnapOfCases DEF RowAgrees
<1>9. RowAgrees(3, 9, 10)
  <2>1. TestSinceWithNull.rows[9] = [entity |-> 0, input |-> TRUE, tick |-> TRUE] /\ TestSinceWithNull.expected[9] = TRUE
    BY DEF TestSinceWithNull, R, RS
  <2>2. Snap3[9] = <<TRUE, Null, Null, Null>> /\ Snap3[10] = <<Null, Null, Null, Null>>
    BY DEF Snap3
  <2>3. RowOK(<<TRUE, Null, Null, Null>>, <<Null, Null, Null, Null>>,
              [entity |-> 0, input |-> TRUE, tick |-> TRUE], "Since", TRUE)
    <3>. DEFINE s == <<TRUE, Null, Null, Null>>
                t == <<Null, Null, Null, Null>>
                r == [entity |-> 0, input |-> TRUE, tick |-> TRUE]
    <3>5. r.entity \in 0 .. 3
      OBVIOUS
    <3>6. r.input \in OptBool /\ r.tick \in OptBool
      BY Zenon DEF OptBool, A!OptVal
    <3>1. EntryOK(s, t, r, "Since", TRUE, 1)
      <4>1. 1 = r.entity + 1 /\ s[1] = TRUE /\ t[1] = Null
        OBVIOUS
      <4>. QED
        BY <4>1, NullAssumption, Zenon DEF EntryOK, Updated, Emit, SinceEntry, OptBool, A!OptVal
    <3>2. EntryOK(s, t, r, "Since", TRUE, 2)
      BY NullAssumption DEF EntryOK, Updated, Emit, SinceEntry, OptBool, A!OptVal
    <3>3. EntryOK(s, t, r, "Since", TRUE, 3)
      BY NullAssumption DEF EntryOK, Updated, Emit, SinceEntry, OptBool, A!OptVal
    <3>4. EntryOK(s, t, r, "Since", TRUE, 4)
      BY NullAssumption DEF EntryOK, Updated, Emit, SinceEntry, OptBool, A!OptVal
    <3>. QED
      BY <3>1, <3>2, <3>3, <3>4, <3>5, <3>6 DEF RowOK
  <2>. QED
    BY <2>1, <2>2, <2>3, Data3, SnapOfCases DEF RowAgrees
<1>10. RowAgrees(3, 10, 11)
  <2>1. TestSinceWithNull.rows[10] = [entity |-> 0, input |-> Null, tick |-> FALSE] /\ TestSinceWithNull.expected[10] = Null
    BY DEF TestSinceWithNull, R, RS
  <2>2. Snap3[10] = <<Null, Null, Null, Null>> /\ Snap3[11] = <<Null, Null, Null, Null>>
    BY DEF Snap3
  <2>3. RowOK(<<Null, Null, Null, Null>>, <<Null, Null, Null, Null>>,
              [entity |-> 0, input |-> Null, tick |-> FALSE], "Since", Null)
    <3>. DEFINE s == <<Null, Null, Null, Null>>
                t == <<Null, Null, Null, Null>>
                r == [entity |-> 0, input |-> Null, tick |-> FALSE]
    <3>5. r.entity \in 0 .. 3
      OBVIOUS
    <3>6. r.input \in OptBool /\ r.tick \in OptBool
      BY Zenon DEF OptBool, A!OptVal
    <3>1. EntryOK(s, t, r, "Since", Null, 1)
      <4>1. 1 = r.entity + 1 /\ s[1] = Null /\ t[1] = Null
        OBVIOUS
      <4>. QED
        BY <4>1, NullAssumption, Zenon DEF EntryOK, Updated, Emit, SinceEntry, OptBool, A!OptVal
    <3>2. EntryOK(s, t, r, "Since", Null, 2)
      BY NullAssumption DEF EntryOK, Updated, Emit, SinceEntry, OptBool, A!OptVal
    <3>3. EntryOK(s, t, r, "Since", Null, 3)
      BY NullAssumption DEF EntryOK, Updated, Emit, SinceEntry, OptBool, A!OptVal
    <3>4. EntryOK(s, t, r, "Since", Null, 4)
      BY NullAssumption DEF EntryOK, Updated, Emit, SinceEntry, OptBool, A!OptVal
    <3>. QED
      BY <3>1, <3>2, <3>3, <3>4, <3>5, <3>6 DEF RowOK
  <2>. QED
    BY <2>1, <2>2, <2>3, Data3, SnapOfCases DEF RowAgrees
<1>. QED
  BY <1>1, <1>2, <1>3, <1>4, <1>5, <1>6, <1>7, <1>8, <1>9, <1>10

(* What the proof uses of a case: its rows and outputs are sequences of   *)
(* one length, every row agrees with the table, and the token starts null. *)
CaseProps(c) ==
  /\ Case(c).rows \in Seq(TestRows)
  /\ Case(c).expected \in Seq(OptBool)
  /\ Len(Case(c).expected) = Len(Case(c).rows)
  /\ Case(c).args \in {"NoWindow", "Since"}
  /\ \A n \in 0 .. Len(Case(c).rows) - 1 : RowAgrees(c, n + 1, n + 2)
  /\ \A e \in Nat : EntryAfter(c, 0, e) = Null

(* What the proof uses of the three cases: their rows and outputs are     *)
(* sequences of one length, every row agrees with the table, and the      *)
(* token starts null.                                                      *)
LEMMA CaseFacts ==
  ASSUME NEW c \in {1, 2, 3}
  PROVE  /\ Case(c).rows \in Seq(TestRows)
         /\ Case(c).expected \in Seq(OptBool)
         /\ Len(Case(c).expected) = Len(Case(c).rows)
         /\ Case(c).args \in {"NoWindow", "Since"}
         /\ \A n \in 0 .. Len(Case(c).rows) - 1 : RowAgrees(c, n + 1, n + 2)
         /\ \A e \in Nat : EntryAfter(c, 0, e) = Null
<1>1. \A e \in 0 .. 3 :
        Snap1[1][e + 1] = Null /\ Snap2[1][e + 1] = Null /\ Snap3[1][e + 1] = Null
  BY DEF Snap1, Snap2, Snap3
<1>2. \A e \in Nat : EntryAfter(c, 0, e) = Null
  BY <1>1, SnapOfCases DEF EntryAfter
<1>3. CASE c = 1
  <2>1. Case(c) = TestNoNull /\ Case(c).args = "NoWindow"
    BY <1>3, Data1
  <2>2. Len(Case(c).rows) - 1 = 4
    BY <2>1, Data1
  <2>3. \A n \in 0 .. Len(Case(c).rows) - 1 : RowAgrees(c, n + 1, n + 2)
    BY <1>3, <2>2, Rows1, Zenon
  <2>. QED
    BY <1>2, <2>1, <2>3, Data1
<1>4. CASE c = 2
  <2>1. Case(c) = TestWithNull /\ Case(c).args = "NoWindow"
    BY <1>4, Data2
  <2>2. Len(Case(c).rows) - 1 = 9
    BY <2>1, Data2
  <2>3. \A n \in 0 .. Len(Case(c).rows) - 1 : RowAgrees(c, n + 1, n + 2)
    BY <1>4, <2>2, Rows2, Zenon
  <2>. QED
    BY <1>2, <2>1, <2>3, Data2
<1>5. CASE c = 3
  <2>1. Case(c) = TestSinceWithNull /\ Case(c).args = "Since"
    BY <1>5, Data3
  <2>2. Len(Case(c).rows) - 1 = 9
    BY <2>1, Data3
  <2>3. \A n \in 0 .. Len(Case(c).rows) - 1 : RowAgrees(c, n + 1, n + 2)
    BY <1>5, <2>2, Rows3, Zenon
  <2>. QED
    BY <1>2, <2>1, <2>3, Data3
<1>. QED
  BY <1>3, <1>4, <1>5

(* CaseFacts, for every case at once.                                       *)
LEMMA CaseFactsAll == \A c \in {1, 2, 3} : CaseProps(c)
BY CaseFacts DEF CaseProps

(* One row of the row loop on the table: row n + 1 has an entity below 4, *)
(* emits the asserted value from the entry of snapshot n, and updates     *)
(* that entry alone.                                                       *)
LEMMA StepEntry ==
  ASSUME NEW c \in {1, 2, 3}, NEW n \in 0 .. Len(Case(c).rows) - 1
  PROVE  LET r == Case(c).rows[n + 1]
         IN  /\ r.entity \in 0 .. 3 /\ r.input \in OptBool /\ r.tick \in OptBool
             /\ Emit(EntryAfter(c, n, r.entity), r.input) = Case(c).expected[n + 1]
             /\ \A e \in Nat : EntryAfter(c, n, e) \in OptBool
             /\ \A e \in Nat :
                  EntryAfter(c, n + 1, e) =
                    IF e = r.entity THEN Updated(Case(c).args, EntryAfter(c, n, e), r)
                    ELSE EntryAfter(c, n, e)
<1>. DEFINE r == Case(c).rows[n + 1]
            s == SnapOf(c)[n + 1]
            t == SnapOf(c)[n + 2]
            m == Case(c).args
            ex == Case(c).expected[n + 1]
<1>0. \A k \in 0 .. Len(Case(c).rows) - 1 : RowAgrees(c, k + 1, k + 2)
  BY CaseFacts
<1>1. RowOK(s, t, r, m, ex)
  <2>1. RowAgrees(c, n + 1, n + 2)
    BY <1>0
  <2>. QED
    BY <2>1 DEF RowAgrees
<1>2. r.entity \in 0 .. 3 /\ r.input \in OptBool /\ r.tick \in OptBool
  BY <1>1 DEF RowOK
<1>3. \A e \in 0 .. 3 : EntryOK(s, t, r, m, ex, e + 1)
  BY <1>1 DEF RowOK
<1>4. \A e \in Nat :
        /\ EntryAfter(c, n, e) = IF e \in 0 .. 3 THEN s[e + 1] ELSE Null
        /\ EntryAfter(c, n + 1, e) = IF e \in 0 .. 3 THEN t[e + 1] ELSE Null
  BY DEF EntryAfter
<1>5. Emit(EntryAfter(c, n, r.entity), r.input) = ex
  BY <1>2, <1>3, <1>4 DEF EntryOK
<1>6. \A e \in Nat : EntryAfter(c, n, e) \in OptBool
  BY <1>3, <1>4 DEF EntryOK, OptBool, A!OptVal
<1>7. ASSUME NEW e \in Nat
      PROVE  EntryAfter(c, n + 1, e) =
               IF e = r.entity THEN Updated(m, EntryAfter(c, n, e), r)
               ELSE EntryAfter(c, n, e)
  <2>1. CASE e \in 0 .. 3
    <3>1. EntryOK(s, t, r, m, ex, e + 1)
      BY <2>1, <1>3
    <3>2. EntryAfter(c, n, e) = s[e + 1] /\ EntryAfter(c, n + 1, e) = t[e + 1]
      BY <2>1, <1>4
    <3>3. (e + 1 = r.entity + 1) <=> (e = r.entity)
      BY <1>2
    <3>. QED
      BY <3>1, <3>2, <3>3, Zenon DEF EntryOK
  <2>2. CASE e \notin 0 .. 3
    BY <2>2, <1>2, <1>4
  <2>. QED
    BY <2>1, <2>2
<1>. QED
  BY <1>2, <1>5, <1>6, <1>7

(* The row loop's two updates are the table's update under the case's     *)
(* arguments.                                                              *)
LEMMA UpdatedIsUpdate ==
  ASSUME NEW x, NEW r
  PROVE  /\ Updated("NoWindow", x, r) = Emit(x, r.input)
         /\ Updated("Since", x, r) = SinceEntry(x, r.input, r.tick)
BY DEF Updated

(* The update keeps an entry an optional Boolean.                          *)
LEMMA UpdatedType ==
  ASSUME NEW m, NEW x \in OptBool, NEW r, r.input \in OptBool
  PROVE  Updated(m, x, r) \in OptBool
BY NullAssumption DEF Updated, Emit, SinceEntry, OptBool, A!OptVal

(* The inductive invariant: the rows fed so far are a prefix of the case's *)
(* rows and each has an entity below the capacity; the batch being run is  *)
(* the last Len(batch) of them, and the loop has emitted, for every row    *)
(* before pos, what the test asserts; the token is the table's snapshot   *)
(* after the rows emitted, and null past the capacity.                     *)
TInv ==
  LET rows == Case(tc).rows
      n == Len(out)
  IN
  /\ tc \in {1, 2, 3}
  /\ args = Case(tc).args
  /\ fed \in 0 .. Len(rows)
  /\ capacity \in 0 .. MaxGroups
  /\ phase \in {"Idle", "Running"}
  /\ out \in Seq(OptBool)
  /\ n <= fed
  /\ \A i \in 1 .. n : out[i] = Case(tc).expected[i]
  /\ token \in [Entities -> OptBool]
  /\ \A e \in Entities : token[e] = EntryAfter(tc, n, e)
  /\ \A e \in Entities : e >= capacity => token[e] = Null
  /\ \A i \in 1 .. fed : rows[i].entity < capacity
  /\ phase = "Idle" => n = fed
  /\ phase = "Running" =>
       /\ batch \in Seq(TestRows)
       /\ Len(batch) <= fed
       /\ \A i \in 1 .. Len(batch) : batch[i] = rows[fed - Len(batch) + i]
       /\ pos \in 1 .. Len(batch) + 1
       /\ n = fed - Len(batch) + pos - 1

(* The replay starts in TInv: nothing fed or emitted, the token all null. *)
LEMMA InitTInv ==
  ASSUME Cases \subseteq {1, 2, 3}, TestInit
  PROVE  TInv
<1>1. tc \in {1, 2, 3} /\ out = << >> /\ fed = 0 /\ capacity = 0
  BY DEF TestInit, Init
<1>2. \A e \in Entities : EntryAfter(tc, 0, e) = Null
  BY <1>1, CaseFacts, BoundsAssumption DEF Entities
<1>3. token \in [Entities -> OptBool] /\ \A e \in Entities : token[e] = Null
  BY DEF TestInit, Init, OptBool, A!OptVal
<1>. QED
  BY <1>1, <1>2, <1>3, BoundsAssumption DEF TestInit, Init, TInv

(* Every step of the replay keeps TInv.                                     *)
LEMMA NextTInv ==
  ASSUME TInv, [TestNext]_tvars
  PROVE  TInv'
<1>. DEFINE rows == Case(tc).rows
            n == Len(out)
<1>0. /\ tc \in {1, 2, 3}
      /\ rows \in Seq(TestRows)
      /\ Case(tc).expected \in Seq(OptBool)
      /\ Len(Case(tc).expected) = Len(rows)
      /\ n \in 0 .. Len(rows)
      /\ args \in {"NoWindow", "Since"}
  <2>1. tc \in {1, 2, 3} /\ CaseProps(tc)
    BY CaseFactsAll DEF TInv
  <2>. QED
    BY <2>1 DEF CaseProps, TInv
<1>1. CASE Feed
  <2>1. PICK k \in fed + 1 .. Len(rows), ng \in 1 .. MaxGroups :
          LET b == SubSeq(rows, fed + 1, k)
          IN  /\ \A i \in DOMAIN b : b[i].entity < ng
              /\ ng >= capacity
              /\ Evaluate(ng, b)
              /\ fed' = k
              /\ UNCHANGED tc
    BY <1>1 DEF Feed
  <2>. DEFINE b == SubSeq(rows, fed + 1, k)
  <2>2. /\ b \in Seq(TestRows)
        /\ Len(b) = k - fed
        /\ \A i \in 1 .. k - fed : b[i] = rows[fed + i]
    <3>1. \A i \in fed + 1 .. k : rows[i] \in TestRows
      BY <1>0 DEF TInv
    <3>2. fed \in Nat /\ k \in Int /\ fed + 1 <= k
      BY <1>0 DEF TInv
    <3>3. /\ SubSeq(rows, fed + 1, k) \in Seq(TestRows)
          /\ Len(SubSeq(rows, fed + 1, k)) = IF fed + 1 <= k THEN k - (fed + 1) + 1 ELSE 0
          /\ \A i \in 1 .. k - (fed + 1) + 1 :
               SubSeq(rows, fed + 1, k)[i] = rows[(fed + 1) + i - 1]
      BY <3>1, <3>2, SubSeqProperties
    <3>. QED
      BY <3>2, <3>3
  <2>3. /\ phase = "Idle" /\ phase' = "Running"
        /\ batch' = b /\ pos' = 1 /\ capacity' = ng
        /\ token' = [e \in Entities |-> IF e < capacity THEN token[e] ELSE Null]
        /\ UNCHANGED <<args, out, tc>> /\ fed' = k
    BY <2>1 DEF Evaluate, Resize, TInv
  <2>4. n = fed
    BY <2>3 DEF TInv
  <2>5. \A e \in Entities : token'[e] = EntryAfter(tc, n, e)
    <3>1. /\ \A e \in Entities : token[e] = EntryAfter(tc, n, e)
          /\ \A e \in Entities : e >= capacity => token[e] = Null
          /\ capacity \in Nat
      BY DEF TInv
    <3>. QED
      BY <2>3, <3>1, BoundsAssumption DEF Entities
  <2>6. \A i \in 1 .. k : rows[i].entity < ng
    <3>0. DOMAIN b = 1 .. k - fed
      BY <2>2
    <3>1. \A i \in 1 .. k - fed : rows[fed + i].entity < ng
      BY <3>0, <2>1, <2>2
    <3>2. \A i \in 1 .. fed : rows[i].entity < ng
      <4>0. fed \in 0 .. Len(rows) /\ \A i \in 1 .. fed : rows[i].entity < capacity
        BY DEF TInv
      <4>1. \A i \in 1 .. fed : rows[i] \in TestRows
        BY <4>0, <1>0
      <4>2. \A i \in 1 .. fed : rows[i].entity \in 0 .. 3 /\ rows[i].entity < capacity
        BY <4>0, <4>1 DEF TestRows
      <4>3. capacity \in 0 .. MaxGroups /\ ng \in 1 .. MaxGroups /\ ng >= capacity
        BY <2>1 DEF TInv
      <4>. QED
        BY <4>2, <4>3, BoundsAssumption
    <3>3. fed \in Nat /\ k \in Nat
      BY <1>0 DEF TInv
    <3>4. ASSUME NEW i \in 1 .. k PROVE rows[i].entity < ng
      <4>1. CASE i <= fed
        BY <4>1, <3>2, <3>3
      <4>2. CASE i > fed
        <5>1. i - fed \in 1 .. k - fed /\ fed + (i - fed) = i
          BY <4>2, <3>3
        <5>. QED
          BY <5>1, <3>1
      <4>. QED
        BY <4>1, <4>2, <3>3
    <3>. QED
      BY <3>4
  <2>7. token' \in [Entities -> OptBool] /\ \A e \in Entities : e >= ng => token'[e] = Null
    <3>1. token \in [Entities -> OptBool] /\ capacity \in Nat /\ ng >= capacity
      BY <2>1 DEF TInv
    <3>. QED
      BY <2>3, <3>1, BoundsAssumption DEF Entities, OptBool, A!OptVal
  <2>. QED
    BY <2>1, <2>2, <2>3, <2>4, <2>5, <2>6, <2>7, <1>0, BoundsAssumption DEF TInv
<1>2. CASE Step /\ UNCHANGED <<tc, fed>>
  <2>1. /\ phase = "Running" /\ pos <= Len(batch)
        /\ consumed' = Append(consumed, batch[pos]) /\ pos' = pos + 1
        /\ UNCHANGED <<args, capacity, batch, phase, batches, tc, fed>>
    BY <1>2 DEF Step
  <2>. DEFINE r == batch[pos]
  <2>10. /\ batch \in Seq(TestRows)
         /\ Len(batch) <= fed
         /\ \A i \in 1 .. Len(batch) : batch[i] = rows[fed - Len(batch) + i]
         /\ pos \in 1 .. Len(batch) + 1
         /\ n = fed - Len(batch) + pos - 1
         /\ fed \in 0 .. Len(rows)
    BY <2>1 DEF TInv
  <2>2. n \in 0 .. Len(rows) - 1 /\ n + 1 \in 1 .. fed /\ r = rows[n + 1]
    <3>1. n \in 0 .. Len(rows) - 1 /\ n + 1 \in 1 .. fed /\ fed - Len(batch) + pos = n + 1
      BY <2>1, <2>10
    <3>2. batch[pos] = rows[fed - Len(batch) + pos]
      BY <2>1, <2>10
    <3>. QED
      BY <3>1, <3>2
  <2>3. r.entity \in Entities /\ r.entity < capacity
    <3>0. rows[n + 1] \in TestRows
      BY <2>2, <1>0
    <3>1. r.entity \in 0 .. 3
      BY <3>0, <2>2 DEF TestRows
    <3>2. r.entity < capacity
      BY <2>2 DEF TInv
    <3>3. capacity \in 0 .. MaxGroups
      BY DEF TInv
    <3>. QED
      BY <3>1, <3>2, <3>3, BoundsAssumption DEF Entities
  <2>4. /\ token' = [token EXCEPT ![r.entity] = Updated(args, token[r.entity], r)]
        /\ out' = Append(out, Emit(token[r.entity], r.input))
    <3>1. CASE args = "NoWindow"
      <4>1. UpdateAccum(r)
        BY <3>1, <1>2 DEF Step
      <4>. QED
        BY <4>1, <3>1, UpdatedIsUpdate DEF UpdateAccum
    <3>2. CASE args = "Since"
      <4>1. UpdateSinceAccum(r)
        BY <3>2, <1>2 DEF Step
      <4>. QED
        BY <4>1, <3>2, UpdatedIsUpdate DEF UpdateSinceAccum
    <3>. QED
      BY <3>1, <3>2, <1>0 DEF TInv
  <2>5. /\ r.entity \in 0 .. 3 /\ r.input \in OptBool /\ r.tick \in OptBool
        /\ Emit(EntryAfter(tc, n, r.entity), r.input) = Case(tc).expected[n + 1]
        /\ \A e \in Nat :
             EntryAfter(tc, n + 1, e) =
               IF e = r.entity THEN Updated(args, EntryAfter(tc, n, e), r)
               ELSE EntryAfter(tc, n, e)
    <3>1. LET rr == Case(tc).rows[n + 1]
          IN  /\ rr.entity \in 0 .. 3 /\ rr.input \in OptBool /\ rr.tick \in OptBool
              /\ Emit(EntryAfter(tc, n, rr.entity), rr.input) = Case(tc).expected[n + 1]
              /\ \A e \in Nat :
                   EntryAfter(tc, n + 1, e) =
                     IF e = rr.entity THEN Updated(Case(tc).args, EntryAfter(tc, n, e), rr)
                     ELSE EntryAfter(tc, n, e)
      BY <2>2, <1>0, StepEntry
    <3>. QED
      BY <3>1, <2>2 DEF TInv
  <2>6. /\ token \in [Entities -> OptBool]
        /\ \A e \in Entities : token[e] = EntryAfter(tc, n, e)
        /\ \A e \in Entities : e >= capacity => token[e] = Null
        /\ out \in Seq(OptBool)
        /\ \A i \in 1 .. n : out[i] = Case(tc).expected[i]
        /\ capacity \in 0 .. MaxGroups
    BY DEF TInv
  <2>7. /\ out' \in Seq(OptBool)
        /\ Len(out') = n + 1
        /\ \A i \in 1 .. n + 1 : out'[i] = Case(tc).expected[i]
    <3>1. Emit(token[r.entity], r.input) = Case(tc).expected[n + 1]
      BY <2>3, <2>5, <2>6
    <3>2. Case(tc).expected[n + 1] \in OptBool
      BY <2>2, <1>0
    <3>. QED
      BY <2>4, <2>6, <3>1, <3>2, AppendProperties
  <2>8. ASSUME NEW e \in Entities
        PROVE  /\ token'[e] \in OptBool
               /\ token'[e] = EntryAfter(tc, n + 1, e)
               /\ e >= capacity => token'[e] = Null
    <3>1. e \in Nat
      BY BoundsAssumption DEF Entities
    <3>2. CASE e = r.entity
      <4>1. token'[e] = Updated(args, token[e], r)
        BY <3>2, <2>3, <2>4, <2>6
      <4>2. token'[e] \in OptBool
        BY <4>1, <2>5, <2>6, <3>2, UpdatedType
      <4>3. token'[e] = EntryAfter(tc, n + 1, e)
        <5>1. token[e] = EntryAfter(tc, n, e)
          BY <2>6
        <5>2. EntryAfter(tc, n + 1, e) = Updated(args, EntryAfter(tc, n, e), r)
          BY <2>5, <3>1, <3>2
        <5>. QED
          BY <4>1, <5>1, <5>2
      <4>. QED
        BY <4>2, <4>3, <2>3, <2>6, <3>1, <3>2
    <3>3. CASE e # r.entity
      BY <3>1, <3>3, <2>4, <2>5, <2>6
    <3>. QED
      BY <3>2, <3>3
  <2>9. token' \in [Entities -> OptBool]
    BY <2>4, <2>6, <2>8
  <2>11. /\ tc' \in {1, 2, 3} /\ args' = Case(tc').args /\ fed' \in 0 .. Len(Case(tc').rows)
         /\ capacity' \in 0 .. MaxGroups /\ phase' = "Running"
         /\ \A i \in 1 .. fed' : Case(tc').rows[i].entity < capacity'
    BY <2>1 DEF TInv
  <2>12. /\ Len(out') <= fed'
         /\ batch' \in Seq(TestRows)
         /\ Len(batch') <= fed'
         /\ \A i \in 1 .. Len(batch') : batch'[i] = Case(tc').rows[fed' - Len(batch') + i]
         /\ pos' \in 1 .. Len(batch') + 1
         /\ Len(out') = fed' - Len(batch') + pos' - 1
    BY <2>1, <2>2, <2>7, <2>10
  <2>13. /\ out' \in Seq(OptBool)
         /\ \A i \in 1 .. Len(out') : out'[i] = Case(tc').expected[i]
         /\ \A e \in Entities : token'[e] = EntryAfter(tc', Len(out'), e)
         /\ \A e \in Entities : e >= capacity' => token'[e] = Null
    BY <2>1, <2>7, <2>8
  <2>. QED
    BY <2>9, <2>11, <2>12, <2>13 DEF TInv
<1>3. CASE Return /\ UNCHANGED <<tc, fed>>
  BY <1>3 DEF Return, TInv
<1>4. CASE UNCHANGED tvars
  BY <1>4 DEF tvars, vars, TInv
<1>. QED
  BY <1>1, <1>2, <1>3, <1>4 DEF TestNext

(* TInv implies the property: the outputs are a prefix of the asserted ones. *)
LEMMA TInvOutputs ==
  ASSUME TInv
  PROVE  UnitTestOutputs
<1>0. /\ tc \in {1, 2, 3}
      /\ Case(tc).expected \in Seq(OptBool)
      /\ Len(Case(tc).expected) = Len(Case(tc).rows)
  <2>1. tc \in {1, 2, 3} /\ CaseProps(tc)
    BY CaseFactsAll DEF TInv
  <2>. QED
    BY <2>1 DEF CaseProps
<1>1. /\ Case(tc).expected \in Seq(OptBool)
      /\ Len(out) <= Len(Case(tc).expected)
  BY <1>0 DEF TInv
<1>2. /\ SubSeq(Case(tc).expected, 1, Len(out)) \in Seq(OptBool)
      /\ Len(SubSeq(Case(tc).expected, 1, Len(out))) = Len(out)
      /\ \A i \in 1 .. Len(out) : SubSeq(Case(tc).expected, 1, Len(out))[i] = out[i]
  BY <1>1, SubSeqProperties DEF TInv
<1>. QED
  BY <1>2, SeqEqual DEF TInv, UnitTestOutputs

(* The unit tests of last_boolean_evaluator.rs hold for the evaluator:    *)
(* for every bound on num_groups and batches, every split of a test's rows *)
(* into aggregate / aggregate_since calls and every num_groups the test    *)
(* may pass, each value the row loop emits is the one the test asserts.    *)
THEOREM TestsCorrect == Cases \subseteq {1, 2, 3} => (TestSpec => []UnitTestOutputs)
<1>. SUFFICES ASSUME Cases \subseteq {1, 2, 3}
              PROVE  TestSpec => []UnitTestOutputs
  OBVIOUS
<1>1. TestInit => TInv
  BY InitTInv
<1>2. TInv /\ [TestNext]_tvars => TInv'
  BY NextTInv
<1>3. TInv => UnitTestOutputs
  BY TInvOutputs
<1>. QED
  BY <1>1, <1>2, <1>3, PTL DEF TestSpec

=============================================================================
