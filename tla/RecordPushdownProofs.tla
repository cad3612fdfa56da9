------------------------- MODULE RecordPushdownProofs -------------------------
(***************************************************************************)
(* Proofs about the record pushdown of `last` and `first` (module          *)
(* RecordPushdown), for every set of fields and every bound on the rows.  *)
(***************************************************************************)
EXTENDS RecordPushdown, WellFoundedInduction, TLAPS

(* Every column an evaluator of the pushed-down plan reads is an          *)
(* Option<bool>, and a row seen at the record level is a row of the       *)
(* abstract aggregation.                                                   *)
LEMMA InRowColumns ==
  ASSUME NEW r \in InRow, NEW f \in Fields
  PROVE  /\ FieldOf(r.rec, f) \in OptBool
         /\ GateInput(r, f) \in OptBool
         /\ FieldInput(r, f) \in OptBool
         /\ CountInput(r) \in BOOLEAN
         /\ r.tick \in OptBool
<1>1. r.rec \in Rec \cup {Null} /\ r.isNew \in BOOLEAN /\ r.tick \in OptBool
  BY DEF InRow
<1>2. FieldOf(r.rec, f) \in OptBool
  BY <1>1 DEF FieldOf, Rec, OptBool
<1>3. GateInput(r, f) \in OptBool /\ FieldInput(r, f) \in OptBool
  BY <1>2 DEF GateInput, FieldInput, IfThen, OptBool
<1>. QED
  BY <1>1, <1>2, <1>3 DEF CountInput

(* A row seen at the record level is a row of the abstract aggregation.   *)
LEMMA AsAbstractRow ==
  ASSUME NEW r \in InRow
  PROVE  AsAbstract(r) \in R!Row
BY DEF InRow, AsAbstract, R!Row, R!OptVal, OptBool

(* Outside a reset an evaluator's entry becomes the value it emits; a     *)
(* reset empties it.                                                       *)
LEMMA AccumSplit ==
  \A a \in {"last", "first"}, m \in {"NoWindow", "Since"} :
     \A stored, input, tick :
        Accum(a, m, stored, input, tick) =
          IF m = "Since" /\ tick = TRUE THEN Null ELSE AggEmit(a, stored, input)
<1> TAKE a \in {"last", "first"}, m \in {"NoWindow", "Since"}
<1> TAKE stored, input, tick
<1>1. CASE a = "last" /\ m = "Since"
  <2>1. Accum(a, m, stored, input, tick) = SinceEntry(stored, input, tick)
    BY <1>1 DEF Accum
  <2>. QED
    BY <1>1, <2>1 DEF AggEmit, SinceEntry
<1>2. CASE a = "last" /\ m # "Since"
  BY <1>2 DEF Accum, AggEmit
<1>3. CASE a = "first" /\ m = "Since"
  BY <1>3 DEF Accum, AggEmit, FirstSinceEntry
<1>4. CASE a = "first" /\ m # "Since"
  BY <1>4 DEF Accum, AggEmit
<1>. QED
  BY <1>1, <1>2, <1>3, <1>4

(* The per-row updates of `last`, `first` and their emitted values keep   *)
(* an entry an Option<bool>.                                               *)
LEMMA AccumType ==
  ASSUME NEW a \in {"last", "first"}, NEW m \in {"NoWindow", "Since"},
         NEW stored \in OptBool, NEW input \in OptBool, NEW tick
  PROVE  /\ Accum(a, m, stored, input, tick) \in OptBool
         /\ AggEmit(a, stored, input) \in OptBool
<1>1. AggEmit(a, stored, input) \in OptBool
  BY DEF AggEmit, Emit, FirstEmit, OptBool
<1>2. Accum(a, m, stored, input, tick) =
        IF m = "Since" /\ tick = TRUE THEN Null ELSE AggEmit(a, stored, input)
  BY AccumSplit
<1>. QED
  BY <1>1, <1>2 DEF OptBool

(* One step keeps every variable in its type.                              *)
LEMMA TypeInductive == TypeOK /\ [Next]_vars => TypeOK'
<1> SUFFICES ASSUME TypeOK, [Next]_vars PROVE TypeOK'
  OBVIOUS
<1>1. ASSUME NEW r \in RowsFor(args), Consume(r) PROVE TypeOK'
  <2>1. r \in InRow
    BY DEF RowsFor
  <2>2. gate' \in [Fields -> OptBool] /\ value' \in [Fields -> OptBool]
    BY <1>1, <2>1, InRowColumns, AccumType DEF Consume, TypeOK
  <2>3. count' \in Nat
    BY <1>1, <2>1, InRowColumns DEF Consume, CountIfEntry, CountIfEmit, TypeOK
  <2>4. Result([f \in Fields |-> AggEmit(agg, gate[f], GateInput(r, f))],
               [f \in Fields |-> AggEmit(agg, value[f], FieldInput(r, f))],
               CountIfEmit(count, CountInput(r))) \in Rec \cup {Null}
    <3>1. \A f \in Fields : AggEmit(agg, value[f], FieldInput(r, f)) \in OptBool
      BY <2>1, InRowColumns, AccumType DEF TypeOK
    <3>2. \A f \in Fields : \A c : IfThen(c, AggEmit(agg, value[f], FieldInput(r, f))) \in OptBool
      BY <3>1 DEF IfThen, OptBool
    <3>. QED
      BY <3>2 DEF Result, IfThen, Rec
  <2>5. out' \in Seq(Rec \cup {Null}) /\ consumed' \in Seq(InRow)
    BY <1>1, <2>1, <2>4 DEF Consume, TypeOK
  <2>. QED
    BY <1>1, <2>2, <2>3, <2>5 DEF Consume, TypeOK
<1>2. CASE UNCHANGED vars
  BY <1>2 DEF vars, TypeOK
<1>. QED
  BY <1>1, <1>2 DEF Next

(* The tokens of every evaluator of the pushed-down plan and the records  *)
(* it emits keep their types (TypeOK of the record_pushdown run), for     *)
(* every set of fields and every bound on the rows.                        *)
THEOREM TypeCorrect == Spec => []TypeOK
<1>1. Init => TypeOK
  BY DEF Init, TypeOK, OptBool
<1>. QED
  BY <1>1, TypeInductive, PTL DEF Spec

-----------------------------------------------------------------------------
(* The reference side: how the record-level state of `first` changes when *)
(* one row is appended.  FirstIn is the body of FirstLive over a set of   *)
(* positions.                                                              *)
FirstIn(t, L) ==
  IF L = {} THEN Null
  ELSE CHOOSE v \in R!OptVal : \E i \in L : t[i].input = v /\ \A j \in L : i <= j

LEMMA FirstLiveIsFirstIn ==
  ASSUME NEW m, NEW s, NEW e, NEW k, NEW b
  PROVE  F!FirstLive(m, s, e, k, b) = FirstIn(s, F!Live(m, s, e, k, b))
BY DEF F!FirstLive, FirstIn, F!OptVal, R!OptVal

(* A non-empty set of positions has an earliest one.                       *)
LEMMA MinIn ==
  ASSUME NEW S \in SUBSET Nat, S # {}
  PROVE  \E i \in S : \A j \in S : i <= j
<1>1. \E x \in S : \A y \in S : ~ (<<y, x>> \in OpToRel(<, Nat))
  BY NatLessThanWellFounded, WFMin
<1>2. PICK x \in S : \A y \in S : ~ (<<y, x>> \in OpToRel(<, Nat))
  BY <1>1
<1>3. \A y \in S : ~(y < x)
  BY <1>2 DEF OpToRel
<1>. QED
  BY <1>3

(* The earliest position decides the value.                                *)
LEMMA FirstInIs ==
  ASSUME NEW t \in Seq(R!Row), NEW L \in SUBSET (1 .. Len(t)),
         NEW i \in L, \A j \in L : i <= j
  PROVE  FirstIn(t, L) = t[i].input
<1>0. t[i] \in R!Row
  OBVIOUS
<1>1. t[i].input \in R!OptVal
  BY <1>0, Zenon DEF R!Row
<1>2. \A v : (\E i2 \in L : t[i2].input = v /\ \A j \in L : i2 <= j) <=> v = t[i].input
  OBVIOUS
<1>. QED
  BY <1>1, <1>2 DEF FirstIn

(* Over positions of valid inputs, FirstIn is null exactly when there is  *)
(* no position.                                                            *)
LEMMA FirstInNull ==
  ASSUME NEW t \in Seq(R!Row),
         NEW L \in SUBSET {i \in 1 .. Len(t) : t[i].input # Null}
  PROVE  FirstIn(t, L) = Null <=> L = {}
<1>1. CASE L # {}
  <2>1. PICK i \in L : \A j \in L : i <= j
    BY <1>1, MinIn
  <2>2. FirstIn(t, L) = t[i].input
    BY <2>1, FirstInIs
  <2>. QED
    BY <1>1, <2>2
<1>. QED
  BY <1>1 DEF FirstIn

(* One more position, after all the others, changes the earliest value    *)
(* only when there was none.                                               *)
LEMMA FirstInExtend ==
  ASSUME NEW s \in Seq(R!Row), NEW r \in R!Row,
         NEW L \in SUBSET (1 .. Len(s)), NEW X \in SUBSET {Len(s) + 1}
  PROVE  FirstIn(Append(s, r), L \cup X) =
           IF L = {} THEN (IF X = {} THEN Null ELSE r.input) ELSE FirstIn(s, L)
<1> DEFINE t == Append(s, r)
<1>1. t \in Seq(R!Row) /\ Len(t) = Len(s) + 1 /\ t[Len(s) + 1] = r
      /\ \A i \in 1 .. Len(s) : t[i] = s[i]
  OBVIOUS
<1>2. CASE L # {}
  <2>1. PICK i \in L : \A j \in L : i <= j
    BY <1>2, MinIn
  <2>2. \A j \in L \cup X : i <= j
    <3>1. i \in 1 .. Len(s) /\ Len(s) \in Nat
      OBVIOUS
    <3>2. \A j \in X : j = Len(s) + 1
      OBVIOUS
    <3>. QED
      BY <2>1, <3>1, <3>2
  <2>0. L \cup X \in SUBSET (1 .. Len(t)) /\ i \in L \cup X
    <3>1. Len(s) \in Nat /\ (1 .. Len(s)) \cup {Len(s) + 1} \subseteq 1 .. Len(s) + 1
      OBVIOUS
    <3>. QED
      BY <1>1, <3>1, Zenon
  <2>3. FirstIn(t, L \cup X) = t[i].input
    BY <1>1, <2>0, <2>2, FirstInIs
  <2>4. FirstIn(s, L) = s[i].input
    BY <2>1, FirstInIs
  <2>. QED
    BY <1>1, <1>2, <2>3, <2>4
<1>3. CASE L = {} /\ X # {}
  <2>1. L \cup X = {Len(s) + 1}
    BY <1>3
  <2>0. L \cup X \in SUBSET (1 .. Len(t)) /\ Len(s) + 1 \in L \cup X
        /\ \A j \in L \cup X : Len(s) + 1 <= j
    BY <1>1, <2>1
  <2>2. FirstIn(t, L \cup X) = t[Len(s) + 1].input
    BY <1>1, <2>0, FirstInIs
  <2>. QED
    BY <1>1, <1>3, <2>2
<1>. QED
  BY <1>2, <1>3 DEF FirstIn

(* The body of LastLive over a set of positions.                          *)
LastIn(t, L) ==
  IF L = {} THEN Null
  ELSE CHOOSE v \in R!OptVal : \E i \in L : t[i].input = v /\ \A j \in L : j <= i

LEMMA LastLiveIsLastIn ==
  ASSUME NEW m, NEW s, NEW e, NEW k, NEW b
  PROVE  R!LastLive(m, s, e, k, b) = LastIn(s, R!Live(m, s, e, k, b))
BY DEF R!LastLive, LastIn

(* One more position, after all the others, is the latest one; without   *)
(* it the latest value is the one of the shorter stream.                  *)
LEMMA LastInExtend ==
  ASSUME NEW s \in Seq(R!Row), NEW r \in R!Row,
         NEW L \in SUBSET (1 .. Len(s)), NEW X \in SUBSET {Len(s) + 1}
  PROVE  LastIn(Append(s, r), L \cup X) = IF X = {} THEN LastIn(s, L) ELSE r.input
<1> DEFINE t == Append(s, r)
           n == Len(s)
<1>1. Len(t) = n + 1 /\ t[n + 1] = r /\ \A i \in 1 .. n : t[i] = s[i]
  OBVIOUS
<1>2. CASE X # {}
  <2>1. L \cup X = L \cup {n + 1}
    BY <1>2
  <2>2. r.input \in R!OptVal
    BY Zenon DEF R!Row
  <2>3. \A v : (\E i \in L \cup X : t[i].input = v /\ \A j \in L \cup X : j <= i)
                  <=> v = r.input
    BY <1>1, <2>1
  <2>. QED
    BY <1>2, <2>2, <2>3 DEF LastIn
<1>3. CASE X = {}
  <2>1. \A v : (\E i \in L : t[i].input = v /\ \A j \in L : j <= i)
                  <=> (\E i \in L : s[i].input = v /\ \A j \in L : j <= i)
    BY <1>1
  <2>2. (CHOOSE v \in R!OptVal : \E i \in L : t[i].input = v /\ \A j \in L : j <= i)
        = (CHOOSE v \in R!OptVal : \E i \in L : s[i].input = v /\ \A j \in L : j <= i)
    BY <2>1, Zenon
  <2>3. L \cup X = L
    BY <1>3
  <2>4. LastIn(t, L) = LastIn(s, L)
    <3>1. CASE L = {}
      BY <3>1 DEF LastIn
    <3>2. CASE L # {}
      <4>1. LastIn(t, L) = CHOOSE v \in R!OptVal : \E i \in L : t[i].input = v /\ \A j \in L : j <= i
        BY <3>2 DEF LastIn
      <4>2. LastIn(s, L) = CHOOSE v \in R!OptVal : \E i \in L : s[i].input = v /\ \A j \in L : j <= i
        BY <3>2 DEF LastIn
      <4>. QED
        BY <2>2, <4>1, <4>2
    <3>. QED
      BY <3>1, <3>2
  <2>. QED
    BY <1>3, <2>3, <2>4
<1>. QED
  BY <1>2, <1>3

-----------------------------------------------------------------------------
(* The live positions of a stream with one more row.                       *)

LEMMA LiveValid ==
  ASSUME NEW m, NEW s \in Seq(R!Row), NEW e, NEW k \in 0 .. Len(s), NEW b
  PROVE  R!Live(m, s, e, k, b) \in SUBSET {i \in 1 .. Len(s) : s[i].input # Null}
BY DEF R!Live

LEMMA LiveAppendReset ==
  ASSUME NEW m, NEW s \in Seq(R!Row), NEW r \in R!Row, NEW e,
         r.entity = e, R!Resets(m, r)
  PROVE  R!Live(m, Append(s, r), e, Len(s) + 1, Len(s) + 1) = {}
BY DEF R!Live

LEMMA LiveAppendKeep ==
  ASSUME NEW m, NEW s \in Seq(R!Row), NEW r \in R!Row, NEW e,
         ~(r.entity = e /\ R!Resets(m, r))
  PROVE  R!Live(m, Append(s, r), e, Len(s) + 1, Len(s) + 1) =
           R!Live(m, s, e, Len(s), Len(s))
             \cup {i \in {Len(s) + 1} : r.entity = e /\ r.input # Null}
BY DEF R!Live

(* The positions an appended row's output reads: its own reset comes     *)
(* after the output.                                                      *)
LEMMA LiveAppendOut ==
  ASSUME NEW m, NEW s \in Seq(R!Row), NEW r \in R!Row, NEW e
  PROVE  R!Live(m, Append(s, r), e, Len(s) + 1, Len(s)) =
           R!Live(m, s, e, Len(s), Len(s))
             \cup {i \in {Len(s) + 1} : r.entity = e /\ r.input # Null}
BY DEF R!Live

-----------------------------------------------------------------------------
(* The record-level state and output of `last` and `first` for a stream  *)
(* with one more row.                                                      *)

LEMMA LastStateAppend ==
  ASSUME NEW m, NEW s \in Seq(R!Row), NEW r \in R!Row, NEW e
  PROVE  R!StateAfter(m, Append(s, r), e) =
           IF r.entity = e /\ R!Resets(m, r) THEN Null
           ELSE IF r.entity = e /\ r.input # Null THEN r.input
           ELSE R!StateAfter(m, s, e)
<1> DEFINE n == Len(s)
           X == {i \in {n + 1} : r.entity = e /\ r.input # Null}
<1>1. R!StateAfter(m, Append(s, r), e) = LastIn(Append(s, r), R!Live(m, Append(s, r), e, n + 1, n + 1))
  BY LastLiveIsLastIn DEF R!StateAfter
<1>2. R!StateAfter(m, s, e) = LastIn(s, R!Live(m, s, e, n, n))
  BY LastLiveIsLastIn DEF R!StateAfter
<1>3. CASE r.entity = e /\ R!Resets(m, r)
  BY <1>1, <1>3, LiveAppendReset DEF LastIn
<1>4. CASE ~(r.entity = e /\ R!Resets(m, r))
  <2>1. R!Live(m, Append(s, r), e, n + 1, n + 1) = R!Live(m, s, e, n, n) \cup X
    BY <1>4, LiveAppendKeep
  <2>2. R!Live(m, s, e, n, n) \in SUBSET (1 .. n) /\ X \in SUBSET {n + 1}
    BY LiveValid
  <2>a. \A LL \in SUBSET (1 .. n), XX \in SUBSET {n + 1} :
          LastIn(Append(s, r), LL \cup XX) = IF XX = {} THEN LastIn(s, LL) ELSE r.input
    BY LastInExtend
  <2>3. LastIn(Append(s, r), R!Live(m, s, e, n, n) \cup X)
          = IF X = {} THEN LastIn(s, R!Live(m, s, e, n, n)) ELSE r.input
    BY <2>2, <2>a
  <2>. QED
    BY <1>1, <1>2, <1>4, <2>1, <2>3
<1>. QED
  BY <1>3, <1>4

LEMMA LastOutputAppend ==
  ASSUME NEW m, NEW s \in Seq(R!Row), NEW r \in R!Row
  PROVE  R!OutputAt(m, Append(s, r), Len(s) + 1)
           = Emit(R!StateAfter(m, s, r.entity), r.input)
<1> DEFINE n == Len(s)
           e == r.entity
           X == {i \in {n + 1} : r.entity = e /\ r.input # Null}
<1>1. R!OutputAt(m, Append(s, r), n + 1)
        = LastIn(Append(s, r), R!Live(m, Append(s, r), e, n + 1, n))
  BY LastLiveIsLastIn DEF R!OutputAt
<1>2. R!StateAfter(m, s, e) = LastIn(s, R!Live(m, s, e, n, n))
  BY LastLiveIsLastIn DEF R!StateAfter
<1>3. R!Live(m, Append(s, r), e, n + 1, n) = R!Live(m, s, e, n, n) \cup X
  BY LiveAppendOut
<1>4. R!Live(m, s, e, n, n) \in SUBSET (1 .. n) /\ X \in SUBSET {n + 1}
  BY LiveValid
<1>a. \A LL \in SUBSET (1 .. n), XX \in SUBSET {n + 1} :
        LastIn(Append(s, r), LL \cup XX) = IF XX = {} THEN LastIn(s, LL) ELSE r.input
  BY LastInExtend
<1>5. LastIn(Append(s, r), R!Live(m, s, e, n, n) \cup X)
        = IF X = {} THEN LastIn(s, R!Live(m, s, e, n, n)) ELSE r.input
  BY <1>4, <1>a
<1>. QED
  BY <1>1, <1>2, <1>3, <1>5 DEF Emit

LEMMA FirstStateAppend ==
  ASSUME NEW m, NEW s \in Seq(R!Row), NEW r \in R!Row, NEW e
  PROVE  F!FirstStateAfter(m, Append(s, r), e) =
           IF r.entity = e /\ R!Resets(m, r) THEN Null
           ELSE IF F!FirstStateAfter(m, s, e) = Null /\ r.entity = e /\ r.input # Null
                  THEN r.input
           ELSE F!FirstStateAfter(m, s, e)
<1> DEFINE n == Len(s)
           X == {i \in {n + 1} : r.entity = e /\ r.input # Null}
           L == R!Live(m, s, e, n, n)
<1>0. \A k, b : F!Live(m, Append(s, r), e, k, b) = R!Live(m, Append(s, r), e, k, b)
             /\ F!Live(m, s, e, k, b) = R!Live(m, s, e, k, b)
  BY DEF F!Live, R!Live, F!Resets, R!Resets
<1>1. F!FirstStateAfter(m, Append(s, r), e)
        = FirstIn(Append(s, r), R!Live(m, Append(s, r), e, n + 1, n + 1))
  BY <1>0, FirstLiveIsFirstIn DEF F!FirstStateAfter
<1>2. F!FirstStateAfter(m, s, e) = FirstIn(s, L)
  BY <1>0, FirstLiveIsFirstIn DEF F!FirstStateAfter
<1>3. L \in SUBSET {i \in 1 .. n : s[i].input # Null}
  BY LiveValid
<1>3a. L \in SUBSET (1 .. n) /\ X \in SUBSET {n + 1}
  BY <1>3
<1>4. FirstIn(s, L) = Null <=> L = {}
  BY <1>3, FirstInNull
<1>5. CASE r.entity = e /\ R!Resets(m, r)
  BY <1>1, <1>5, LiveAppendReset DEF FirstIn
<1>6. CASE ~(r.entity = e /\ R!Resets(m, r))
  <2>1. R!Live(m, Append(s, r), e, n + 1, n + 1) = L \cup X
    BY <1>6, LiveAppendKeep
  <2>2. FirstIn(Append(s, r), L \cup X)
          = IF L = {} THEN (IF X = {} THEN Null ELSE r.input) ELSE FirstIn(s, L)
    <3>1. \A LL \in SUBSET (1 .. n), XX \in SUBSET {n + 1} :
            FirstIn(Append(s, r), LL \cup XX)
              = IF LL = {} THEN (IF XX = {} THEN Null ELSE r.input) ELSE FirstIn(s, LL)
      BY FirstInExtend
    <3>. QED
      BY <1>3a, <3>1
  <2>. QED
    BY <1>1, <1>2, <1>4, <1>6, <2>1, <2>2
<1>. QED
  BY <1>5, <1>6

LEMMA FirstOutputAppend ==
  ASSUME NEW m, NEW s \in Seq(R!Row), NEW r \in R!Row
  PROVE  F!FirstOutputAt(m, Append(s, r), Len(s) + 1)
           = FirstEmit(F!FirstStateAfter(m, s, r.entity), r.input)
<1> DEFINE n == Len(s)
           e == r.entity
           X == {i \in {n + 1} : r.entity = e /\ r.input # Null}
           L == R!Live(m, s, e, n, n)
<1>0. \A k, b : F!Live(m, Append(s, r), e, k, b) = R!Live(m, Append(s, r), e, k, b)
             /\ F!Live(m, s, e, k, b) = R!Live(m, s, e, k, b)
  BY DEF F!Live, R!Live, F!Resets, R!Resets
<1>1. F!FirstOutputAt(m, Append(s, r), n + 1)
        = FirstIn(Append(s, r), R!Live(m, Append(s, r), e, n + 1, n))
  BY <1>0, FirstLiveIsFirstIn DEF F!FirstOutputAt
<1>2. F!FirstStateAfter(m, s, e) = FirstIn(s, L)
  BY <1>0, FirstLiveIsFirstIn DEF F!FirstStateAfter
<1>3. L \in SUBSET {i \in 1 .. n : s[i].input # Null}
  BY LiveValid
<1>3a. L \in SUBSET (1 .. n) /\ X \in SUBSET {n + 1}
  BY <1>3
<1>4. FirstIn(s, L) = Null <=> L = {}
  BY <1>3, FirstInNull
<1>5. R!Live(m, Append(s, r), e, n + 1, n) = L \cup X
  BY LiveAppendOut
<1>6. FirstIn(Append(s, r), L \cup X)
        = IF L = {} THEN (IF X = {} THEN Null ELSE r.input) ELSE FirstIn(s, L)
  <2>1. \A LL \in SUBSET (1 .. n), XX \in SUBSET {n + 1} :
          FirstIn(Append(s, r), LL \cup XX)
            = IF LL = {} THEN (IF XX = {} THEN Null ELSE r.input) ELSE FirstIn(s, LL)
    BY FirstInExtend
  <2>. QED
    BY <1>3a, <2>1
<1>. QED
  BY <1>1, <1>2, <1>4, <1>5, <1>6 DEF FirstEmit

-----------------------------------------------------------------------------
(* One row of the pushed-down plan, seen at the record level.             *)

(* The row closes the window: count_if and every `last` / `first`         *)
(* evaluator reset after emitting.                                         *)
Reset(r) == args = "Since" /\ r.tick = TRUE

(* The row carries a new, non-null record: an input of the aggregation.   *)
NewRec(r) == r.isNew /\ r.rec # Null

LEMMA ColumnsNewRec ==
  ASSUME NEW r \in InRow, NewRec(r)
  PROVE  /\ r.rec \in Rec
         /\ \A f \in Fields : GateInput(r, f) = (r.rec[f] # Null)
         /\ \A f \in Fields : FieldInput(r, f) = r.rec[f]
         /\ CountInput(r) = TRUE
         /\ AsAbstract(r) = [entity |-> 0, input |-> r.rec, tick |-> r.tick]
BY DEF InRow, NewRec, GateInput, FieldInput, CountInput, AsAbstract, IfThen, FieldOf

LEMMA ColumnsOther ==
  ASSUME NEW r \in InRow, ~NewRec(r)
  PROVE  /\ \A f \in Fields : GateInput(r, f) = Null
         /\ \A f \in Fields : FieldInput(r, f) = Null
         /\ CountInput(r) = FALSE
         /\ AsAbstract(r) = [entity |-> 0, input |-> Null, tick |-> r.tick]
BY DEF InRow, NewRec, GateInput, FieldInput, CountInput, AsAbstract, IfThen, FieldOf

(* The consumed rows as the aggregation sees them, before and after a row. *)
LEMMA AbstractRowsStep ==
  ASSUME consumed \in Seq(InRow), NEW r \in InRow,
         consumed' = Append(consumed, r)
  PROVE  /\ AbstractRows \in Seq(R!Row)
         /\ Len(AbstractRows) = Len(consumed)
         /\ AbstractRows' = Append(AbstractRows, AsAbstract(r))
<1>1. \A k \in 1 .. Len(consumed) : AsAbstract(consumed[k]) \in R!Row
  BY AsAbstractRow
<1>2. AbstractRows \in Seq(R!Row) /\ Len(AbstractRows) = Len(consumed)
  BY <1>1 DEF AbstractRows
<1>3. AsAbstract(r) \in R!Row
  BY AsAbstractRow
<1>. QED
  BY <1>2, <1>3 DEF AbstractRows

(* The record-level state after a row, and the output the aggregation     *)
(* gives it, in terms of the state before: the output is the new record   *)
(* for `last`, and for `first` when none was held; the reset follows.     *)
Expected(r) ==
  IF NewRec(r) /\ (agg = "last" \/ RecordState = Null) THEN r.rec ELSE RecordState

LEMMA RecordStep ==
  ASSUME TypeOK, NEW r \in InRow, Consume(r)
  PROVE  /\ RecordState' = IF Reset(r) THEN Null ELSE Expected(r)
         /\ (IF agg = "last"
               THEN R!OutputAt(args, AbstractRows', Len(AbstractRows'))
               ELSE F!FirstOutputAt(args, AbstractRows', Len(AbstractRows')))
            = Expected(r)
<1> DEFINE AR == AbstractRows
           a == AsAbstract(r)
<1>0. consumed \in Seq(InRow) /\ consumed' = Append(consumed, r)
  BY DEF Consume, TypeOK
<1>1. AR \in Seq(R!Row) /\ AbstractRows' = Append(AR, a) /\ a \in R!Row
  BY <1>0, AbstractRowsStep, AsAbstractRow
<1>2. agg' = agg /\ args' = args /\ agg \in {"last", "first"}
  BY DEF Consume, TypeOK
<1>3. a.entity = 0 /\ (R!Resets(args, a) <=> Reset(r))
      /\ (a.input # Null <=> NewRec(r)) /\ (NewRec(r) => a.input = r.rec)
  <2>1. CASE NewRec(r)
    <3>1. a = [entity |-> 0, input |-> r.rec, tick |-> r.tick]
      BY <2>1, ColumnsNewRec
    <3>. QED
      BY <2>1, <3>1 DEF R!Resets, Reset, NewRec
  <2>2. CASE ~NewRec(r)
    <3>1. a = [entity |-> 0, input |-> Null, tick |-> r.tick]
      BY <2>2, ColumnsOther
    <3>. QED
      BY <2>2, <3>1 DEF R!Resets, Reset
  <2>. QED
    BY <2>1, <2>2
<1>4. Len(Append(AR, a)) = Len(AR) + 1
  BY <1>1
<1>5. CASE agg = "last"
  <2>1. R!StateAfter(args, Append(AR, a), 0) =
          IF R!Resets(args, a) THEN Null
          ELSE IF a.input # Null THEN a.input ELSE R!StateAfter(args, AR, 0)
    BY <1>1, <1>3, LastStateAppend
  <2>2. R!OutputAt(args, Append(AR, a), Len(AR) + 1) = Emit(R!StateAfter(args, AR, 0), a.input)
    BY <1>1, <1>3, LastOutputAppend
  <2>. QED
    BY <1>1, <1>2, <1>3, <1>4, <1>5, <2>1, <2>2 DEF RecordState, Expected, Emit
<1>6. CASE agg = "first"
  <2>1. F!FirstStateAfter(args, Append(AR, a), 0) =
          IF R!Resets(args, a) THEN Null
          ELSE IF F!FirstStateAfter(args, AR, 0) = Null /\ a.input # Null THEN a.input
          ELSE F!FirstStateAfter(args, AR, 0)
    BY <1>1, <1>3, FirstStateAppend
  <2>2. F!FirstOutputAt(args, Append(AR, a), Len(AR) + 1)
          = FirstEmit(F!FirstStateAfter(args, AR, 0), a.input)
    BY <1>1, <1>3, FirstOutputAppend
  <2>3. agg # "last"
    BY <1>6
  <2>. QED
    BY <1>1, <1>2, <1>3, <1>4, <2>1, <2>2, <2>3 DEF RecordState, Expected, FirstEmit
<1>. QED
  BY <1>2, <1>5, <1>6

-----------------------------------------------------------------------------
(* The inductive invariant behind TokensMatchRecord.  The property alone  *)
(* is not inductive: while no record is in the window it says nothing of  *)
(* the gate and field tokens, and `first` keeps whatever they hold when    *)
(* the next record arrives.                                                *)

IRec == RecordState \in Rec \cup {Null}

ICount == (count > 0) <=> (RecordState # Null)

IEmpty == RecordState = Null => \A f \in Fields : gate[f] = Null /\ value[f] = Null

IFields ==
  RecordState # Null =>
    \A f \in Fields :
       /\ gate[f] = (RecordState[f] # Null)
       /\ RecordState[f] # Null => value[f] = RecordState[f]

IInv == TypeOK /\ IRec /\ ICount /\ IEmpty /\ IFields

(* Every token after a row: the evaluators emit, then reset on a tick.    *)
LEMMA TokenStep ==
  ASSUME TypeOK, NEW r \in InRow, Consume(r)
  PROVE  /\ \A f \in Fields :
              gate'[f] = IF Reset(r) THEN Null ELSE AggEmit(agg, gate[f], GateInput(r, f))
         /\ \A f \in Fields :
              value'[f] = IF Reset(r) THEN Null ELSE AggEmit(agg, value[f], FieldInput(r, f))
         /\ count' = IF Reset(r) THEN 0 ELSE count + (IF NewRec(r) THEN 1 ELSE 0)
<1>1. agg \in {"last", "first"} /\ args \in {"NoWindow", "Since"}
  BY DEF TypeOK
<1>2. CountInput(r) = NewRec(r)
  BY DEF CountInput, NewRec
<1>. QED
  BY <1>1, <1>2, AccumSplit DEF Consume, Reset, CountIfEntry, CountIfEmit

LEMMA InitIInv == Init => IInv
<1> SUFFICES ASSUME Init PROVE IInv
  OBVIOUS
<1>1. AbstractRows = << >>
  BY DEF Init, AbstractRows
<1>2. R!Live(args, << >>, 0, 0, 0) = {}
  BY DEF R!Live
<1>3. RecordState = Null
  <2>1. R!StateAfter(args, << >>, 0) = Null
    BY <1>2, LastLiveIsLastIn DEF R!StateAfter, LastIn
  <2>2. F!FirstStateAfter(args, << >>, 0) = Null
    BY <1>2, FirstLiveIsFirstIn DEF F!FirstStateAfter, FirstIn, F!Live, R!Live
  <2>. QED
    BY <1>1, <2>1, <2>2 DEF RecordState
<1>. QED
  BY <1>3 DEF Init, IInv, TypeOK, OptBool, IRec, ICount, IEmpty, IFields

LEMMA NextIInv == IInv /\ [Next]_vars => IInv'
<1> SUFFICES ASSUME IInv, [Next]_vars PROVE IInv'
  OBVIOUS
<1>0. TypeOK'
  BY TypeInductive DEF IInv
<1>1. CASE UNCHANGED vars
  BY <1>0, <1>1 DEF vars, IInv, IRec, ICount, IEmpty, IFields, RecordState, AbstractRows
<1>2. ASSUME NEW r \in RowsFor(args), Consume(r) PROVE IInv'
  <2> DEFINE st == RecordState
  <2>1. r \in InRow /\ TypeOK
    BY DEF RowsFor, IInv
  <2>2. RecordState' = IF Reset(r) THEN Null ELSE Expected(r)
    BY <1>2, <2>1, RecordStep
  <2>3. /\ \A f \in Fields :
             gate'[f] = IF Reset(r) THEN Null ELSE AggEmit(agg, gate[f], GateInput(r, f))
        /\ \A f \in Fields :
             value'[f] = IF Reset(r) THEN Null ELSE AggEmit(agg, value[f], FieldInput(r, f))
        /\ count' = IF Reset(r) THEN 0 ELSE count + (IF NewRec(r) THEN 1 ELSE 0)
    BY <1>2, <2>1, TokenStep
  <2>4. /\ agg \in {"last", "first"} /\ count \in Nat
        /\ gate \in [Fields -> OptBool] /\ value \in [Fields -> OptBool]
        /\ Null \notin BOOLEAN
    BY <2>1, PushdownAssumption DEF TypeOK
  <2>5. CASE Reset(r)
    BY <1>0, <2>2, <2>3, <2>5 DEF IInv, IRec, ICount, IEmpty, IFields
  <2>6. CASE ~Reset(r) /\ NewRec(r) /\ (agg = "last" \/ st = Null)
    <3>1. r.rec \in Rec /\ r.rec # Null
      BY <2>1, <2>6, ColumnsNewRec DEF NewRec
    <3>2. RecordState' = r.rec
      BY <2>2, <2>6 DEF Expected
    <3>3. \A f \in Fields : r.rec[f] \in OptBool
      BY <3>1 DEF Rec
    <3>4. \A f \in Fields : gate'[f] = (r.rec[f] # Null)
      <4>1. \A f \in Fields : gate'[f] = AggEmit(agg, gate[f], r.rec[f] # Null)
        BY <2>1, <2>3, <2>6, ColumnsNewRec
      <4>2. agg = "first" => \A f \in Fields : gate[f] = Null
        BY <2>6 DEF IInv, IEmpty
      <4>. QED
        BY <2>4, <4>1, <4>2 DEF AggEmit, Emit, FirstEmit
    <3>5. \A f \in Fields : r.rec[f] # Null => value'[f] = r.rec[f]
      <4>1. \A f \in Fields : value'[f] = AggEmit(agg, value[f], r.rec[f])
        BY <2>1, <2>3, <2>6, ColumnsNewRec
      <4>2. agg = "first" => \A f \in Fields : value[f] = Null
        BY <2>6 DEF IInv, IEmpty
      <4>. QED
        BY <2>4, <4>1, <4>2 DEF AggEmit, Emit, FirstEmit
    <3>6. count' > 0
      BY <2>3, <2>4, <2>6
    <3>. QED
      BY <1>0, <3>1, <3>2, <3>4, <3>5, <3>6 DEF IInv, IRec, ICount, IEmpty, IFields
  <2>7. CASE ~Reset(r) /\ NewRec(r) /\ agg = "first" /\ st # Null
    <3>1. RecordState' = st
      BY <2>2, <2>7 DEF Expected
    <3>2. \A f \in Fields : gate[f] = (st[f] # Null) /\ (st[f] # Null => value[f] = st[f])
      BY <2>7 DEF IInv, IFields
    <3>3. \A f \in Fields : gate'[f] = FirstEmit(gate[f], r.rec[f] # Null)
                           /\ value'[f] = FirstEmit(value[f], r.rec[f])
      BY <2>1, <2>3, <2>7, ColumnsNewRec DEF AggEmit
    <3>4. \A f \in Fields : gate'[f] = gate[f] /\ (st[f] # Null => value'[f] = value[f])
      BY <2>4, <3>2, <3>3 DEF FirstEmit
    <3>5. count' > 0
      BY <2>3, <2>4, <2>7
    <3>. QED
      BY <1>0, <2>7, <3>1, <3>2, <3>4, <3>5 DEF IInv, IRec, ICount, IEmpty, IFields
  <2>8. CASE ~Reset(r) /\ ~NewRec(r)
    <3>1. RecordState' = st
      BY <2>2, <2>8 DEF Expected
    <3>2. \A f \in Fields : gate'[f] = AggEmit(agg, gate[f], Null)
                           /\ value'[f] = AggEmit(agg, value[f], Null)
      BY <2>1, <2>3, <2>8, ColumnsOther
    <3>3. \A f \in Fields : gate'[f] = gate[f] /\ value'[f] = value[f]
      BY <2>4, <3>2 DEF AggEmit, Emit, FirstEmit
    <3>4. count' = count
      BY <2>3, <2>4, <2>8
    <3>5. IRec' /\ ICount'
      BY <3>1, <3>4 DEF IInv, IRec, ICount
    <3>6. IEmpty'
      BY <3>1, <3>3 DEF IInv, IEmpty
    <3>7. IFields'
      BY <3>1, <3>3 DEF IInv, IFields
    <3>. QED
      BY <1>0, <3>5, <3>6, <3>7 DEF IInv
  <2>. QED
    BY <2>4, <2>5, <2>6, <2>7, <2>8
<1>3. CASE Next
  BY <1>2, <1>3, Zenon DEF Next
<1>. QED
  BY <1>1, <1>3

(* The count_if gate and the gates of the fields agree with the record    *)
(* the aggregation holds, after every row of every window, for every set  *)
(* of fields and bound on the rows: count_if > 0 exactly when a record is *)
(* held, and then each gate says whether its field is valid and the field *)
(* token holds the field (TokensMatchRecord of the record_pushdown run).  *)
THEOREM TokensCorrect == Spec => []TokensMatchRecord
<1>1. IInv => TokensMatchRecord
  BY DEF IInv, ICount, IFields, TokensMatchRecord
<1>. QED
  BY InitIInv, NextIInv, <1>1, PTL DEF Spec

-----------------------------------------------------------------------------
(* The refinement.  The record the `if` / `gt` instructions assemble from  *)
(* the tokens' outputs is the record the aggregation gives the row.        *)
LEMMA OutputStep ==
  ASSUME IInv, NEW r \in InRow, Consume(r)
  PROVE  out' = Append(out, Expected(r))
<1> DEFINE st == RecordState
           G == [f \in Fields |-> AggEmit(agg, gate[f], GateInput(r, f))]
           V == [f \in Fields |-> AggEmit(agg, value[f], FieldInput(r, f))]
           C == CountIfEmit(count, CountInput(r))
<1>1. out' = Append(out, Result(G, V, C))
  BY DEF Consume
<1>2. /\ agg \in {"last", "first"} /\ count \in Nat
      /\ gate \in [Fields -> OptBool] /\ value \in [Fields -> OptBool]
      /\ Null \notin BOOLEAN /\ st \in Rec \cup {Null}
  BY PushdownAssumption DEF IInv, TypeOK, IRec
<1>3. CASE NewRec(r) /\ (agg = "last" \/ st = Null)
  <2>0. /\ r.rec \in Rec
        /\ \A f \in Fields : GateInput(r, f) = (r.rec[f] # Null)
        /\ \A f \in Fields : FieldInput(r, f) = r.rec[f]
        /\ CountInput(r) = TRUE
    BY <1>3, ColumnsNewRec
  <2>1. r.rec \in Rec /\ Expected(r) = r.rec
    BY <1>3, <2>0 DEF Expected
  <2>2. C > 0
    BY <1>2, <2>0 DEF CountIfEmit
  <2>3. agg = "first" => \A f \in Fields : gate[f] = Null /\ value[f] = Null
    BY <1>3 DEF IInv, IEmpty
  <2>4. \A f \in Fields : G[f] = AggEmit(agg, gate[f], r.rec[f] # Null)
                         /\ V[f] = AggEmit(agg, value[f], r.rec[f])
    BY <2>0
  <2>5. \A f \in Fields : G[f] = (r.rec[f] # Null) /\ (r.rec[f] # Null => V[f] = r.rec[f])
    BY <1>2, <2>3, <2>4 DEF AggEmit, Emit, FirstEmit
  <2>6. [f \in Fields |-> IfThen(G[f], V[f])] = r.rec
    <3>1. \A f \in Fields : IfThen(G[f], V[f]) = r.rec[f]
      BY <2>5 DEF IfThen
    <3>. QED
      BY <2>1, <3>1 DEF Rec
  <2>. QED
    BY <1>1, <2>1, <2>2, <2>6 DEF Result, IfThen
<1>4. CASE NewRec(r) /\ agg = "first" /\ st # Null
  <2>0. /\ r.rec \in Rec
        /\ \A f \in Fields : GateInput(r, f) = (r.rec[f] # Null)
        /\ \A f \in Fields : FieldInput(r, f) = r.rec[f]
        /\ CountInput(r) = TRUE
    BY <1>4, ColumnsNewRec
  <2>1. st \in Rec /\ Expected(r) = st
    BY <1>2, <1>4 DEF Expected
  <2>2. C > 0
    BY <1>2, <2>0 DEF CountIfEmit
  <2>3. \A f \in Fields : gate[f] = (st[f] # Null) /\ (st[f] # Null => value[f] = st[f])
    BY <1>4 DEF IInv, IFields
  <2>4. \A f \in Fields : G[f] = FirstEmit(gate[f], r.rec[f] # Null)
                         /\ V[f] = FirstEmit(value[f], r.rec[f])
    BY <1>4, <2>0 DEF AggEmit
  <2>5. \A f \in Fields : G[f] = (st[f] # Null) /\ (st[f] # Null => V[f] = st[f])
    BY <1>2, <2>3, <2>4 DEF FirstEmit
  <2>6. [f \in Fields |-> IfThen(G[f], V[f])] = st
    <3>1. \A f \in Fields : IfThen(G[f], V[f]) = st[f]
      BY <2>5 DEF IfThen
    <3>. QED
      BY <2>1, <3>1 DEF Rec
  <2>. QED
    BY <1>1, <2>1, <2>2, <2>6 DEF Result, IfThen
<1>5. CASE ~NewRec(r)
  <2>0. /\ \A f \in Fields : GateInput(r, f) = Null
        /\ \A f \in Fields : FieldInput(r, f) = Null
        /\ CountInput(r) = FALSE
    BY <1>5, ColumnsOther
  <2>1. Expected(r) = st
    BY <1>5 DEF Expected
  <2>2. C = count /\ \A f \in Fields : G[f] = gate[f] /\ V[f] = value[f]
    BY <1>2, <2>0 DEF CountIfEmit, AggEmit, Emit, FirstEmit
  <2>3. CASE st = Null
    <3>1. count = 0
      BY <1>2, <2>3 DEF IInv, ICount
    <3>. QED
      BY <1>1, <2>1, <2>2, <2>3, <3>1 DEF Result, IfThen
  <2>4. CASE st # Null
    <3>1. \A f \in Fields : G[f] = (st[f] # Null) /\ (st[f] # Null => V[f] = st[f])
      BY <2>2, <2>4 DEF IInv, IFields
    <3>2. \A f \in Fields : IfThen(G[f], V[f]) = st[f]
      BY <3>1 DEF IfThen
    <3>3. [f \in Fields |-> IfThen(G[f], V[f])] = st /\ C > 0
      BY <1>2, <2>2, <2>4, <3>2 DEF IInv, ICount, Rec
    <3>. QED
      BY <1>1, <2>1, <3>3 DEF Result, IfThen
  <2>. QED
    BY <2>3, <2>4
<1>. QED
  BY <1>2, <1>3, <1>4, <1>5

LEMMA InitRefines == Init => R!AInit
<1> SUFFICES ASSUME Init PROVE R!AInit
  OBVIOUS
<1>1. AbstractRows = << >>
  BY DEF Init, AbstractRows
<1>. QED
  BY <1>1 DEF Init, R!AInit, R!Modes

LEMMA NextRefines ==
  IInv /\ [Next]_vars => [IF agg = "last" THEN R!ANext ELSE F!FNext]_R!avars
<1> SUFFICES ASSUME IInv, [Next]_vars
             PROVE  [IF agg = "last" THEN R!ANext ELSE F!FNext]_R!avars
  OBVIOUS
<1>1. CASE UNCHANGED vars
  <2>1. UNCHANGED R!avars
    BY <1>1 DEF vars, R!avars, AbstractRows
  <2>. QED
    BY <2>1
<1>2. ASSUME NEW r \in RowsFor(args), Consume(r)
      PROVE  IF agg = "last" THEN R!ANext ELSE F!FNext
  <2> DEFINE a == AsAbstract(r)
  <2>1. r \in InRow /\ TypeOK
    BY DEF RowsFor, IInv
  <2>2. a \in R!Row /\ AbstractRows' = Append(AbstractRows, a) /\ args' = args
    BY <1>2, <2>1, AbstractRowsStep, AsAbstractRow DEF Consume, TypeOK
  <2>3. out' = Append(out, Expected(r))
    BY <1>2, <2>1, OutputStep
  <2>4. (IF agg = "last"
           THEN R!OutputAt(args, AbstractRows', Len(AbstractRows'))
           ELSE F!FirstOutputAt(args, AbstractRows', Len(AbstractRows')))
        = Expected(r)
    BY <1>2, <2>1, RecordStep
  <2>5. CASE agg = "last"
    <3>1. R!AConsume(a)
      BY <2>2, <2>3, <2>4, <2>5 DEF R!AConsume
    <3>. QED
      BY <2>2, <2>5, <3>1 DEF R!ANext
  <2>6. CASE agg # "last"
    <3>1. F!FConsume(a)
      BY <2>2, <2>3, <2>4, <2>6 DEF F!FConsume
    <3>. QED
      BY <2>2, <2>6, <3>1 DEF F!FNext, F!Row, R!Row, F!OptVal, R!OptVal
  <2>. QED
    BY <2>5, <2>6
<1>3. CASE Next
  BY <1>2, <1>3, Zenon DEF Next
<1>. QED
  BY <1>1, <1>3

(* The plan the compiler builds for `last` and `first` over a record, with *)
(* a gate and a value token per field and a count_if, implements the      *)
(* aggregation over whole records (LastAbstract / FirstAbstract): for     *)
(* every set of fields, every row it emits the latest (or earliest) new,  *)
(* valid record of the window, null fields included, and null while      *)
(* there is none (PushdownRefinement of the record_pushdown run).         *)
THEOREM Refinement == Spec => PushdownRefinement
<1>1. Spec => []IInv
  BY InitIInv, NextIInv, PTL DEF Spec
<1>. QED
  BY <1>1, InitRefines, NextRefines, PTL DEF Spec, PushdownRefinement

=============================================================================
