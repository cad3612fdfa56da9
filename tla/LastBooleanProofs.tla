-------------------------- MODULE LastBooleanProofs --------------------------
(***************************************************************************)
(* Proofs about LastBoolean, for every value of the constants.             *)
(***************************************************************************)
EXTENDS LastBoolean, TLAPS

(* A batch handed to evaluate is a finite sequence of rows.               *)
LEMMA BatchesAreRows ==
  ASSUME NEW ng \in Nat, NEW b \in BatchesFor(ng)
  PROVE  b \in Seq(Row)
<1>1. PICK n \in 0 .. MaxBatchLen : b \in [1 .. n -> RowsFor(ng)]
  BY DEF BatchesFor
<1>2. RowsFor(ng) \subseteq Row
  BY DEF RowsFor
<1>3. QED
  BY <1>1, <1>2, BoundsAssumption

(* Every row value and every emitted value is an Option<bool>.            *)
LEMMA RowFields ==
  ASSUME NEW r \in Row
  PROVE  /\ r.entity \in Entities
         /\ r.input \in OptBool
         /\ r.tick \in OptBool
BY DEF Row, A!Row, OptBool, A!OptVal

(* One step of the evaluator keeps every variable in its type.           *)
LEMMA TypeInductive == TypeOK /\ [Next]_vars => TypeOK'
<1> SUFFICES ASSUME TypeOK, [Next]_vars PROVE TypeOK'
  OBVIOUS
<1>1. ASSUME NEW ng \in capacity .. MaxGroups, NEW b \in BatchesFor(ng),
             ng > 0, Evaluate(ng, b)
      PROVE  TypeOK'
  <2>1. b \in Seq(Row)
    BY BatchesAreRows, BoundsAssumption, <1>1 DEF TypeOK
  <2>2. token' \in [Entities -> OptBool]
    BY <1>1 DEF Evaluate, Resize, TypeOK, OptBool, A!OptVal
  <2>3. capacity' \in 0 .. MaxGroups
    BY <1>1, BoundsAssumption DEF Evaluate, Resize, TypeOK
  <2>4. QED
    BY <1>1, <2>1, <2>2, <2>3, BoundsAssumption DEF Evaluate, TypeOK
<1>2. CASE ResolveFail
  BY <1>2, BoundsAssumption DEF ResolveFail, TypeOK
<1>3. CASE Step
  <2>1. batch[pos] \in Row
    BY <1>3 DEF Step, TypeOK
  <2>2. /\ batch[pos].entity \in Entities
        /\ batch[pos].input \in OptBool
        /\ batch[pos].tick \in OptBool
    BY <2>1, RowFields
  <2>3. /\ token' \in [Entities -> OptBool]
        /\ out' \in Seq(OptBool)
    <3>1. CASE args = "NoWindow" /\ UpdateAccum(batch[pos])
      BY <2>2, <3>1 DEF UpdateAccum, Emit, TypeOK, OptBool, A!OptVal
    <3>2. CASE args = "Since" /\ UpdateSinceAccum(batch[pos])
      BY <2>2, <3>2 DEF UpdateSinceAccum, SinceEntry, Emit, TypeOK, OptBool, A!OptVal
    <3>3. QED
      BY <1>3, <3>1, <3>2 DEF Step
  <2>4. QED
    BY <1>3, <2>1, <2>3 DEF Step, TypeOK
<1>4. CASE Return
  BY <1>4 DEF Return, TypeOK
<1>5. CASE UNCHANGED vars
  BY <1>5 DEF vars, TypeOK
<1>6. QED
  BY <1>1, <1>2, <1>3, <1>4, <1>5 DEF Next

(* The evaluator's variables keep their types (TypeOK of the runs).       *)
THEOREM TypeCorrect == Spec => []TypeOK
<1>1. Init => TypeOK
  BY BoundsAssumption DEF Init, TypeOK, OptBool, A!OptVal, Entities
<1>2. QED
  BY <1>1, TypeInductive, PTL DEF Spec

-----------------------------------------------------------------------------
(* How the reference state of one entity changes when one row is          *)
(* appended to the consumed stream: a TRUE tick of that entity empties    *)
(* the window, a valid input of it becomes the latest live input, and any *)
(* other row leaves the window as it was.                                 *)

LEMMA LiveAppendReset ==
  ASSUME NEW m, NEW s \in Seq(Row), NEW r \in Row, NEW e,
         r.entity = e, A!Resets(m, r)
  PROVE  A!Live(m, Append(s, r), e, Len(s) + 1, Len(s) + 1) = {}
BY DEF A!Live

LEMMA LiveAppendOther ==
  ASSUME NEW m, NEW s \in Seq(Row), NEW r \in Row, NEW e,
         ~(r.entity = e /\ A!Resets(m, r)),
         ~(r.entity = e /\ r.input # Null)
  PROVE  A!Live(m, Append(s, r), e, Len(s) + 1, Len(s) + 1)
           = A!Live(m, s, e, Len(s), Len(s))
BY DEF A!Live

LEMMA LiveAppendInput ==
  ASSUME NEW m, NEW s \in Seq(Row), NEW r \in Row, NEW e,
         r.entity = e, ~A!Resets(m, r), r.input # Null
  PROVE  /\ Len(s) + 1 \in A!Live(m, Append(s, r), e, Len(s) + 1, Len(s) + 1)
         /\ A!Live(m, Append(s, r), e, Len(s) + 1, Len(s) + 1)
              \subseteq 1 .. Len(s) + 1
BY DEF A!Live

LEMMA StateAfterAppend ==
  ASSUME NEW m, NEW s \in Seq(Row), NEW r \in Row, NEW e
  PROVE  A!StateAfter(m, Append(s, r), e) =
           IF r.entity = e /\ A!Resets(m, r) THEN Null
           ELSE IF r.entity = e /\ r.input # Null THEN r.input
           ELSE A!StateAfter(m, s, e)
<1> DEFINE t == Append(s, r)
           n == Len(s)
           L == A!Live(m, t, e, n + 1, n + 1)
<1>1. Len(t) = n + 1
  OBVIOUS
<1>2. A!StateAfter(m, t, e) = A!LastLive(m, t, e, n + 1, n + 1)
  BY <1>1 DEF A!StateAfter
<1>3. CASE r.entity = e /\ A!Resets(m, r)
  BY <1>2, <1>3, LiveAppendReset DEF A!LastLive
<1>4. CASE ~(r.entity = e /\ A!Resets(m, r)) /\ r.entity = e /\ r.input # Null
  <2>1. /\ n + 1 \in L
        /\ L \subseteq 1 .. n + 1
    BY <1>4, LiveAppendInput
  <2>2. t[n + 1] = r
    OBVIOUS
  <2>3. r.input \in OptBool
    BY RowFields
  <2>4. \A v : (\E i \in L : t[i].input = v /\ \A j \in L : j <= i)
                  <=> v = r.input
    BY <2>1, <2>2
  <2>5. QED
    BY <1>2, <1>4, <2>1, <2>3, <2>4 DEF A!LastLive, OptBool
<1>5. CASE ~(r.entity = e /\ A!Resets(m, r)) /\ ~(r.entity = e /\ r.input # Null)
  <2>1. L = A!Live(m, s, e, n, n)
    BY <1>5, LiveAppendOther
  <2>2. A!Live(m, s, e, n, n) \subseteq 1 .. n
    BY DEF A!Live
  <2>3. \A i \in 1 .. n : t[i] = s[i]
    OBVIOUS
  <2>4. \A v : (\E i \in L : t[i].input = v /\ \A j \in L : j <= i)
                  <=> (\E i \in L : s[i].input = v /\ \A j \in L : j <= i)
    BY <2>2, <2>3, <2>1
  <2>5. A!LastLive(m, t, e, n + 1, n + 1) = A!LastLive(m, s, e, n, n)
    <3>1. CASE L = {}
      BY <2>1, <3>1 DEF A!LastLive
    <3>2. CASE L # {}
      <4>1. (CHOOSE v \in A!OptVal :
               \E i \in L : t[i].input = v /\ \A j \in L : j <= i)
            = (CHOOSE v \in A!OptVal :
               \E i \in A!Live(m, s, e, n, n) :
                 s[i].input = v /\ \A j \in A!Live(m, s, e, n, n) : j <= i)
        BY <2>1, <2>4, Zenon
      <4>2. A!Live(m, s, e, n, n) # {}
        BY <2>1, <3>2
      <4>3. A!LastLive(m, t, e, n + 1, n + 1)
            = CHOOSE v \in A!OptVal :
                \E i \in L : t[i].input = v /\ \A j \in L : j <= i
        BY <3>2 DEF A!LastLive
      <4>4. A!LastLive(m, s, e, n, n)
            = CHOOSE v \in A!OptVal :
                \E i \in A!Live(m, s, e, n, n) :
                  s[i].input = v /\ \A j \in A!Live(m, s, e, n, n) : j <= i
        BY <4>2 DEF A!LastLive
      <4>5. QED
        BY <4>1, <4>3, <4>4
    <3>3. QED
      BY <3>1, <3>2
  <2>6. QED
    BY <1>2, <1>5, <2>5 DEF A!StateAfter
<1>6. QED
  BY <1>3, <1>4, <1>5

-----------------------------------------------------------------------------
(* The inductive invariant behind TokenMatchesHistory: every group index  *)
(* of a consumed row, and of the batch being evaluated, is below the      *)
(* capacity the token has been resized to.  Without it a resize could     *)
(* null an entry the history says is set.                                 *)
ConsumedBelowCapacity ==
  \A i \in 1 .. Len(consumed) : consumed[i].entity < capacity

BatchBelowCapacity ==
  \A i \in 1 .. Len(batch) : batch[i].entity < capacity

IInv ==
  /\ TypeOK
  /\ TokenMatchesHistory
  /\ ConsumedBelowCapacity
  /\ BatchBelowCapacity

(* An entity none of whose rows has been consumed holds the null state.   *)
LEMMA NoRowsNull ==
  ASSUME NEW m, NEW s \in Seq(Row), NEW e,
         \A i \in 1 .. Len(s) : s[i].entity # e
  PROVE  A!StateAfter(m, s, e) = Null
BY DEF A!StateAfter, A!LastLive, A!Live

(* The strengthened invariant holds initially.                            *)
LEMMA InitIInv == Init => IInv
<1> SUFFICES ASSUME Init PROVE IInv
  OBVIOUS
<1>1. TypeOK
  BY BoundsAssumption DEF Init, TypeOK, OptBool, A!OptVal, Entities
<1>2. TokenMatchesHistory
  <2> SUFFICES ASSUME NEW e \in Entities
               PROVE  A!StateAfter(args, <<>>, e) = Null
    BY DEF Init, TokenMatchesHistory
  <2>1. A!Live(args, <<>>, e, 0, 0) = {}
    BY DEF A!Live
  <2>2. QED
    BY <2>1 DEF A!StateAfter, A!LastLive
<1>3. QED
  BY <1>1, <1>2 DEF Init, IInv, ConsumedBelowCapacity, BatchBelowCapacity

(* Every step of the evaluator keeps the strengthened invariant.          *)
LEMMA NextIInv == IInv /\ [Next]_vars => IInv'
<1> SUFFICES ASSUME IInv, [Next]_vars PROVE IInv'
  OBVIOUS
<1> USE DEF IInv
<1>1. TypeOK'
  BY TypeInductive
<1>2. ASSUME NEW ng \in capacity .. MaxGroups, NEW b \in BatchesFor(ng),
             ng > 0, Evaluate(ng, b)
      PROVE  IInv'
  <2>1. capacity <= capacity' /\ ng <= capacity'
    BY <1>2, BoundsAssumption DEF Evaluate, Resize, TypeOK
  <2>2. TokenMatchesHistory'
    <3> SUFFICES ASSUME NEW e \in Entities
                 PROVE  token'[e] = A!StateAfter(args, consumed, e)
      BY <1>2 DEF Evaluate, TokenMatchesHistory
    <3>1. CASE e < capacity
      BY <1>2, <3>1 DEF Evaluate, Resize, TokenMatchesHistory
    <3>2. CASE ~(e < capacity)
      <4>1. \A i \in 1 .. Len(consumed) : consumed[i].entity # e
        BY <3>2, BoundsAssumption DEF ConsumedBelowCapacity, TypeOK, Entities
      <4>2. QED
        BY <1>2, <3>2, <4>1, NoRowsNull DEF Evaluate, Resize, TypeOK
    <3>3. QED
      BY <3>1, <3>2
  <2>3. ConsumedBelowCapacity'
    <3>1. \A i \in 1 .. Len(consumed) : consumed[i].entity \in Entities
      BY RowFields DEF TypeOK
    <3>2. capacity \in Nat /\ capacity' \in Nat
      BY <1>1 DEF TypeOK
    <3>3. QED
      BY <1>2, <2>1, <3>1, <3>2, BoundsAssumption
         DEF Evaluate, ConsumedBelowCapacity, Entities
  <2>4. BatchBelowCapacity'
    <3>1. \A i \in 1 .. Len(b) : b[i].entity < ng
      <4>1. PICK n \in 0 .. MaxBatchLen : b \in [1 .. n -> RowsFor(ng)]
        BY DEF BatchesFor
      <4>2. n \in Nat /\ Len(b) = n
        BY <4>1, BoundsAssumption
      <4>3. QED
        BY <4>1, <4>2 DEF RowsFor
    <3>2. \A i \in 1 .. Len(b) : b[i].entity \in Entities
      BY BatchesAreRows, RowFields, BoundsAssumption DEF TypeOK
    <3>3. ng \in Nat /\ capacity' \in Nat
      BY <1>1, BoundsAssumption DEF TypeOK
    <3>4. QED
      BY <1>2, <2>1, <3>1, <3>2, <3>3
         DEF Evaluate, BatchBelowCapacity, Entities
  <2>5. QED
    BY <1>1, <2>2, <2>3, <2>4
<1>3. CASE ResolveFail
  BY <1>1, <1>3
     DEF ResolveFail, TokenMatchesHistory, ConsumedBelowCapacity, BatchBelowCapacity
<1>4. CASE Step
  <2> DEFINE r == batch[pos]
  <2>1. r \in Row /\ r.entity < capacity
    BY <1>4 DEF Step, TypeOK, BatchBelowCapacity
  <2>2. consumed' = Append(consumed, r) /\ args' = args /\ capacity' = capacity
    BY <1>4 DEF Step
  <2>3. TokenMatchesHistory'
    <3> SUFFICES ASSUME NEW e \in Entities
                 PROVE  token'[e] = A!StateAfter(args, Append(consumed, r), e)
      BY <2>2 DEF TokenMatchesHistory
    <3>1. A!StateAfter(args, Append(consumed, r), e) =
            IF r.entity = e /\ A!Resets(args, r) THEN Null
            ELSE IF r.entity = e /\ r.input # Null THEN r.input
            ELSE A!StateAfter(args, consumed, e)
      BY <2>1, StateAfterAppend DEF TypeOK
    <3>2. token[e] = A!StateAfter(args, consumed, e)
      BY DEF TokenMatchesHistory
    <3>3. r.entity \in Entities
      BY <2>1, RowFields
    <3>4. CASE args = "NoWindow" /\ UpdateAccum(r)
      BY <3>1, <3>2, <3>3, <3>4 DEF UpdateAccum, Emit, A!Resets, TypeOK
    <3>5. CASE args = "Since" /\ UpdateSinceAccum(r)
      BY <3>1, <3>2, <3>3, <3>5 DEF UpdateSinceAccum, SinceEntry, Emit, A!Resets, TypeOK
    <3>6. QED
      BY <1>4, <3>4, <3>5 DEF Step
  <2>4. ConsumedBelowCapacity'
    BY <2>1, <2>2 DEF ConsumedBelowCapacity, TypeOK
  <2>5. BatchBelowCapacity'
    BY <1>4 DEF Step, BatchBelowCapacity
  <2>6. QED
    BY <1>1, <2>3, <2>4, <2>5
<1>5. CASE Return
  BY <1>1, <1>5
     DEF Return, TokenMatchesHistory, ConsumedBelowCapacity, BatchBelowCapacity
<1>6. CASE UNCHANGED vars
  BY <1>1, <1>6
     DEF vars, TokenMatchesHistory, ConsumedBelowCapacity, BatchBelowCapacity
<1>7. QED
  BY <1>2, <1>3, <1>4, <1>5, <1>6 DEF Next

(* Every token entry agrees with the rows of its entity consumed so far,  *)
(* in every batch split (TokenMatchesHistory of the runs), for every      *)
(* bound on groups, batch length and batch count.                         *)
THEOREM TokenCorrect == Spec => []TokenMatchesHistory
<1>1. IInv => TokenMatchesHistory
  BY DEF IInv
<1>2. QED
  BY InitIInv, NextIInv, <1>1, PTL DEF Spec

-----------------------------------------------------------------------------
(* The output the abstract specification gives an appended row: its own   *)
(* input when valid, else the state its entity held before the row (the   *)
(* row's own tick resets only after the output).                          *)
LEMMA OutputAppend ==
  ASSUME NEW m, NEW s \in Seq(Row), NEW r \in Row
  PROVE  A!OutputAt(m, Append(s, r), Len(s) + 1)
           = Emit(A!StateAfter(m, s, r.entity), r.input)
<1> DEFINE t == Append(s, r)
           n == Len(s)
           e == r.entity
           L == A!Live(m, t, e, n + 1, n)
<1>1. A!OutputAt(m, t, n + 1) = A!LastLive(m, t, e, n + 1, n)
  BY DEF A!OutputAt
<1>2. CASE r.input # Null
  <2>1. /\ n + 1 \in L
        /\ L \subseteq 1 .. n + 1
    BY <1>2 DEF A!Live
  <2>2. r.input \in OptBool
    BY RowFields
  <2>3. \A v : (\E i \in L : t[i].input = v /\ \A j \in L : j <= i)
                  <=> v = r.input
    BY <2>1
  <2>4. A!LastLive(m, t, e, n + 1, n) = r.input
    BY <2>1, <2>2, <2>3 DEF A!LastLive, OptBool
  <2>5. QED
    BY <1>1, <1>2, <2>4 DEF Emit
<1>3. CASE r.input = Null
  <2>1. L = A!Live(m, s, e, n, n)
    BY <1>3 DEF A!Live
  <2>2. A!Live(m, s, e, n, n) \subseteq 1 .. n
    BY DEF A!Live
  <2>3. \A i \in 1 .. n : t[i] = s[i]
    OBVIOUS
  <2>4. \A v : (\E i \in L : t[i].input = v /\ \A j \in L : j <= i)
                  <=> (\E i \in L : s[i].input = v /\ \A j \in L : j <= i)
    BY <2>2, <2>3, <2>1
  <2>5. A!LastLive(m, t, e, n + 1, n) = A!LastLive(m, s, e, n, n)
    <3>1. CASE L = {}
      BY <2>1, <3>1 DEF A!LastLive
    <3>2. CASE L # {}
      <4>1. (CHOOSE v \in A!OptVal :
               \E i \in L : t[i].input = v /\ \A j \in L : j <= i)
            = (CHOOSE v \in A!OptVal :
               \E i \in A!Live(m, s, e, n, n) :
                 s[i].input = v /\ \A j \in A!Live(m, s, e, n, n) : j <= i)
        BY <2>1, <2>4, Zenon
      <4>2. A!Live(m, s, e, n, n) # {}
        BY <2>1, <3>2
      <4>3. A!LastLive(m, t, e, n + 1, n)
            = CHOOSE v \in A!OptVal :
                \E i \in L : t[i].input = v /\ \A j \in L : j <= i
        BY <3>2 DEF A!LastLive
      <4>4. A!LastLive(m, s, e, n, n)
            = CHOOSE v \in A!OptVal :
                \E i \in A!Live(m, s, e, n, n) :
                  s[i].input = v /\ \A j \in A!Live(m, s, e, n, n) : j <= i
        BY <4>2 DEF A!LastLive
      <4>5. QED
        BY <4>1, <4>3, <4>4
    <3>3. QED
      BY <3>1, <3>2
  <2>6. QED
    BY <1>1, <1>3, <2>5 DEF A!StateAfter, Emit
<1>4. QED
  BY <1>2, <1>3

(* The evaluator implements the `last` promise (LastRefinement of the     *)
(* runs): every value update_accum / update_since_accum emits, across     *)
(* batches of any split and any num_groups, is the output LastAbstract     *)
(* gives that row of the consumed stream, for every bound.                *)
THEOREM Refinement == Spec => LastRefinement
<1>1. Init => A!AInit
  BY DEF Init, A!AInit, A!Modes
<1>2. IInv /\ [Next]_vars => [A!ANext]_A!avars
  <2> SUFFICES ASSUME IInv, [Next]_vars PROVE [A!ANext]_A!avars
    OBVIOUS
  <2>1. CASE Step
    <3> DEFINE r == batch[pos]
    <3>1. r \in Row /\ r.entity \in Entities
      BY <2>1, RowFields DEF Step, IInv, TypeOK
    <3>2. consumed \in Seq(Row)
      BY DEF IInv, TypeOK
    <3>3. token[r.entity] = A!StateAfter(args, consumed, r.entity)
      BY <3>1 DEF IInv, TokenMatchesHistory
    <3>4. out' = Append(out, Emit(token[r.entity], r.input))
      BY <2>1 DEF Step, UpdateAccum, UpdateSinceAccum
    <3>5. consumed' = Append(consumed, r) /\ args' = args
      BY <2>1 DEF Step
    <3>6. A!OutputAt(args, consumed', Len(consumed'))
            = Emit(A!StateAfter(args, consumed, r.entity), r.input)
      BY <3>1, <3>2, <3>5, OutputAppend
    <3>7. A!AConsume(r)
      BY <3>3, <3>4, <3>5, <3>6 DEF A!AConsume
    <3>8. A!ANext
      BY <3>1, <3>7, Zenon DEF A!ANext, Row
    <3>9. QED
      BY <3>8
  <2>2. CASE ~Step
    <3>1. UNCHANGED <<args, consumed, out>>
      BY <2>2 DEF Next, Evaluate, ResolveFail, Return, vars
    <3>2. QED
      BY <3>1 DEF A!avars
  <2>3. QED
    BY <2>1, <2>2
<1>3. QED
  BY InitIInv, NextIInv, <1>1, <1>2, PTL DEF Spec, LastRefinement, A!ASpec

=============================================================================
