--------------------------- MODULE ExampleRunProofs ---------------------------
(***************************************************************************)
(* Proofs about the example runner (module ExampleRun): the temp-file     *)
(* bookkeeping of the input preparer, and that the query runs on the      *)
(* example's inputs with every prepared file alive, for every example.    *)
(***************************************************************************)
EXTENDS ExampleRun, SequenceTheorems, TLAPS

Name == STRING \cup {"Input"}

Table == [name : Name, data : Nat, meta : Nat]

(* The names of the prepared tables, in order.                            *)
Names(t) == [i \in DOMAIN t |-> t[i].name]

(* The inductive invariant: the prepared tables followed by the pending   *)
(* names are the example's inputs; the prepared files exist until the     *)
(* runner returns; no file is ahead of the temp-file counter.              *)
IInv ==
  /\ example \in Examples
  /\ stage \in {"prepare", "execute", "returned", "panicked"}
  /\ nextTmp \in Nat
  /\ tables \in Seq(Table)
  /\ pending \in Seq(Name)
  /\ kept \in Seq(Nat)
  /\ inDisk \subseteq 0 .. nextTmp - 1
  /\ Kept(kept) \subseteq 0 .. nextTmp - 1
  /\ Names(tables) \o pending = InputNames(example)
  /\ stage = "execute" => pending = << >>
  /\ stage \in {"prepare", "execute"} =>
       \A i \in 1 .. Len(tables) : {tables[i].data, tables[i].meta} \subseteq inDisk

-----------------------------------------------------------------------------

(* The names of a sequence of tables form a sequence of the same length. *)
LEMMA NamesSeq ==
  ASSUME NEW t \in Seq(Table)
  PROVE  Names(t) \in Seq(Name) /\ Len(Names(t)) = Len(t)
<1>0. DOMAIN t = 1 .. Len(t) /\ Len(t) \in Nat
  BY LenProperties
<1>a. \A i \in 1 .. Len(t) : t[i].name \in Name
  <2> TAKE i \in 1 .. Len(t)
  <2>1. t[i] \in Table
    BY ElementOfSeq
  <2>. QED
    BY <2>1 DEF Table
<1>b. Names(t) \in [1 .. Len(t) -> Name]
  BY <1>0, <1>a DEF Names
<1>. QED
  BY <1>0, <1>b DEF Names

(* Appending a table appends its name.                                    *)
LEMMA NamesAppend ==
  ASSUME NEW t \in Seq(Table), NEW r \in Table
  PROVE  Names(Append(t, r)) = Append(Names(t), r.name)
<1>0. DOMAIN t = 1 .. Len(t) /\ Len(t) \in Nat
  BY LenProperties
<1>a. \A i \in 1 .. Len(t) : t[i].name \in Name
  <2> TAKE i \in 1 .. Len(t)
  <2>1. t[i] \in Table
    BY ElementOfSeq
  <2>. QED
    BY <2>1 DEF Table
<1>1. Names(t) \in Seq(Name) /\ Len(Names(t)) = Len(t)
  BY NamesSeq
<1>2. Append(t, r) \in Seq(Table)
  BY AppendProperties
<1>3. Names(Append(t, r)) \in Seq(Name) /\ Len(Names(Append(t, r))) = Len(t) + 1
  <2>0. DOMAIN Append(t, r) = 1 .. Len(t) + 1 /\ Len(t) + 1 \in Nat
    BY <1>0, <1>2, AppendProperties, LenProperties
  <2>a. \A i \in 1 .. Len(t) + 1 : Append(t, r)[i].name \in Name
    BY <1>0, <1>a, AppendProperties DEF Table
  <2>b. Names(Append(t, r)) \in [1 .. Len(t) + 1 -> Name]
    BY <2>0, <2>a DEF Names
  <2>. QED
    BY <2>0, <2>b DEF Names
<1>4. Append(Names(t), r.name) \in Seq(Name) /\ Len(Append(Names(t), r.name)) = Len(t) + 1
  BY <1>1, AppendProperties DEF Table
<1>5. \A i \in 1 .. Len(t) + 1 : Names(Append(t, r))[i] = Append(Names(t), r.name)[i]
  BY <1>1, AppendProperties DEF Names
<1>. QED
  BY <1>1, <1>3, <1>4, <1>5, SeqEqual

(* Moving the head of the pending names to the end of the prepared ones  *)
(* leaves their concatenation unchanged.                                  *)
LEMMA ShiftHead ==
  ASSUME NEW S, NEW s \in Seq(S), NEW p \in Seq(S), p # << >>
  PROVE  Append(s, Head(p)) \o Tail(p) = s \o p
<1>1. Head(p) \in S /\ Tail(p) \in Seq(S) /\ Len(Tail(p)) = Len(p) - 1
      /\ \A i \in 1 .. Len(Tail(p)) : Tail(p)[i] = p[i + 1]
  BY HeadTailProperties
<1>2. Append(s, Head(p)) \in Seq(S) /\ Len(Append(s, Head(p))) = Len(s) + 1
      /\ \A i \in 1 .. Len(s) : Append(s, Head(p))[i] = s[i]
      /\ Append(s, Head(p))[Len(s) + 1] = Head(p)
  BY <1>1, AppendProperties
<1>3. Len(p) \in Nat \ {0} /\ Head(p) = p[1]
  BY EmptySeq
<1>4. /\ Append(s, Head(p)) \o Tail(p) \in Seq(S)
      /\ Len(Append(s, Head(p)) \o Tail(p)) = Len(s) + Len(p)
      /\ \A i \in 1 .. Len(s) + Len(p) : (Append(s, Head(p)) \o Tail(p))[i] =
            IF i <= Len(s) + 1 THEN Append(s, Head(p))[i] ELSE Tail(p)[i - (Len(s) + 1)]
  BY <1>1, <1>2, <1>3, ConcatProperties
<1>5. /\ s \o p \in Seq(S)
      /\ Len(s \o p) = Len(s) + Len(p)
      /\ \A i \in 1 .. Len(s) + Len(p) : (s \o p)[i] =
            IF i <= Len(s) THEN s[i] ELSE p[i - Len(s)]
  BY ConcatProperties
<1>. QED
  BY <1>1, <1>2, <1>3, <1>4, <1>5, SeqEqual

(* The runner's inputs form a sequence of names.                         *)
LEMMA InputNamesSeq ==
  ASSUME NEW ex \in Examples
  PROVE  InputNames(ex) \in Seq(Name)
<1>1. ex.tables \in Seq(Name)
  BY ExampleAssumption, SeqMonotonic DEF Name
<1>2. (IF ex.input THEN <<"Input">> ELSE <<>>) \in Seq(Name)
  <2>1. "Input" \in Name
    BY DEF Name
  <2>2. <<"Input">> \in Seq(Name)
    BY <2>1
  <2>. QED
    BY <2>2, EmptySeq
<1>. QED
  BY <1>1, <1>2, ConcatProperties DEF InputNames

(* The temp files a vector holds, after two pushes.                       *)
LEMMA KeptAppend ==
  ASSUME NEW k \in Seq(Nat), NEW d \in Nat, NEW m \in Nat
  PROVE  /\ Append(Append(k, d), m) \in Seq(Nat)
         /\ Kept(Append(Append(k, d), m)) = Kept(k) \cup {d, m}
<1>1. Append(k, d) \in Seq(Nat) /\ Len(Append(k, d)) = Len(k) + 1
      /\ \A i \in 1 .. Len(k) : Append(k, d)[i] = k[i]
      /\ Append(k, d)[Len(k) + 1] = d
  BY AppendProperties
<1>2. Append(Append(k, d), m) \in Seq(Nat)
      /\ Len(Append(Append(k, d), m)) = Len(k) + 2
      /\ \A i \in 1 .. Len(k) + 1 : Append(Append(k, d), m)[i] = Append(k, d)[i]
      /\ Append(Append(k, d), m)[Len(k) + 2] = m
  BY <1>1, AppendProperties
<1>. QED
  BY <1>1, <1>2 DEF Kept

-----------------------------------------------------------------------------

LEMMA InitIInv == ExampleInit => IInv
<1> SUFFICES ASSUME ExampleInit PROVE IInv
  OBVIOUS
<1>1. InputNames(example) \in Seq(Name)
  BY InputNamesSeq DEF ExampleInit
<1>2. Names(<< >>) = << >>
  BY DEF Names
<1>. QED
  BY <1>1, <1>2, EmptySeq, ConcatEmptySeq DEF ExampleInit, IInv, Kept

(* A temp-file counter that grows covers every file it covered.          *)
LEMMA RangeMono ==
  ASSUME NEW a \in Nat, NEW b \in Nat, a <= b
  PROVE  0 .. a - 1 \subseteq 0 .. b - 1
  OBVIOUS

(* execute_example returning or panicking, with the counter not moving   *)
(* back, keeps the invariant: the query is over and the files it          *)
(* needed may go.                                                          *)
LEMMA ExitIInv ==
  ASSUME IInv, (\E e : Return(e)) \/ Panic,
         UNCHANGED <<example, pending, tables>>,
         nextTmp' \in Nat, nextTmp <= nextTmp'
  PROVE  IInv'
<1>0. nextTmp \in Nat /\ kept \in Seq(Nat)
  BY DEF IInv
<1>1. stage' \in {"returned", "panicked"}
  BY DEF Return, Panic
<1>2. kept' \in Seq(Nat) /\ Kept(kept') \subseteq Kept(kept) /\ inDisk' \subseteq inDisk
  <2>1. CASE \E e : Return(e)
    <3>1. kept' = << >> /\ inDisk' \subseteq inDisk
      BY <2>1 DEF Return
    <3>. QED
      BY <1>0, <3>1, EmptySeq DEF Kept
  <2>2. CASE Panic
    BY <1>0, <2>2 DEF Panic
  <2>. QED
    BY <2>1, <2>2
<1>3. 0 .. nextTmp - 1 \subseteq 0 .. nextTmp' - 1
  BY <1>0, RangeMono
<1>. QED
  BY <1>1, <1>2, <1>3 DEF IInv

LEMMA NextIInv == IInv /\ [ExampleNext]_allvars => IInv'
<1> SUFFICES ASSUME IInv, [ExampleNext]_allvars PROVE IInv'
  OBVIOUS
<1>1. CASE UNCHANGED exvars
  BY <1>1 DEF IInv, exvars, Names, Kept, InputNames
<1>2. CASE Query(Next)
  BY <1>1, <1>2 DEF Query
<1>3. CASE ReadResult
  BY <1>3, ExitIInv DEF ReadResult, IInv
<1>4. CASE CompileAndExecute
  <2>1. CASE stage' = "execute" /\ UNCHANGED <<kept, inDisk, exErr>>
    BY <1>4, <2>1 DEF CompileAndExecute, IInv
  <2>. QED
    BY <1>4, <2>1, ExitIInv DEF CompileAndExecute, IInv
<1>5. CASE PrepareInput
  <2> DEFINE d == nextTmp
             m == nextTmp + 1
             r == [name |-> Head(pending), data |-> d, meta |-> m]
  <2>1. CASE /\ tables' = Append(tables, r)
             /\ kept' = Append(Append(kept, d), m)
             /\ inDisk' = inDisk \cup {d, m}
             /\ nextTmp' = nextTmp + 2
             /\ pending' = Tail(pending)
             /\ UNCHANGED <<stage, exErr>>
    <3>1. stage = "prepare" /\ pending # << >> /\ example' = example
      BY <1>5 DEF PrepareInput
    <3>2. r \in Table /\ Tail(pending) \in Seq(Name)
      BY <3>1, HeadTailProperties DEF IInv, Table
    <3>3. tables' \in Seq(Table) /\ Len(tables') = Len(tables) + 1
          /\ tables'[Len(tables) + 1] = r
          /\ \A i \in 1 .. Len(tables) : tables'[i] = tables[i]
      BY <2>1, <3>2, AppendProperties DEF IInv
    <3>4. Names(tables') \o pending' = InputNames(example')
      <4>1. Names(tables') = Append(Names(tables), Head(pending))
        BY <2>1, <3>2, NamesAppend DEF IInv
      <4>2. Names(tables) \in Seq(Name)
        BY NamesSeq DEF IInv
      <4>. QED
        BY <2>1, <3>1, <4>1, <4>2, ShiftHead DEF IInv
    <3>5. kept' \in Seq(Nat) /\ Kept(kept') = Kept(kept) \cup {d, m}
      BY <2>1, KeptAppend DEF IInv
    <3>6. /\ inDisk' \subseteq 0 .. nextTmp' - 1
          /\ Kept(kept') \subseteq 0 .. nextTmp' - 1
      <4>1. nextTmp \in Nat /\ inDisk \subseteq 0 .. nextTmp - 1
            /\ Kept(kept) \subseteq 0 .. nextTmp - 1
        BY DEF IInv
      <4>2. 0 .. nextTmp - 1 \cup {d, m} \subseteq 0 .. nextTmp' - 1
        BY <2>1, <4>1
      <4>. QED
        BY <2>1, <3>5, <4>1, <4>2
    <3>7. \A i \in 1 .. Len(tables') : {tables'[i].data, tables'[i].meta} \subseteq inDisk'
      <4>1. \A i \in 1 .. Len(tables) : {tables[i].data, tables[i].meta} \subseteq inDisk
        BY <3>1 DEF IInv
      <4>2. inDisk \subseteq inDisk' /\ {r.data, r.meta} \subseteq inDisk'
        BY <2>1
      <4>3. tables \in Seq(Table)
        BY DEF IInv
      <4>. QED
        BY <3>3, <4>1, <4>2, <4>3
    <3>8. stage' = "prepare" /\ nextTmp' \in Nat /\ example' \in Examples
          /\ pending' \in Seq(Name)
      BY <2>1, <3>1, <3>2 DEF IInv
    <3>. QED
      BY <3>3, <3>4, <3>5, <3>6, <3>7, <3>8, Zenon DEF IInv
  <2>2. CASE ~(/\ tables' = Append(tables, r)
               /\ kept' = Append(Append(kept, d), m)
               /\ inDisk' = inDisk \cup {d, m}
               /\ nextTmp' = nextTmp + 2
               /\ pending' = Tail(pending)
               /\ UNCHANGED <<stage, exErr>>)
    <3>1. /\ (\E e : Return(e)) \/ Panic
          /\ UNCHANGED <<example, pending, tables>>
          /\ nextTmp' \in Nat /\ nextTmp <= nextTmp'
      <4>1. nextTmp \in Nat
        BY DEF IInv
      <4>2. /\ (\E e : Return(e)) \/ Panic
            /\ UNCHANGED <<example, pending, tables>>
            /\ nextTmp' \in {nextTmp, nextTmp + 1, nextTmp + 2}
        <5>1. \/ /\ \E e : Return(e)
                 /\ UNCHANGED <<nextTmp, pending, tables>>
              \/ /\ Panic
                 /\ \E made \in {0, 1, 2} : nextTmp' = nextTmp + made
                 /\ UNCHANGED <<pending, tables>>
              \/ /\ \E e : Return(e)
                 /\ nextTmp' = nextTmp + 2
                 /\ UNCHANGED <<pending, tables>>
          BY <1>5, <2>2 DEF PrepareInput
        <5>2. example' = example
          BY <1>5 DEF PrepareInput
        <5>3. nextTmp' \in {nextTmp, nextTmp + 1, nextTmp + 2}
          BY <4>1, <5>1
        <5>4. UNCHANGED <<pending, tables>> /\ ((\E e : Return(e)) \/ Panic)
          BY <5>1, Zenon
        <5>. QED
          BY <5>2, <5>3, <5>4, Zenon
      <4>. QED
        BY <4>1, <4>2
    <3>. QED
      BY <3>1, ExitIInv
  <2>. QED
    BY <2>1, <2>2
<1>. QED
  BY <1>1, <1>2, <1>3, <1>4, <1>5 DEF ExampleNext, Runner, allvars

-----------------------------------------------------------------------------

LEMMA IInvTypeOK == IInv => ExampleTypeOK
<1> SUFFICES ASSUME IInv PROVE ExampleTypeOK
  OBVIOUS
<1>1. Names(tables) \in Seq(Name) /\ Len(Names(tables)) = Len(tables)
  BY NamesSeq DEF IInv
<1>a. pending \in Seq(Name)
  BY DEF IInv
<1>b. Len(Names(tables) \o pending) = Len(Names(tables)) + Len(pending)
  BY <1>1, <1>a, ConcatProperties, Zenon
<1>2. Len(Names(tables) \o pending) = Len(tables) + Len(pending)
  BY <1>1, <1>b
<1>3. Len(tables) + Len(pending) = Len(InputNames(example))
  BY <1>2 DEF IInv
<1>. QED
  BY <1>3, Zenon DEF IInv, ExampleTypeOK

LEMMA IInvInputsLive == IInv => InputsLiveDuringQuery
<1> SUFFICES ASSUME IInv, stage = "execute"
             PROVE  /\ [i \in DOMAIN tables |-> tables[i].name] = InputNames(example)
                    /\ \A i \in DOMAIN tables :
                         {tables[i].data, tables[i].meta} \subseteq inDisk
  BY DEF InputsLiveDuringQuery
<1>1. DOMAIN tables = 1 .. Len(tables)
  BY LenProperties DEF IInv
<1>2. Names(tables) \in Seq(Name)
  BY NamesSeq DEF IInv
<1>3. Names(tables) = InputNames(example)
  BY <1>2, ConcatEmptySeq DEF IInv
<1>. QED
  BY <1>1, <1>3 DEF IInv, Names

(* Every state of the example runner has the shape the code gives it: in *)
(* particular prepare_inputs never loses or repeats a table name, for     *)
(* every set of examples.                                                  *)
THEOREM TypeCorrect == ExampleSpec => []ExampleTypeOK
<1>1. IInv => ExampleTypeOK
  BY IInvTypeOK
<1>. QED
  BY InitIInv, NextIInv, <1>1, PTL DEF ExampleSpec

(* Whenever the query of execute_example compiles or runs, its tables are *)
(* the example's inputs in order and every prepared data and metadata     *)
(* file they name still exists, kept alive by the preparer, for every     *)
(* example.                                                                *)
THEOREM InputsLive == ExampleSpec => []InputsLiveDuringQuery
<1>1. IInv => InputsLiveDuringQuery
  BY IInvInputsLive
<1>. QED
  BY InitIInv, NextIInv, <1>1, PTL DEF ExampleSpec

=============================================================================
