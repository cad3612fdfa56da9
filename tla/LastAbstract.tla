---------------------------- MODULE LastAbstract ----------------------------
(***************************************************************************)
(* What the `last` aggregation promises, stated over the whole stream of   *)
(* rows an evaluator has consumed, independent of how the stream is cut    *)
(* into batches and of how state is stored.                                *)
(*                                                                         *)
(* A row carries its entity index, its input value (or Null) and its       *)
(* `since` tick (TRUE, FALSE or Null).  For the non-windowed aggregation   *)
(* the output at a row is the latest non-null input of that entity seen so *)
(* far.  For the since-windowed one (update -> emit -> reset), a tick that *)
(* is TRUE at row j hides every input of that entity at rows <= j from the *)
(* rows after j, but not from row j itself (exclusive start, inclusive     *)
(* end).                                                                   *)
(***************************************************************************)
EXTENDS Naturals, Sequences

CONSTANTS
  Values,    \* the non-null values an input may take
  Null,      \* the null value
  Entities   \* the entity indices rows may carry

VARIABLES
  mode,      \* "NoWindow" or "Since": the shape of the aggregation arguments
  inputs,    \* the rows consumed so far, in order
  outputs    \* outputs[k] is the value emitted for inputs[k]

avars == <<mode, inputs, outputs>>

OptVal == Values \cup {Null}

Row == [entity : Entities, input : OptVal, tick : BOOLEAN \cup {Null}]

Modes == {"NoWindow", "Since"}

(* Row r closes the window of its entity after its own output.            *)
Resets(m, r) == m = "Since" /\ r.tick = TRUE

(* Positions i..k of s whose input for entity e is still in the window    *)
(* after the resets of rows up to b have been applied.                    *)
Live(m, s, e, k, b) ==
  { i \in 1..k :
      /\ s[i].entity = e
      /\ s[i].input # Null
      /\ \A j \in i..b : s[j].entity = e => ~Resets(m, s[j]) }

(* The input at the latest live position, or Null when none is live.      *)
LastLive(m, s, e, k, b) ==
  IF Live(m, s, e, k, b) = {}
    THEN Null
    ELSE CHOOSE v \in OptVal :
           \E i \in Live(m, s, e, k, b) :
              /\ s[i].input = v
              /\ \A j \in Live(m, s, e, k, b) : j <= i

(* The value emitted at row k: the reset of row k comes after emission.   *)
OutputAt(m, s, k) == LastLive(m, s, s[k].entity, k, k - 1)

(* The state entity e holds once every row of s has been applied.         *)
StateAfter(m, s, e) == LastLive(m, s, e, Len(s), Len(s))

AInit ==
  /\ mode \in Modes
  /\ inputs = <<>>
  /\ outputs = <<>>

(* One more row is consumed and its output emitted.                       *)
AConsume(r) ==
  /\ inputs' = Append(inputs, r)
  /\ outputs' = Append(outputs, OutputAt(mode, inputs', Len(inputs')))
  /\ UNCHANGED mode

ANext == \E r \in Row : AConsume(r)

ASpec == AInit /\ [][ANext]_avars

=============================================================================
