---------------------------- MODULE FirstAbstract ----------------------------
(***************************************************************************)
(* What the `first` aggregation promises, over the same rows, windows and  *)
(* resets as `last` (module LastAbstract): the output at a row is the      *)
(* earliest non-null input of its entity still in the window, where `last` *)
(* takes the latest.  A null input never replaces what is held, and a TRUE *)
(* `since` tick empties the window after the row's own output.             *)
(***************************************************************************)
EXTENDS LastAbstract

(* The input at the earliest live position, or Null when none is live.    *)
FirstLive(m, s, e, k, b) ==
  IF Live(m, s, e, k, b) = {}
    THEN Null
    ELSE CHOOSE v \in OptVal :
           \E i \in Live(m, s, e, k, b) :
              /\ s[i].input = v
              /\ \A j \in Live(m, s, e, k, b) : i <= j

(* The value `first` emits at row k.                                      *)
FirstOutputAt(m, s, k) == FirstLive(m, s, s[k].entity, k, k - 1)

(* The state `first` holds for entity e after every row of s.              *)
FirstStateAfter(m, s, e) == FirstLive(m, s, e, Len(s), Len(s))

(* One more row is consumed and `first`'s output for it emitted.          *)
FConsume(r) ==
  /\ inputs' = Append(inputs, r)
  /\ outputs' = Append(outputs, FirstOutputAt(mode, inputs', Len(inputs')))
  /\ UNCHANGED mode

FNext == \E r \in Row : FConsume(r)

FSpec == AInit /\ [][FNext]_avars

=============================================================================
