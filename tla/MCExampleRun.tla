---------------------------- MODULE MCExampleRun ----------------------------
EXTENDS ExampleRun, MCOutputWrite

(* An example with an input CSV and one extra table, and one with two     *)
(* tables and no input CSV.                                               *)
MCExamples == { [input |-> TRUE, tables |-> <<"Purchases">>],
                [input |-> FALSE, tables |-> <<"A", "B">>] }

=============================================================================
