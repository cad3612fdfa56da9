----------------------------- MODULE MCLocalTable -----------------------------
EXTENDS LocalTable

CONSTANTS S1, S2   \* two table schemas

MCSchemas == {S1, S2}

(* A one-batch and a two-batch file of one schema, and a file of another. *)
MCSources == {<<S1>>, <<S1, S1>>, <<S2>>}

=============================================================================
