--------------------------- MODULE MCRecordPushdown ---------------------------
EXTENDS RecordPushdown

CONSTANTS f1, f2

MCFields == {f1, f2}
MCMaxRows == 3

=============================================================================
