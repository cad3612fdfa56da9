------------------------- MODULE MCLastBooleanTests -------------------------
EXTENDS LastBooleanTests

MCTestGroups == 4
MCTestBatches == 10
MCUnitTests == {1, 2, 3}
MCSpecScenario == {4}

=============================================================================
