----------------------------- MODULE MCZipMinMax -----------------------------
EXTENDS ZipMinMax

(* Two ordered integers, the float zero of either sign, and NaN.           *)
MCValues == {-1, 0, 1, NegZero, NaN}

=============================================================================
