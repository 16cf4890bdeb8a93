------------------------------ MODULE MCDvTest ------------------------------
(***************************************************************************)
(* Small instances of DvTest for TLC.                                      *)
(***************************************************************************)
EXTENDS DvTest, TLC

CONSTANTS f1, f2

\* Runs with different inputs, so that a frame of another run is told apart.
TwoInputs == {<<f1, f1>>, <<f2>>}

\* An output gain of 1/4, and the default.
MCGains == {0, -6}
=============================================================================
