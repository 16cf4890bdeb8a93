--------------------------- MODULE MCDVController ---------------------------
(***************************************************************************)
(* Small instances of DVController for TLC.                                *)
(***************************************************************************)
EXTENDS DVControllerClaims, TLC

\* Frames are compared with each other and nothing else.
FrameSymmetry == Permutations(Frames)

\* A documented gain, one that wraps to the same level, and one that wraps to its
\* opposite.
WideGains == {-90, 166, 346}
=============================================================================
