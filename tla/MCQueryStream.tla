---------------------------- MODULE MCQueryStream ----------------------------
(***************************************************************************)
(* Small instances of QueryStream for TLC.                                 *)
(***************************************************************************)
EXTENDS QueryStream

\* The ends of the range, and a sample whose low byte is the start byte.
MCSamples == {-32768, -1, 97}

\* Zero, and a sample that has a start byte.
MCPast == {0, 97}

\* What looks like the header of a packet, in frames of 44 and of 49 bits.
MCMbeFrames == {<<97, 0, 1, 0, 48, 97>>, <<0, 97, 0, 3, 1, 97, 1>>}
MCControlWords == {<<1, 48>>}
MCGainLevels == {-90, 6}
=============================================================================
