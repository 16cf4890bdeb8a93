---------------------------- MODULE MCWindowsPort ----------------------------
(***************************************************************************)
(* Small instances of WindowsPort for TLC.                                 *)
(***************************************************************************)
EXTENDS WindowsPort

AudioPacket == <<97, 0, 1, 2, 5>>

\* A frame is arbitrary bytes, what looks like the headers of an empty packet and of
\* one longer than all that is sent among them.
FramePacket == <<97, 0, 6, 1, 97, 0, 0, 97, 1, 0>>

Replies == {AudioPacket, FramePacket}
=============================================================================
