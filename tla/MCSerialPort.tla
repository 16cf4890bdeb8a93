---------------------------- MODULE MCSerialPort ----------------------------
(***************************************************************************)
(* Small instances of SerialPort for TLC.                                  *)
(***************************************************************************)
EXTENDS SerialPort

NamePacket  == <<97, 0, 2, 0, 48, 65>>
AudioPacket == <<97, 0, 1, 2, 5>>

\* A frame is arbitrary bytes, what looks like the header of a packet longer than
\* all that is sent among them.
FramePacket == <<97, 0, 6, 1, 97, 0, 200, 0, 75, 5>>

Replies == {NamePacket, AudioPacket, FramePacket}
=============================================================================
