----------------------------- MODULE MCUdpSocket -----------------------------
(***************************************************************************)
(* Small instances of UdpSocket for TLC.                                   *)
(***************************************************************************)
EXTENDS UdpSocket

NamePacket  == <<97, 0, 2, 0, 48, 65>>
FramePacket == <<97, 0, 6, 1, 97, 0, 1, 0, 75, 5>>
AudioPacket == <<97, 0, 1, 2, 5>>

Replies == {NamePacket, FramePacket, AudioPacket}

\* Whole packets, the halves of two of them and two packets in one datagram.
RepliesAndParts ==
  Replies \cup {<<97, 0, 2, 0>>, <<48, 65>>, <<97, 0, 6>>, <<1, 97, 0, 1, 0, 75, 5>>,
                NamePacket \o AudioPacket}
=============================================================================
