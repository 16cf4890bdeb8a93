------------------------------ MODULE UdpSocket ------------------------------
(***************************************************************************)
(* getResponse over UDPDataController: initResponse waits for one datagram *)
(* and keeps it in m_responseBuffer, from which read serves the bytes.     *)
(***************************************************************************)
EXTENDS GetResponse, SequencesExt

CONSTANTS
  Datagrams,    \* what the server may send: packets whole, split or joined
  MaxQueue,     \* bound on the datagrams in the receive queue
  SocketErrors  \* may select or recvfrom fail?

ASSUME UdpAssumption ==
  /\ MaxQueue \in Nat /\ SocketErrors \in BOOLEAN
  /\ \A d \in Datagrams : d \in Seq(Byte) /\ d # <<>>

VARIABLES
  queue,             \* datagrams received and not yet read
  m_responseBuffer,  \* the part of the datagram that read has not served
  current            \* history: the datagram of the call in progress

vars == <<reader, queue, m_responseBuffer, current>>

Init == /\ ReaderInit
        /\ queue = <<>> /\ m_responseBuffer = <<>> /\ current = <<>>

getResponse == /\ stage = "idle"
               /\ stage' = "init"
               /\ response' = "NONE" /\ buffer' = <<>> /\ current' = <<>>
               /\ UNCHANGED <<tries, packetLength, offset, queue, m_responseBuffer>>

\* Mutation: m_responseIndex stays where the last call has left it.
initResponseKeepsRest ==
  /\ stage = "init" /\ queue # <<>>
  /\ m_responseBuffer' = m_responseBuffer \o Head(queue) /\ current' = Head(queue)
  /\ queue' = Tail(queue)
  /\ begin

\* timeout_recvfrom: the oldest datagram replaces what is left of the last one.
initResponse == /\ stage = "init" /\ queue # <<>>
                /\ m_responseBuffer' = Head(queue) /\ current' = Head(queue)
                /\ queue' = Tail(queue)
                /\ begin

\* None came in time, or the socket failed.
initResponseFails == /\ stage = "init"
                     /\ queue = <<>> \/ SocketErrors
                     /\ m_responseBuffer' = <<>>
                     /\ readFails
                     /\ UNCHANGED <<queue, current>>

\* Mutation: the last byte of the datagram is not served.
readOneLess ==
  /\ stage \in Loops
  /\ LET n == Min({wanted, Max({0, Len(m_responseBuffer) - 1})})
     IN /\ readReturns(SubSeq(m_responseBuffer, 1, n))
        /\ m_responseBuffer' =
             SubSeq(m_responseBuffer, n + 1, Len(m_responseBuffer))
  /\ UNCHANGED <<queue, current>>

read == /\ stage \in Loops
        /\ LET n == Min({wanted, Len(m_responseBuffer)})
           IN /\ readReturns(SubSeq(m_responseBuffer, 1, n))
              /\ m_responseBuffer' =
                   SubSeq(m_responseBuffer, n + 1, Len(m_responseBuffer))
        /\ UNCHANGED <<queue, current>>

\* The network loses, duplicates and reorders, so that any datagram of the server
\* may come at any time.
DatagramArrives == /\ Len(queue) < MaxQueue
                   /\ \E d \in Datagrams : queue' = Append(queue, d)
                   /\ UNCHANGED <<reader, m_responseBuffer, current>>

Reads == initResponse \/ initResponseFails \/ read

Next == getResponse \/ Reads \/ DatagramArrives

Spec == Init /\ [][Next]_vars

\* The thread of the object keeps running; nobody says that the network does.
ReaderRuns == Spec /\ WF_vars(Reads)
-----------------------------------------------------------------------------
TypeOK == /\ ReaderTypeOK
          /\ queue \in Seq(Datagrams)
          /\ m_responseBuffer \in Seq(Byte)
          /\ current \in Datagrams \cup {<<>>}

\* Readme.md: each query is returned a complete reply or an error.  A response is
\* made from the bytes of one datagram, never from those of two, even when some
\* datagrams hold half a packet and others more than one.
ResponseIsFromOneDatagram == HasPacket => buffer \in SubSeqs(current)

\* A datagram that is a packet is taken for that packet, whatever was given up
\* before and whichever start bytes its payload has: framing cannot be lost.
PacketIsUnderstood ==
  stage = "idle" /\ current \in Packets => response # "ERROR" /\ buffer = current

\* Readme.md: a reply or an error.  getResponse returns although datagrams stop
\* coming in the middle of a packet.
GetResponseReturns == stage # "idle" ~> stage = "idle"
=============================================================================
