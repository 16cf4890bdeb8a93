----------------------------- MODULE SerialLine -----------------------------
(***************************************************************************)
(* What getResponse sees of a serial port whichever the platform: a chip   *)
(* that sends packets, the bytes that have arrived, and the history of     *)
(* what was made of them.  SerialPort and WindowsPort add a read each.     *)
(***************************************************************************)
EXTENDS GetResponse, FiniteSetsExt

CONSTANT MaxPackets   \* bound on the packets the chip sends

ASSUME LineAssumption == MaxPackets \in Nat

VARIABLES
  line,         \* what the chip has still to transmit of its current packet
  received,     \* bytes in the receive queue of the port
  taken,        \* bytes that the read in progress has stored
  sent,         \* history: the packets the chip has sent
  answers,      \* history: the packets getResponse has returned
  framed        \* history: has no wait been given up within a packet?

history == <<sent, answers, framed>>

LineInit == /\ line = <<>> /\ received = <<>> /\ taken = <<>>
            /\ sent = <<>> /\ answers = <<>> /\ framed = TRUE

\* Keeps the history of what getResponse returned.
answered ==
  /\ answers' = IF stage' = "idle" /\ response' # "ERROR"
                  THEN Append(answers, buffer') ELSE answers
  /\ framed' = (framed /\ (stage' = "idle" /\ response' = "ERROR" => stage = "start"))
  /\ UNCHANGED sent

\* The read in progress stores some bytes, which are all it was asked for or not.
store(bytes) ==
  IF Len(taken) + Len(bytes) = wanted
    THEN readReturns(taken \o bytes) /\ taken' = <<>> /\ answered
    ELSE taken' = taken \o bytes /\ UNCHANGED <<reader, history>>

\* The read in progress returns zero.
storeNothing == taken = <<>> /\ readReturns(<<>>) /\ answered /\ UNCHANGED taken

\* The read in progress returns -1; what it has stored is not looked at.
storeFails == readFails /\ taken' = <<>> /\ answered

\* The chip sends packets one after the other; their bytes arrive one by one.
chipSends == /\ line = <<>> /\ Len(sent) < MaxPackets
             /\ \E p \in Packets : line' = p /\ sent' = Append(sent, p)
             /\ UNCHANGED <<reader, received, taken, answers, framed>>

byteArrives == /\ line # <<>>
               /\ received' = Append(received, Head(line))
               /\ line' = Tail(line)
               /\ UNCHANGED <<reader, taken, history>>
-----------------------------------------------------------------------------
LineTypeOK == /\ ReaderTypeOK
              /\ line \in Seq(Byte) /\ received \in Seq(Byte)
              /\ taken \in Seq(Byte)
              /\ stage \in Loops => Len(taken) <= wanted
              /\ sent \in Seq(Packets)

\* Readme.md: each query is returned a complete reply.  What getResponse returns
\* are packets of the chip, whole, in order and none of them twice.
AnswersArePackets ==
  \E at \in [DOMAIN answers -> DOMAIN sent] :
    \A i \in DOMAIN answers :
      /\ answers[i] = sent[at[i]]
      /\ \A j \in 1 .. i - 1 : at[j] < at[i]

\* Every start byte the chip has sent begins a packet.
StartByteIsUnique ==
  \A n \in DOMAIN sent : \A i \in 2 .. Len(sent[n]) : sent[n][i] # DV3000_START_BYTE
=============================================================================
