--------------------------- MODULE SerialPortProofs ---------------------------
(***************************************************************************)
(* getResponse over the POSIX serial port: whatever the turns of the loops *)
(* and the arrival of the bytes, its answers are packets the chip has sent *)
(* unless a wait is given up within one.  SerialLineProofs has the         *)
(* argument; here each action of the port is fitted into it.               *)
(***************************************************************************)
EXTENDS SerialPort, SerialLineProofs

\* The inductive invariant: while the device is there the bytes that no read has
\* stored are all that the chip has still to see read.
PortInv == /\ LineTyped /\ hungUp \in BOOLEAN
           /\ LineInv(received \o line, ~hungUp)

\* The bytes that are received and those on the line make one sequence.
LEMMA QueueTyped ==
  ASSUME LineTyped
  PROVE  received \in Seq(Byte) /\ line \in Seq(Byte) /\ received \o line \in Seq(Byte)
<1>1. received \in Seq(Byte) /\ line \in Seq(Byte)
  BY DEF LineTyped, LineTypeOK
<1>2. QED
  BY <1>1, ConcatTyped

\* The initial states.
LEMMA InitInv == Init => PortInv
<1> SUFFICES ASSUME Init
             PROVE  PortInv
  OBVIOUS
<1>1. LineTyped /\ LineInv(<<>>, TRUE)
  BY LineBegins DEF Init
<1>2. received \o line = <<>> /\ hungUp = FALSE /\ (~hungUp) = TRUE
  BY DEF Init, LineInit
<1>3. hungUp \in BOOLEAN
  BY <1>2
<1>4. QED
  BY Zenon, <1>1, <1>2, <1>3 DEF PortInv

\* The steps of the specification keep the invariant.
LEMMA StepInv == PortInv /\ [Next]_vars => PortInv'
<1> SUFFICES ASSUME PortInv, [Next]_vars
             PROVE  PortInv'
  OBVIOUS
<1>1. /\ LineTyped /\ hungUp \in BOOLEAN /\ LineInv(received \o line, ~hungUp)
      /\ received \in Seq(Byte) /\ line \in Seq(Byte)
  BY QueueTyped DEF PortInv
<1>2. PICK v \in Seq(Byte), all \in BOOLEAN : v = received \o line /\ all = ~hungUp
  BY <1>1, QueueTyped
<1>3. LineInv(v, all)
  BY Zenon, <1>1, <1>2
<1>4. ASSUME LineTyped' /\ LineInv(v, all)', received' \o line' = v, hungUp' = hungUp
      PROVE  PortInv'
  <2>1. all = ~hungUp'
    BY <1>2, <1>4
  <2>2. LineInv(received \o line, ~hungUp)'
    BY Zenon, <1>4, <2>1
  <2>3. QED
    BY Zenon, <1>1, <1>4, <2>2 DEF PortInv
<1>5. CASE getResponse
  <2>1. /\ stage = "idle" /\ begin /\ UNCHANGED <<taken, history>>
        /\ line' = line /\ received' = received /\ hungUp' = hungUp
    BY <1>5 DEF getResponse, port
  <2>2. line' \in Seq(Byte) /\ received' \in Seq(Byte)
    BY <1>1, <2>1
  <2>3. LineTyped' /\ LineInv(v, all)'
    BY <1>1, <1>3, <2>1, <2>2, BeginKeepsLine
  <2>4. QED
    BY <1>2, <1>4, <2>1, <2>3
<1>6. CASE readNothing
  <2>1. /\ storeNothing /\ line' = line /\ received' = received /\ hungUp' = hungUp
    BY <1>6 DEF readNothing, port
  <2>2. line' \in Seq(Byte) /\ received' \in Seq(Byte)
    BY <1>1, <2>1
  <2>3. LineTyped' /\ LineInv(v, all)'
    BY <1>1, <1>3, <2>1, <2>2, StoreNothingKeepsLine
  <2>4. QED
    BY <1>2, <1>4, <2>1, <2>3
<1>7. CASE readSome
  <2>1. PICK a \in Nat : a = wanted - Len(taken) /\ Len(taken) + a = wanted
    BY <1>1, <1>7, Remaining DEF readSome
  <2>2. PICK b \in Seq(Byte), rest \in Seq(Byte) :
          /\ b = SubSeq(received, 1, Min({Len(received), a}))
          /\ rest = SubSeq(received, Min({Len(received), a}) + 1, Len(received))
          /\ Len(b) <= a /\ received = b \o rest
    <3>1. received \in Seq(Byte)
      BY <1>1
    <3>2. QED
      BY <3>1, Portion
  <2>3. /\ stage \in Loops /\ store(b) /\ received' = rest
        /\ line' = line /\ hungUp' = hungUp
    BY Zenon, <1>7, <2>1, <2>2 DEF readSome
  <2>4. PICK u \in Seq(Byte) : u = rest \o line
    BY <1>1, ConcatTyped
  <2>5. v = b \o u
    <3>1. PICK l \in Seq(Byte) : l = line
      BY <1>1
    <3>2. Regrouped(b, rest, l)
      BY Zenon, Regrouping
    <3>3. QED
      BY Zenon, <1>2, <2>2, <2>4, <3>1, <3>2 DEF Regrouped
  <2>6. line' \in Seq(Byte) /\ received' \in Seq(Byte) /\ Len(taken) + Len(b) <= wanted
    <3>1. Len(taken) + Len(b) <= wanted
      BY <1>1, <2>1, <2>2, PortionFits
    <3>2. QED
      BY <1>1, <2>2, <2>3, <3>1
  <2>7. LineTyped' /\ LineInv(u, all)'
    BY <1>1, <1>3, <2>3, <2>5, <2>6, StoreKeepsLine
  <2>8. received' \o line' = u /\ all = ~hungUp'
    BY <1>2, <2>3, <2>4
  <2>9. LineInv(received \o line, ~hungUp)'
    BY Zenon, <2>7, <2>8
  <2>10. QED
    BY Zenon, <1>1, <2>3, <2>7, <2>9 DEF PortInv
<1>8. CASE readSpins \/ UNCHANGED vars
  <2>1. /\ UNCHANGED <<reader, taken, history>>
        /\ line' = line /\ received' = received /\ hungUp' = hungUp
    BY <1>8 DEF readSpins, vars, port
  <2>2. line' \in Seq(Byte) /\ received' \in Seq(Byte)
    BY <1>1, <2>1
  <2>3. LineTyped' /\ LineInv(v, all)'
    BY <1>1, <1>3, <2>1, <2>2, OthersKeepLine
  <2>4. QED
    BY <1>2, <1>4, <2>1, <2>3
<1>9. CASE readError
  <2>1. /\ stage \in Loops /\ storeFails
        /\ line' = line /\ received' = received /\ hungUp' = hungUp
    BY <1>9 DEF readError, port
  <2>2. line' \in Seq(Byte) /\ received' \in Seq(Byte)
    BY <1>1, <2>1
  <2>3. LineTyped' /\ LineInv(v, all)'
    BY <1>1, <1>3, <2>1, <2>2, StoreFailsKeepsLine
  <2>4. QED
    BY <1>2, <1>4, <2>1, <2>3
<1>10. CASE ChipSends
  <2>1. PICK p \in Packets :
          /\ ~hungUp /\ line = <<>> /\ line' = p /\ sent' = Append(sent, p)
          /\ received' = received /\ hungUp' = hungUp
          /\ UNCHANGED <<reader, taken, answers, framed>>
    BY <1>10 DEF ChipSends, chipSends
  <2>2. all = TRUE /\ v = received
    BY <1>1, <1>2, <2>1, ConcatEmptySeq
  <2>3. line' \in Seq(Byte) /\ received' \in Seq(Byte)
    BY <1>1, <2>1, ReaderAssumption DEF IsPacket
  <2>4. LineTyped' /\ LineInv(v \o p, TRUE)'
    BY <1>1, <1>3, <2>1, <2>2, <2>3, ChipKeepsLine
  <2>5. received' \o line' = v \o p /\ (~hungUp') = TRUE
    BY <2>1, <2>2
  <2>6. LineInv(received \o line, ~hungUp)'
    BY Zenon, <2>4, <2>5
  <2>7. QED
    BY Zenon, <1>1, <2>1, <2>4, <2>6 DEF PortInv
<1>11. CASE ByteArrives
  <2>1. /\ line # <<>> /\ received' = Append(received, Head(line)) /\ line' = Tail(line)
        /\ UNCHANGED <<reader, taken, history>> /\ hungUp' = hungUp
    BY <1>11 DEF ByteArrives, byteArrives
  <2>2. /\ line' \in Seq(Byte) /\ received' \in Seq(Byte) /\ received' \o line' = v
    BY <1>1, <1>2, <2>1, ByteMoves
  <2>3. LineTyped' /\ LineInv(v, all)'
    BY <1>1, <1>3, <2>1, <2>2, OthersKeepLine
  <2>4. QED
    BY <1>4, <2>1, <2>2, <2>3
<1>12. CASE HangUp
  <2>1. /\ hungUp' = TRUE /\ line' = <<>> /\ received' = <<>>
        /\ UNCHANGED <<reader, taken, history>>
    BY <1>12 DEF HangUp
  <2>2. line' \in Seq(Byte) /\ received' \in Seq(Byte) /\ <<>> \in Seq(Byte)
    BY <2>1
  <2>3. <<>> \o v = v
    BY ConcatEmptySeq
  <2>4. LineInv(<<>>, FALSE)
    <3>1. PICK e \in Seq(Byte) : e = <<>>
      BY Zenon, <2>2
    <3>2. LineInv(e \o v, all)
      BY Zenon, <1>3, <2>3, <3>1
    <3>3. LineInv(e, FALSE)
      BY <1>1, <3>2, LossKeepsLine
    <3>4. QED
      BY Zenon, <3>1, <3>3
  <2>5. LineTyped' /\ LineInv(<<>>, FALSE)'
    BY <1>1, <2>1, <2>2, <2>4, OthersKeepLine
  <2>6. received' \o line' = <<>> /\ (~hungUp') = FALSE /\ hungUp' \in BOOLEAN
    BY <2>1, ConcatEmptySeq
  <2>7. LineInv(received \o line, ~hungUp)'
    BY Zenon, <2>5, <2>6
  <2>8. QED
    BY Zenon, <2>5, <2>6, <2>7 DEF PortInv
<1>13. QED
  BY <1>5, <1>6, <1>7, <1>8, <1>9, <1>10, <1>11, <1>12 DEF Next, Reads

\* The invariant holds in every reachable state.
THEOREM PortInvIsInvariant == Spec => []PortInv
BY InitInv, StepInv, PTL DEF Spec

\* Types: what the model stores is of the kind it should be, and a read that is in
\* progress has stored no more than it was asked for (SerialDataController::read).
THEOREM TypeCorrectness == Spec => []TypeOK
<1>1. PortInv => TypeOK
  BY DEF PortInv, LineTyped, TypeOK
<1>2. QED
  BY <1>1, PortInvIsInvariant, PTL

\* The answers of getResponse are packets the chip has sent, whole, in order and none
\* twice, unless a wait is given up within a packet and a payload has a start byte.
THEOREM AnswersAreWholePackets == Spec => []FramedAnswersArePackets
<1>1. PortInv => FramedAnswersArePackets
  <2> SUFFICES ASSUME PortInv, framed \/ StartByteIsUnique
               PROVE  AnswersArePackets
    BY DEF FramedAnswersArePackets
  <2>1. LineTyped /\ LineInv(received \o line, ~hungUp) /\ received \o line \in Seq(Byte)
    BY QueueTyped DEF PortInv
  <2>2. QED
    BY Zenon, <2>1, AnswersLocated
<1>2. QED
  BY <1>1, PortInvIsInvariant, PTL

\* Nothing is asked for that has no place in the callers' buffer, on the same
\* condition, though getResponse never compares a length with the buffer's.
THEOREM ReadsStayInBuffer == Spec => []FramedReadsFitBuffer
<1>1. PortInv => FramedReadsFitBuffer
  <2> SUFFICES ASSUME PortInv, framed \/ StartByteIsUnique
               PROVE  ReadsFitBuffer
    BY DEF FramedReadsFitBuffer
  <2>1. LineTyped /\ LineInv(received \o line, ~hungUp) /\ received \o line \in Seq(Byte)
    BY QueueTyped DEF PortInv
  <2>2. QED
    BY Zenon, <2>1, ReadsAreOfPackets
<1>2. QED
  BY <1>1, PortInvIsInvariant, PTL
=============================================================================
