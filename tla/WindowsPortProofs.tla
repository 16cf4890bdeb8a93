-------------------------- MODULE WindowsPortProofs --------------------------
(***************************************************************************)
(* getResponse over the Windows serial port.  The bytes of an overlapped   *)
(* read come before those in the receive queue, and are lost when the read *)
(* is cancelled.  SerialLineProofs has the argument of the answers; what   *)
(* is added here is why, up to the first wait that is given up within a    *)
(* packet, no read that has brought bytes is ever cancelled: whoever       *)
(* collects it asks for as many bytes as it was issued for.                *)
(***************************************************************************)
EXTENDS WindowsPort, SerialLineProofs

\* The length of the next read of getResponse, the one in progress or a later one.
nextLength == IF stage = "idle" THEN 1 ELSE asked

OperationTyped == /\ operation \in {"none", "pending", "done", "failed"}
                  /\ m_readLength \in Nat /\ m_readLength <= MaxLength
                  /\ m_readBuffer \in Seq(Byte) /\ Len(m_readBuffer) <= m_readLength
                  /\ errors \in 0 .. MaxErrors

\* An operation is one that will be collected, as long as no wait has been given up
\* within a packet, or else the search for a start byte is not over.
Collected == /\ operation # "done" => m_readBuffer = <<>>
             /\ operation # "none" /\ (InPacket \/ framed) => m_readLength = nextLength

\* The inductive invariant.
WindowsInv == /\ LineTyped /\ OperationTyped /\ Collected
              /\ LineInv(m_readBuffer \o (received \o line), TRUE)

\* The bytes that no read has stored, where they are.
LEMMA QueuesTyped ==
  ASSUME LineTyped, OperationTyped
  PROVE  /\ received \in Seq(Byte) /\ line \in Seq(Byte) /\ received \o line \in Seq(Byte)
         /\ m_readBuffer \in Seq(Byte) /\ m_readBuffer \o (received \o line) \in Seq(Byte)
<1>1. received \in Seq(Byte) /\ line \in Seq(Byte) /\ m_readBuffer \in Seq(Byte)
  BY DEF LineTyped, LineTypeOK, OperationTyped
<1>2. received \o line \in Seq(Byte)
  BY <1>1, ConcatTyped
<1>3. QED
  BY <1>1, <1>2, ConcatTyped

\* The length of a read.
LEMMA AskedTyped ==
  ASSUME LineTyped, reads
  PROVE  /\ asked \in Nat /\ asked > 0 /\ asked <= MaxLength /\ Len(taken) + asked <= wanted
         /\ wanted \in Nat /\ wanted # 0 /\ stage \in Loops
<1>1. stage \in Loops /\ asked > 0 /\ packetLength <= MaxLength /\ wanted = packetLength
      /\ packetLength \in Nat
  BY LineFacts DEF reads, LineTyped, LineTypeOK, ReaderTypeOK
<1>2. PICK n \in Nat : n = wanted - Len(taken) /\ Len(taken) + n = wanted
  BY <1>1, Remaining
<1>3. PICK l \in Nat : l = BUFFER_LENGTH
  BY ReaderAssumption
<1>4. PICK a \in Nat : a = asked /\ a <= n
  BY <1>2, <1>3, MinOfTwo DEF asked
<1>5. PICK t \in Nat, w \in Nat : t = Len(taken) /\ w = wanted
  BY <1>1, LineFacts, LenProperties
<1>6. t + n = w /\ a > 0 /\ w <= MaxLength
  BY Zenon, <1>1, <1>2, <1>4, <1>5
<1>7. a <= MaxLength /\ w # 0 /\ t + a <= w
  BY <1>4, <1>6 DEF MaxLength
<1>8. QED
  BY Zenon, <1>1, <1>4, <1>5, <1>7

\* A read of one byte is not clamped.
LEMMA OneIsAsked ==
  ASSUME NEW w \in Int, w = 1, NEW t \in Int, t = 0
  PROVE  Min({w - t, BUFFER_LENGTH}) = 1
<1>1. PICK l \in Nat : l = BUFFER_LENGTH /\ l > 0
  BY ReaderAssumption
<1>2. PICK n \in Nat : n = w - t /\ n = 1
  OBVIOUS
<1>3. Min({n, l}) = 1
  <2>1. Min({n, l}) \in {n, l} /\ Min({n, l}) <= n /\ Min({n, l}) <= l /\ Min({n, l}) \in Nat
    BY MinOfTwo
  <2>2. QED
    BY <1>1, <1>2, <2>1
<1>4. QED
  BY Zenon, <1>1, <1>2, <1>3

\* A portion no longer than what is asked for does not make the read too long.
LEMMA AskedFits ==
  ASSUME LineTyped, NEW a \in Nat, Len(taken) + a <= wanted, stage \in Loops,
         NEW b \in Seq(Byte), Len(b) <= a
  PROVE  Len(taken) + Len(b) <= wanted
<1>1. PICK t \in Nat, l \in Nat, w \in Int : t = Len(taken) /\ l = Len(b) /\ w = wanted
  BY LineFacts, LenProperties DEF LineTyped, LineTypeOK
<1>2. t + a <= w /\ l <= a
  BY Zenon, <1>1
<1>3. t + l <= w
  BY <1>1, <1>2
<1>4. QED
  BY Zenon, <1>1, <1>3

\* readNonblock returns some bytes or none.
LEMMA ReturnsKeepLine ==
  ASSUME LineTyped, NEW b \in Seq(Byte), NEW v \in Seq(Byte), LineInv(b \o v, TRUE),
         stage \in Loops, Len(taken) + Len(b) <= wanted, returns(b),
         line' \in Seq(Byte), received' \in Seq(Byte)
  PROVE  LineTyped' /\ LineInv(v, TRUE)'
<1>1. CASE b # <<>>
  <2>1. store(b)
    BY <1>1 DEF returns
  <2>2. QED
    BY <2>1, StoreKeepsLine
<1>2. CASE b = <<>>
  <2>1. b \o v = v
    BY <1>2, ConcatEmptySeq
  <2>2. LineInv(v, TRUE)
    BY Zenon, <2>1
  <2>3. storeNothing \/ UNCHANGED <<reader, taken, history>>
    BY <1>2 DEF returns
  <2>4. QED
    BY <2>2, <2>3, StoreNothingKeepsLine, OthersKeepLine
<1>3. QED
  BY <1>1, <1>2

\* A turn without bytes asks for as many again, and one that ends the wait without
\* giving up within a packet was the search for a start byte.
LEMMA WaitAsksAgain ==
  ASSUME LineTyped, reads, returns(<<>>), (InPacket \/ framed)'
  PROVE  nextLength' = asked
<1>1. stage \in Loops /\ wanted # 0 /\ stage # "idle"
  BY AskedTyped DEF Loops
<1>2. CASE UNCHANGED <<reader, taken, history>>
  BY <1>1, <1>2 DEF reader, nextLength, asked, wanted
<1>3. CASE storeNothing
  <2>1. taken = <<>> /\ taken' = taken /\ answered /\ readReturns(<<>>) /\ Len(<<>>) = 0
    BY <1>3 DEF storeNothing
  <2>2. retry(0)
    BY <1>1, <2>1 DEF readReturns, startReturns, headerReturns, payloadReturns
  <2>3. CASE stage' = "idle" /\ response' = "ERROR"
    <3>1. ~InPacket' /\ stage = "start"
      BY <2>1, <2>3, FramedIsBoolean DEF answered, InPacket
    <3>2. wanted = 1
      BY <3>1, LineFacts
    <3>3. asked = 1
      BY <2>1, <3>2, OneIsAsked DEF asked
    <3>4. QED
      BY <2>3, <3>3 DEF nextLength
  <2>4. CASE stage' = stage /\ offset' = offset + 0 /\ packetLength' = packetLength
    <3>1. offset = 0
      BY <1>1, LineFacts
    <3>2. wanted' = wanted
      BY <2>4, <3>1 DEF wanted
    <3>3. asked' = asked
      BY <2>1, <3>2 DEF asked
    <3>4. QED
      BY <1>1, <2>4, <3>3 DEF nextLength
  <2>5. QED
    BY <2>2, <2>3, <2>4 DEF retry, return
<1>4. QED
  BY <1>2, <1>3 DEF returns

\* If an error leaves the line framed then the length asked for next is that of the read
\* that has failed.
LEMMA FailAsksAgain ==
  ASSUME LineTyped, reads, storeFails, (InPacket \/ framed)'
  PROVE  nextLength' = asked
<1>1. stage' = "idle" /\ response' = "ERROR" /\ answered
  BY DEF storeFails, readFails, return
<1>2. stage = "start"
  BY <1>1, FramedIsBoolean DEF answered, InPacket
<1>3. wanted = 1 /\ taken = <<>> /\ Len(<<>>) = 0
  BY <1>2, LineFacts DEF LineTyped, InPacket
<1>4. asked = 1
  BY <1>3, OneIsAsked DEF asked
<1>5. QED
  BY <1>1, <1>4 DEF nextLength

\* A read is issued: what another one has brought is not missed.
LEMMA IssueKeepsLine ==
  ASSUME WindowsInv, reads, issues
  PROVE  LineInv(received \o line, TRUE)
<1>1. /\ LineTyped /\ received \o line \in Seq(Byte) /\ m_readBuffer \in Seq(Byte)
      /\ LineInv(m_readBuffer \o (received \o line), TRUE) /\ stage # "idle"
  BY QueuesTyped DEF WindowsInv, reads, Loops
<1>2. PICK x \in Seq(Byte), y \in Seq(Byte) : x = m_readBuffer /\ y = received \o line
  BY <1>1
<1>3. LineInv(x \o y, TRUE)
  BY Zenon, <1>1, <1>2
<1>4. CASE x = <<>>
  <2>1. x \o y = y
    BY <1>4, ConcatEmptySeq
  <2>2. QED
    BY Zenon, <1>2, <1>3, <2>1
<1>5. CASE x # <<>>
  <2>1. operation = "done" /\ m_readLength # asked
    BY <1>2, <1>5 DEF WindowsInv, Collected, issues
  <2>2. ~InPacket /\ ~framed
    BY <1>1, <2>1 DEF WindowsInv, Collected, nextLength
  <2>3. LineInv(y, TRUE)
    BY <1>1, <1>3, <2>2, CancelKeepsLine
  <2>4. QED
    BY Zenon, <1>2, <2>3
<1>6. QED
  BY <1>4, <1>5

\* While no wait has been given up within a packet, no payload is empty.
LEMMA PayloadIsNotEmpty ==
  ASSUME WindowsInv, framed, stage \in Loops
  PROVE  wanted # 0
<1>1. LineTyped /\ sent \in Seq(Packets)
  BY LineFacts DEF WindowsInv
<1>2. CASE stage # "payload"
  BY <1>1, <1>2, LineFacts DEF Loops
<1>3. CASE stage = "payload"
  <2>1. PICK u \in Seq(Byte) : u = m_readBuffer \o (received \o line)
    BY QueuesTyped DEF WindowsInv
  <2>2. LineInv(u, TRUE)
    BY Zenon, <2>1 DEF WindowsInv
  <2>3. PICK r \in Seq(Byte) : r = taken \o u
    BY <1>1, LineFacts, ConcatTyped
  <2>4. PICK ends : \E m \in Nat :
          /\ Marks(sent, ends)
          /\ Stands(sent, ends, m, held \o r, InPacket \/ framed, answers)
    BY Zenon, <2>2, <2>3 DEF LineInv, Placed
  <2>5. PICK m \in Nat :
          /\ Marks(sent, ends)
          /\ Stands(sent, ends, m, held \o r, InPacket \/ framed, answers)
    BY <2>4
  <2>6. InPacket
    BY <1>3 DEF InPacket
  <2>7. PICK k \in 1 .. Len(sent) : stage = "payload" => wanted = Len(sent[k]) - 4
    BY <1>1, <2>5, <2>6, PacketAtHand
  <2>8. 5 <= Len(sent[k]) /\ Len(sent[k]) \in Nat
    BY <1>1, <2>7, PacketLength
  <2>9. QED
    BY <1>3, <2>7, <2>8
<1>4. QED
  BY <1>2, <1>3
-----------------------------------------------------------------------------
\* The initial states.
LEMMA InitInv == Init => WindowsInv
<1> SUFFICES ASSUME Init
             PROVE  WindowsInv
  OBVIOUS
<1>1. LineTyped /\ LineInv(<<>>, TRUE)
  BY LineBegins DEF Init
<1>2. /\ operation = "none" /\ m_readLength = 0 /\ m_readBuffer = <<>> /\ errors = 0
      /\ received = <<>> /\ line = <<>>
  BY DEF Init, LineInit
<1>3. m_readBuffer \o (received \o line) = <<>>
  BY <1>2
<1>4. 0 \in 0 .. MaxErrors /\ <<>> \in Seq(Byte) /\ Len(<<>>) = 0 /\ 0 <= 0
  BY WindowsAssumption
<1>5. OperationTyped
  BY <1>2, <1>4, FreshBounds DEF OperationTyped
<1>6. Collected
  BY <1>2 DEF Collected
<1>7. QED
  BY Zenon, <1>1, <1>3, <1>5, <1>6 DEF WindowsInv

\* One lemma for each action that does more than wait.
LEMMA GetResponseInv ==
  ASSUME WindowsInv, getResponse
  PROVE  WindowsInv'
<1>1. /\ LineTyped /\ OperationTyped /\ received \in Seq(Byte) /\ line \in Seq(Byte)
      /\ LineInv(m_readBuffer \o (received \o line), TRUE)
  BY QueuesTyped DEF WindowsInv
<1>2. PICK v \in Seq(Byte) : v = m_readBuffer \o (received \o line)
  BY <1>1, QueuesTyped
<1>3. /\ stage = "idle" /\ begin /\ UNCHANGED <<taken, history>>
      /\ line' = line /\ received' = received /\ operation' = operation
      /\ m_readLength' = m_readLength /\ m_readBuffer' = m_readBuffer /\ errors' = errors
      /\ framed' = framed /\ taken' = taken
  BY DEF getResponse, overlapped, history
<1>4. line' \in Seq(Byte) /\ received' \in Seq(Byte) /\ LineInv(v, TRUE)
  BY Zenon, <1>1, <1>2, <1>3
<1>5. LineTyped' /\ LineInv(v, TRUE)'
  BY <1>1, <1>3, <1>4, BeginKeepsLine
<1>6. LineInv(m_readBuffer \o (received \o line), TRUE)'
  BY Zenon, <1>2, <1>3, <1>5
<1>7. OperationTyped'
  BY <1>1, <1>3 DEF OperationTyped
<1>8. Collected'
  <2>1. stage' = "start" /\ wanted' = 1
    BY <1>3 DEF begin, wanted
  <2>2. taken' = <<>> /\ Len(<<>>) = 0 /\ ~InPacket /\ ~InPacket'
    BY <1>1, <1>3, <2>1 DEF LineTyped, InPacket
  <2>3. asked' = 1
    BY <2>1, <2>2, OneIsAsked DEF asked
  <2>4. nextLength = 1 /\ nextLength' = 1
    BY <1>3, <2>1, <2>3 DEF nextLength
  <2>5. QED
    BY <1>3, <2>2, <2>4 DEF WindowsInv, Collected
<1>9. QED
  BY Zenon, <1>5, <1>6, <1>7, <1>8 DEF WindowsInv

\* The invariant survives a poll that finds nothing.
LEMMA ReadNothingInv ==
  ASSUME WindowsInv, readNothing
  PROVE  WindowsInv'
<1>1. /\ LineTyped /\ OperationTyped /\ received \in Seq(Byte) /\ line \in Seq(Byte)
      /\ LineInv(m_readBuffer \o (received \o line), TRUE)
  BY QueuesTyped DEF WindowsInv
<1>2. PICK v \in Seq(Byte) : v = m_readBuffer \o (received \o line)
  BY <1>1, QueuesTyped
<1>3. /\ stage \in Loops /\ wanted = 0 /\ storeNothing
      /\ line' = line /\ received' = received /\ operation' = operation
      /\ m_readLength' = m_readLength /\ m_readBuffer' = m_readBuffer /\ errors' = errors
  BY DEF readNothing, overlapped
<1>4. line' \in Seq(Byte) /\ received' \in Seq(Byte) /\ LineInv(v, TRUE)
  BY Zenon, <1>1, <1>2, <1>3
<1>5. LineTyped' /\ LineInv(v, TRUE)'
  BY <1>1, <1>3, <1>4, StoreNothingKeepsLine
<1>6. LineInv(m_readBuffer \o (received \o line), TRUE)'
  BY Zenon, <1>2, <1>3, <1>5
<1>7. OperationTyped'
  BY <1>1, <1>3 DEF OperationTyped
<1>8. Collected'
  <2>1. ~framed
    BY <1>3, PayloadIsNotEmpty
  <2>2. ~framed'
    BY <1>1, <1>3, <2>1 DEF storeNothing, answered
  <2>3. stage = "payload" /\ readReturns(<<>>) /\ Len(<<>>) = 0
    BY <1>1, <1>3, LineFacts DEF Loops, storeNothing
  <2>4. stage' = "idle"
    BY <1>3, <2>3
       DEF readReturns, startReturns, headerReturns, payloadReturns, return
  <2>5. ~InPacket'
    BY <2>4 DEF InPacket
  <2>6. QED
    BY <1>3, <2>2, <2>5 DEF WindowsInv, Collected
<1>9. QED
  BY Zenon, <1>5, <1>6, <1>7, <1>8 DEF WindowsInv

\* It survives a read that is served at once.
LEMMA ReadFileInv ==
  ASSUME WindowsInv, ReadFile
  PROVE  WindowsInv'
<1>1. /\ LineTyped /\ OperationTyped /\ received \in Seq(Byte) /\ line \in Seq(Byte)
  BY QueuesTyped DEF WindowsInv
<1>2. reads /\ issues
  BY DEF ReadFile
<1>3. PICK a \in Nat : a = asked /\ Len(taken) + a <= wanted /\ a <= MaxLength
  BY <1>1, <1>2, AskedTyped
<1>4. PICK b \in Seq(Byte), rest \in Seq(Byte) :
        /\ b = SubSeq(received, 1, Min({Len(received), a}))
        /\ rest = SubSeq(received, Min({Len(received), a}) + 1, Len(received))
        /\ Len(b) <= a /\ received = b \o rest
  <2>1. received \in Seq(Byte)
    BY <1>1
  <2>2. QED
    BY <2>1, Portion
<1>5. /\ returns(b) /\ received' = rest /\ line' = line /\ operation' = "none"
      /\ m_readLength' = a /\ m_readBuffer' = <<>> /\ errors' = errors
  BY Zenon, <1>3, <1>4 DEF ReadFile
<1>6. PICK v \in Seq(Byte) : v = rest \o line
  BY <1>1, ConcatTyped
<1>7. received \o line = b \o v
  <2>1. PICK l \in Seq(Byte) : l = line
    BY <1>1
  <2>2. Regrouped(b, rest, l)
    BY Zenon, Regrouping
  <2>3. QED
    BY Zenon, <1>4, <1>6, <2>1, <2>2 DEF Regrouped
<1>8. LineInv(b \o v, TRUE)
  BY Zenon, <1>2, <1>7, IssueKeepsLine
<1>9. Len(taken) + Len(b) <= wanted /\ stage \in Loops
  BY <1>1, <1>2, <1>3, <1>4, AskedFits DEF reads
<1>10. line' \in Seq(Byte) /\ received' \in Seq(Byte)
  BY <1>1, <1>5
<1>11. LineTyped' /\ LineInv(v, TRUE)'
  BY <1>1, <1>5, <1>8, <1>9, <1>10, ReturnsKeepLine
<1>12. m_readBuffer' \o (received' \o line') = v
  BY <1>5, <1>6, ConcatEmptySeq
<1>13. LineInv(m_readBuffer \o (received \o line), TRUE)'
  BY Zenon, <1>11, <1>12
<1>14. OperationTyped' /\ Collected'
  <2>1. <<>> \in Seq(Byte) /\ Len(<<>>) = 0 /\ 0 <= a
    BY <1>3
  <2>2. QED
    BY <1>1, <1>3, <1>5, <2>1 DEF OperationTyped, Collected
<1>15. QED
  BY Zenon, <1>11, <1>13, <1>14 DEF WindowsInv

\* It survives a read that is left pending, or found so.
LEMMA PendsInv ==
  ASSUME WindowsInv, ReadFilePends \/ stillPending
  PROVE  WindowsInv'
<1>1. /\ LineTyped /\ OperationTyped /\ received \in Seq(Byte) /\ line \in Seq(Byte)
      /\ received \o line \in Seq(Byte)
      /\ LineInv(m_readBuffer \o (received \o line), TRUE)
  BY QueuesTyped DEF WindowsInv
<1>2. /\ reads /\ returns(<<>>) /\ line' = line /\ received' = received /\ errors' = errors
      /\ operation' = "pending" /\ m_readLength' = asked /\ m_readBuffer' = <<>>
  BY DEF ReadFilePends, stillPending, issues, overlapped, WindowsInv, Collected
<1>3. PICK v \in Seq(Byte) : v = received \o line
  BY <1>1
<1>4. LineInv(v, TRUE)
  <2>1. CASE issues
    BY Zenon, <1>2, <1>3, <2>1, IssueKeepsLine
  <2>2. CASE ~issues
    <3>1. m_readBuffer = <<>>
      BY <2>2 DEF ReadFilePends, stillPending, WindowsInv, Collected
    <3>2. m_readBuffer \o v = v
      BY <3>1, ConcatEmptySeq
    <3>3. QED
      BY Zenon, <1>1, <1>3, <3>2
  <2>3. QED
    BY <2>1, <2>2
<1>5. PICK b \in Seq(Byte) : b = <<>>
  <2>1. <<>> \in Seq(Byte)
    OBVIOUS
  <2>2. QED
    BY Zenon, <2>1
<1>6. /\ b \o v = v /\ returns(b) /\ b = <<>>
      /\ stage \in Loops /\ asked \in Nat /\ asked <= MaxLength
      /\ Len(taken) + Len(b) <= wanted
  <2>1. b \o v = v /\ Len(b) = 0
    BY <1>5, ConcatEmptySeq
  <2>2. /\ stage \in Loops /\ asked \in Nat /\ asked <= MaxLength
        /\ Len(taken) + asked <= wanted
    BY <1>1, <1>2, AskedTyped
  <2>3. Len(b) <= asked
    BY <2>1, <2>2
  <2>4. Len(taken) + Len(b) <= wanted
    BY <1>1, <2>2, <2>3, AskedFits
  <2>5. returns(b)
    BY Zenon, <1>2, <1>5
  <2>6. QED
    BY Zenon, <1>5, <2>1, <2>2, <2>4, <2>5
<1>7. line' \in Seq(Byte) /\ received' \in Seq(Byte) /\ LineInv(b \o v, TRUE)
  BY Zenon, <1>1, <1>2, <1>4, <1>6
<1>8. LineTyped' /\ LineInv(v, TRUE)'
  BY <1>1, <1>6, <1>7, ReturnsKeepLine
<1>9. m_readBuffer' \o (received' \o line') = v
  <2>1. <<>> \o v = v
    BY ConcatEmptySeq
  <2>2. QED
    BY Zenon, <1>2, <1>3, <2>1
<1>10. LineInv(m_readBuffer \o (received \o line), TRUE)'
  BY Zenon, <1>8, <1>9
<1>11. OperationTyped'
  <2>1. <<>> \in Seq(Byte) /\ Len(<<>>) = 0 /\ 0 <= asked
    BY <1>6
  <2>2. QED
    BY <1>1, <1>2, <1>6, <2>1 DEF OperationTyped
<1>12. Collected'
  <2>1. (InPacket \/ framed)' => nextLength' = asked
    BY <1>1, <1>2, WaitAsksAgain
  <2>2. QED
    BY <1>2, <2>1 DEF Collected
<1>13. QED
  BY Zenon, <1>8, <1>10, <1>11, <1>12 DEF WindowsInv

\* It survives a read that fails when it is issued or collected.
LEMMA FailsInv ==
  ASSUME WindowsInv, ReadFileFails \/ collectFails
  PROVE  WindowsInv'
<1>1. /\ LineTyped /\ OperationTyped /\ received \in Seq(Byte) /\ line \in Seq(Byte)
      /\ received \o line \in Seq(Byte)
      /\ LineInv(m_readBuffer \o (received \o line), TRUE)
  BY QueuesTyped DEF WindowsInv
<1>2. /\ reads /\ storeFails /\ line' = line /\ received' = received
      /\ operation' \in {"none", "failed"} /\ m_readLength' = asked /\ m_readBuffer' = <<>>
  BY DEF ReadFileFails, collectFails, issues, overlapped, WindowsInv, Collected
<1>3. errors' \in 0 .. MaxErrors
  BY <1>1, WindowsAssumption DEF ReadFileFails, collectFails, OperationTyped
<1>4. PICK v \in Seq(Byte) : v = received \o line
  BY <1>1
<1>5. LineInv(v, TRUE)
  <2>1. CASE issues
    BY Zenon, <1>2, <1>4, <2>1, IssueKeepsLine
  <2>2. CASE ~issues
    <3>1. m_readBuffer = <<>>
      BY <2>2 DEF ReadFileFails, collectFails, WindowsInv, Collected
    <3>2. m_readBuffer \o v = v
      BY <3>1, ConcatEmptySeq
    <3>3. QED
      BY Zenon, <1>1, <1>4, <3>2
  <2>3. QED
    BY <2>1, <2>2
<1>6. /\ stage \in Loops /\ asked \in Nat /\ asked <= MaxLength
      /\ line' \in Seq(Byte) /\ received' \in Seq(Byte)
  BY <1>1, <1>2, AskedTyped
<1>7. LineTyped' /\ LineInv(v, TRUE)'
  BY <1>1, <1>2, <1>5, <1>6, StoreFailsKeepsLine
<1>8. m_readBuffer' \o (received' \o line') = v
  <2>1. <<>> \o v = v
    BY ConcatEmptySeq
  <2>2. QED
    BY Zenon, <1>2, <1>4, <2>1
<1>9. LineInv(m_readBuffer \o (received \o line), TRUE)'
  BY Zenon, <1>7, <1>8
<1>10. OperationTyped'
  <2>1. <<>> \in Seq(Byte) /\ Len(<<>>) = 0 /\ 0 <= asked
    BY <1>6
  <2>2. QED
    BY <1>2, <1>3, <1>6, <2>1 DEF OperationTyped
<1>11. Collected'
  <2>1. (InPacket \/ framed)' => nextLength' = asked
    BY <1>1, <1>2, FailAsksAgain
  <2>2. QED
    BY <1>2, <2>1 DEF Collected
<1>12. QED
  BY Zenon, <1>7, <1>9, <1>10, <1>11 DEF WindowsInv

\* It survives the collection of a read that was left pending.
LEMMA CollectInv ==
  ASSUME WindowsInv, collect
  PROVE  WindowsInv'
<1>1. /\ LineTyped /\ OperationTyped /\ received \in Seq(Byte) /\ line \in Seq(Byte)
      /\ received \o line \in Seq(Byte) /\ m_readBuffer \in Seq(Byte)
      /\ LineInv(m_readBuffer \o (received \o line), TRUE)
  BY QueuesTyped DEF WindowsInv
<1>2. /\ reads /\ m_readLength = asked /\ returns(m_readBuffer)
      /\ operation' = "none" /\ m_readBuffer' = <<>> /\ m_readLength' = m_readLength
      /\ line' = line /\ received' = received /\ errors' = errors
  BY DEF collect, issues
<1>3. PICK b \in Seq(Byte), v \in Seq(Byte) : b = m_readBuffer /\ v = received \o line
  BY <1>1
<1>4. LineInv(b \o v, TRUE) /\ returns(b)
  BY Zenon, <1>1, <1>2, <1>3
<1>5. PICK a \in Nat : a = asked /\ Len(taken) + a <= wanted /\ stage \in Loops
  BY <1>1, <1>2, AskedTyped
<1>6. Len(b) <= a
  BY Zenon, <1>1, <1>2, <1>3, <1>5 DEF OperationTyped
<1>7. /\ Len(taken) + Len(b) <= wanted
      /\ line' \in Seq(Byte) /\ received' \in Seq(Byte)
  BY <1>1, <1>2, <1>5, <1>6, AskedFits
<1>8. LineTyped' /\ LineInv(v, TRUE)'
  BY <1>1, <1>4, <1>5, <1>7, ReturnsKeepLine
<1>9. m_readBuffer' \o (received' \o line') = v
  <2>1. <<>> \o v = v
    BY ConcatEmptySeq
  <2>2. QED
    BY Zenon, <1>2, <1>3, <2>1
<1>10. LineInv(m_readBuffer \o (received \o line), TRUE)'
  BY Zenon, <1>8, <1>9
<1>11. OperationTyped' /\ Collected'
  <2>1. <<>> \in Seq(Byte) /\ Len(<<>>) = 0 /\ \A l \in Nat : 0 <= l
    OBVIOUS
  <2>2. QED
    BY <1>1, <1>2, <2>1 DEF OperationTyped, Collected
<1>12. QED
  BY Zenon, <1>8, <1>10, <1>11 DEF WindowsInv

\* It survives the operating system, which gives received bytes to a pending read.
LEMMA CompletesInv ==
  ASSUME WindowsInv, Completes
  PROVE  WindowsInv'
<1>1. /\ LineTyped /\ OperationTyped /\ received \in Seq(Byte) /\ line \in Seq(Byte)
      /\ received \o line \in Seq(Byte)
      /\ LineInv(m_readBuffer \o (received \o line), TRUE)
  BY QueuesTyped DEF WindowsInv
<1>2. PICK a \in Nat : a = m_readLength
  BY <1>1 DEF OperationTyped
<1>3. PICK b \in Seq(Byte), rest \in Seq(Byte) :
        /\ b = SubSeq(received, 1, Min({Len(received), a}))
        /\ rest = SubSeq(received, Min({Len(received), a}) + 1, Len(received))
        /\ Len(b) <= a /\ received = b \o rest
  <2>1. received \in Seq(Byte)
    BY <1>1
  <2>2. QED
    BY <2>1, Portion
<1>4. /\ m_readBuffer' = b /\ received' = rest /\ line' = line
      /\ operation' = "done" /\ m_readLength' = m_readLength /\ errors' = errors
      /\ UNCHANGED <<reader, taken, history>>
  BY Zenon, <1>2, <1>3 DEF Completes
<1>5. m_readBuffer = <<>> /\ operation # "none"
  BY DEF Completes, WindowsInv, Collected
<1>6. PICK v \in Seq(Byte) : v = received \o line
  BY <1>1
<1>7. LineInv(v, TRUE)
  <2>1. <<>> \o v = v
    BY ConcatEmptySeq
  <2>2. QED
    BY Zenon, <1>1, <1>5, <1>6, <2>1
<1>8. v = b \o (rest \o line)
  <2>1. PICK l \in Seq(Byte) : l = line
    BY <1>1
  <2>2. Regrouped(b, rest, l)
    BY Zenon, Regrouping
  <2>3. QED
    BY Zenon, <1>3, <1>6, <2>1, <2>2 DEF Regrouped
<1>9. line' \in Seq(Byte) /\ received' \in Seq(Byte)
  BY <1>1, <1>4
<1>10. LineTyped' /\ LineInv(v, TRUE)'
  BY <1>1, <1>4, <1>7, <1>9, OthersKeepLine
<1>11. LineInv(m_readBuffer \o (received \o line), TRUE)'
  BY Zenon, <1>4, <1>8, <1>10
<1>12. OperationTyped'
  BY <1>1, <1>2, <1>3, <1>4 DEF OperationTyped
<1>13. Collected'
  <2>1. stage' = stage /\ framed' = framed /\ taken' = taken /\ wanted' = wanted
    BY <1>4 DEF reader, history, wanted
  <2>2. InPacket' = InPacket /\ nextLength' = nextLength
    BY <2>1 DEF InPacket, nextLength, asked
  <2>3. QED
    BY <1>4, <1>5, <2>1, <2>2 DEF WindowsInv, Collected
<1>14. QED
  BY Zenon, <1>10, <1>11, <1>12, <1>13 DEF WindowsInv

\* The steps that leave all the bytes where they are.
LEMMA OthersInv ==
  ASSUME WindowsInv, Fails \/ ByteArrives \/ UNCHANGED vars
  PROVE  WindowsInv'
<1>1. /\ LineTyped /\ OperationTyped /\ received \in Seq(Byte) /\ line \in Seq(Byte)
      /\ LineInv(m_readBuffer \o (received \o line), TRUE)
  BY QueuesTyped DEF WindowsInv
<1>2. /\ UNCHANGED <<reader, taken, history>>
      /\ m_readLength' = m_readLength /\ m_readBuffer' = m_readBuffer
      /\ \/ operation' = operation /\ errors' = errors
         \/ operation = "pending" /\ operation' = "failed"
            /\ errors < MaxErrors /\ errors' = errors + 1
  BY DEF Fails, ByteArrives, byteArrives, vars, overlapped
<1>3. /\ line' \in Seq(Byte) /\ received' \in Seq(Byte)
      /\ received' \o line' = received \o line
  <2>1. CASE ByteArrives
    BY <1>1, <2>1, ByteMoves DEF ByteArrives, byteArrives
  <2>2. CASE Fails \/ UNCHANGED vars
    <3>1. line' = line /\ received' = received
      BY <2>2 DEF Fails, vars
    <3>2. QED
      BY <1>1, <3>1
  <2>3. QED
    BY <2>1, <2>2
<1>4. PICK v \in Seq(Byte) : v = m_readBuffer \o (received \o line)
  BY <1>1, QueuesTyped
<1>5. LineInv(v, TRUE)
  BY Zenon, <1>1, <1>4
<1>6. LineTyped' /\ LineInv(v, TRUE)'
  BY <1>1, <1>2, <1>3, <1>5, OthersKeepLine
<1>7. LineInv(m_readBuffer \o (received \o line), TRUE)'
  BY Zenon, <1>2, <1>3, <1>4, <1>6
<1>8. OperationTyped'
  BY <1>1, <1>2, WindowsAssumption DEF OperationTyped
<1>9. Collected'
  <2>1. stage' = stage /\ framed' = framed /\ taken' = taken /\ wanted' = wanted
    BY <1>2 DEF reader, history, wanted
  <2>2. InPacket' = InPacket /\ nextLength' = nextLength
    BY <2>1 DEF InPacket, nextLength, asked
  <2>3. QED
    BY <1>2, <2>1, <2>2 DEF WindowsInv, Collected
<1>10. QED
  BY Zenon, <1>6, <1>7, <1>8, <1>9 DEF WindowsInv

\* It survives the chip, whose next packet goes behind all others.
LEMMA ChipSendsInv ==
  ASSUME WindowsInv, ChipSends
  PROVE  WindowsInv'
<1>1. /\ LineTyped /\ OperationTyped /\ received \in Seq(Byte) /\ line \in Seq(Byte)
      /\ m_readBuffer \in Seq(Byte) /\ LineInv(m_readBuffer \o (received \o line), TRUE)
  BY QueuesTyped DEF WindowsInv
<1>2. PICK p \in Packets :
        /\ line = <<>> /\ line' = p /\ sent' = Append(sent, p) /\ received' = received
        /\ UNCHANGED <<reader, taken, answers, framed>>
        /\ operation' = operation /\ m_readLength' = m_readLength
        /\ m_readBuffer' = m_readBuffer /\ errors' = errors
  BY DEF ChipSends, chipSends, overlapped
<1>3. p \in Seq(Byte)
  BY ReaderAssumption DEF IsPacket
<1>4. PICK r \in Seq(Byte), b \in Seq(Byte) : r = received /\ b = m_readBuffer
  BY <1>1
<1>5. PICK v \in Seq(Byte) : v = b \o r
  BY ConcatTyped
<1>6. LineInv(v, TRUE)
  <2>1. r \o <<>> = r
    BY ConcatEmptySeq
  <2>2. QED
    BY Zenon, <1>1, <1>2, <1>4, <1>5, <2>1
<1>7. line' \in Seq(Byte) /\ received' \in Seq(Byte)
  BY <1>1, <1>2, <1>3
<1>8. LineTyped' /\ LineInv(v \o p, TRUE)'
  BY <1>1, <1>2, <1>6, <1>7, ChipKeepsLine
<1>9. m_readBuffer' \o (received' \o line') = v \o p
  <2>1. Regrouped(b, r, p)
    BY Zenon, <1>3, Regrouping
  <2>2. QED
    BY Zenon, <1>2, <1>4, <1>5, <2>1 DEF Regrouped
<1>10. LineInv(m_readBuffer \o (received \o line), TRUE)'
  BY Zenon, <1>8, <1>9
<1>11. OperationTyped'
  BY <1>1, <1>2 DEF OperationTyped
<1>12. Collected'
  <2>1. stage' = stage /\ framed' = framed /\ taken' = taken /\ wanted' = wanted
    BY <1>2 DEF reader, wanted
  <2>2. InPacket' = InPacket /\ nextLength' = nextLength
    BY <2>1 DEF InPacket, nextLength, asked
  <2>3. QED
    BY <1>2, <2>1, <2>2 DEF WindowsInv, Collected
<1>13. QED
  BY Zenon, <1>8, <1>10, <1>11, <1>12 DEF WindowsInv

\* The steps of the specification keep the invariant.
LEMMA StepInv == WindowsInv /\ [Next]_vars => WindowsInv'
<1> SUFFICES ASSUME WindowsInv, [Next]_vars
             PROVE  WindowsInv'
  OBVIOUS
<1>1. CASE getResponse
  BY <1>1, GetResponseInv
<1>2. CASE readNothing
  BY <1>2, ReadNothingInv
<1>3. CASE ReadFile
  BY <1>3, ReadFileInv
<1>4. CASE ReadFilePends \/ stillPending
  BY <1>4, PendsInv
<1>5. CASE ReadFileFails \/ collectFails
  BY <1>5, FailsInv
<1>6. CASE collect
  BY <1>6, CollectInv
<1>7. CASE Completes
  BY <1>7, CompletesInv
<1>8. CASE ChipSends
  BY <1>8, ChipSendsInv
<1>9. CASE Fails \/ ByteArrives \/ UNCHANGED vars
  BY <1>9, OthersInv
<1>10. QED
  BY <1>1, <1>2, <1>3, <1>4, <1>5, <1>6, <1>7, <1>8, <1>9 DEF Next, Reads

\* The invariant holds in every reachable state.
THEOREM WindowsInvIsInvariant == Spec => []WindowsInv
BY InitInv, StepInv, PTL DEF Spec

\* Types: what the model stores is of the kind it should be, an operation has brought
\* no more than it was issued for, and a read has stored no more than it was asked for
\* (readNonblock, SerialDataController::read).
THEOREM TypeCorrectness == Spec => []TypeOK
<1>1. WindowsInv => TypeOK
  BY DEF WindowsInv, LineTyped, OperationTyped, TypeOK
<1>2. QED
  BY <1>1, WindowsInvIsInvariant, PTL

\* The answers of getResponse are packets the chip has sent, whole, in order and none
\* twice, unless a wait is given up within a packet and a payload has a start byte: the
\* reads that outlive the call that issued them tear no packet (readNonblock).
THEOREM AnswersAreWholePackets == Spec => []FramedAnswersArePackets
<1>1. WindowsInv => FramedAnswersArePackets
  <2> SUFFICES ASSUME WindowsInv, framed \/ StartByteIsUnique
               PROVE  AnswersArePackets
    BY DEF FramedAnswersArePackets
  <2>1. /\ LineTyped /\ LineInv(m_readBuffer \o (received \o line), TRUE)
        /\ m_readBuffer \o (received \o line) \in Seq(Byte)
    BY QueuesTyped DEF WindowsInv
  <2>2. QED
    BY Zenon, <2>1, AnswersLocated
<1>2. QED
  BY <1>1, WindowsInvIsInvariant, PTL

\* On the same condition nothing is asked for that has no place in the callers' buffer,
\* though neither getResponse nor read compares a length with the buffer's.
THEOREM ReadsStayInBuffer == Spec => [](framed \/ StartByteIsUnique => ReadsFitBuffer)
<1>1. WindowsInv => (framed \/ StartByteIsUnique => ReadsFitBuffer)
  <2> SUFFICES ASSUME WindowsInv, framed \/ StartByteIsUnique
               PROVE  ReadsFitBuffer
    OBVIOUS
  <2>1. /\ LineTyped /\ LineInv(m_readBuffer \o (received \o line), TRUE)
        /\ m_readBuffer \o (received \o line) \in Seq(Byte)
    BY QueuesTyped DEF WindowsInv
  <2>2. QED
    BY Zenon, <2>1, ReadsAreOfPackets
<1>2. QED
  BY <1>1, WindowsInvIsInvariant, PTL
=============================================================================
