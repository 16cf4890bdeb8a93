--------------------------- MODULE UdpSocketProofs ---------------------------
(***************************************************************************)
(* What holds of getResponse over UDP whatever the datagrams, the packets  *)
(* and the bounds: the datagram of the call is always what has been passed *)
(* over, then what is in the buffer, then what read has still to serve.    *)
(***************************************************************************)
EXTENDS UdpSocket, ReaderProofs

DatagramTypes == /\ queue \in Seq(Datagrams)
                 /\ m_responseBuffer \in Seq(Byte)
                 /\ current \in Datagrams \cup {<<>>}

\* Between a call's beginning and its datagram there is no datagram of the call.
NoneYet == stage = "init" => current = <<>> /\ buffer = <<>> /\ response = "NONE"

Served == stage # "init" =>
  \E passed \in Seq(Byte) : current = passed \o (buffer \o m_responseBuffer)

\* Nothing of a packet is passed over, and each loop gets all of its bytes at once.
Intact == current \in Packets =>
  /\ stage \in Loops => offset = 0 /\ current = buffer \o m_responseBuffer
  /\ stage = "idle" => response # "ERROR" /\ buffer = current

SocketInv == ReaderTyped /\ DatagramTypes /\ NoneYet /\ Served /\ Intact
-----------------------------------------------------------------------------
\* The n bytes that follow the first m.
LEMMA BytesBetween ==
  ASSUME NEW s \in Seq(Byte), NEW m \in Nat, NEW n \in Nat, m + n <= Len(s)
  PROVE  /\ SubSeq(s, m + 1, m + n) \in Seq(Byte)
         /\ Len(SubSeq(s, m + 1, m + n)) = n
         /\ \A i \in 1 .. n : SubSeq(s, m + 1, m + n)[i] = s[m + i]
<1>1. PICK lo \in Int, hi \in Int : lo = m + 1 /\ hi = m + n
  OBVIOUS
<1>2. \A i \in lo .. hi : s[i] \in Byte
  <2>1. Len(s) \in Nat
    BY LenProperties
  <2>2. \A i \in lo .. hi : i \in 1 .. Len(s)
    BY <1>1, <2>1
  <2>3. QED
    BY Zenon, <2>2, ElementOfSeq
<1> DEFINE f == SubSeq(s, lo, hi)
<1>3. /\ f \in Seq(Byte) /\ Len(f) = IF lo <= hi THEN hi - lo + 1 ELSE 0
      /\ \A i \in 1 .. hi - lo + 1 : f[i] = s[lo + i - 1]
  BY SMTT(30), <1>2, SubSeqProperties
<1> HIDE DEF f
<1>4. Len(f) = n
  BY <1>1, <1>3
<1>5. ASSUME NEW i \in 1 .. n
      PROVE  f[i] = s[m + i]
  <2>1. i \in 1 .. hi - lo + 1 /\ lo + i - 1 = m + i
    BY <1>1
  <2>2. QED
    BY Zenon, <1>3, <2>1
<1>6. QED
  BY <1>1, <1>3, <1>4, <1>5 DEF f

\* What is in the middle of a sequence is a subsequence of it.
LEMMA MiddleIsSubSeq ==
  ASSUME NEW p \in Seq(Byte), NEW b \in Seq(Byte), NEW r \in Seq(Byte)
  PROVE  b \in SubSeqs(p \o (b \o r))
<1> DEFINE s == p \o (b \o r)
<1>1. /\ s \in Seq(Byte) /\ b \o r \in Seq(Byte)
      /\ Len(b \o r) = Len(b) + Len(r)
      /\ Len(s) = Len(p) + (Len(b) + Len(r))
      /\ Len(p) \in Nat /\ Len(b) \in Nat /\ Len(r) \in Nat
  BY ConcatProperties, LenProperties
<1>2. \A i \in 1 .. Len(b) : s[Len(p) + i] = b[i]
  <2>1. TAKE i \in 1 .. Len(b)
  <2>2. Len(p) + i \in 1 .. Len(p) + Len(b \o r) /\ ~(Len(p) + i <= Len(p))
        /\ (Len(p) + i) - Len(p) = i /\ i \in 1 .. Len(b) + Len(r) /\ i <= Len(b)
    BY <1>1
  <2>3. s[Len(p) + i] = (b \o r)[i]
    BY <1>1, <2>2, ConcatProperties
  <2>4. (b \o r)[i] = b[i]
    BY <2>2, ConcatProperties
  <2>5. QED
    BY <2>3, <2>4
<1> HIDE DEF s
<1>3. /\ SubSeq(s, Len(p) + 1, Len(p) + Len(b)) \in Seq(Byte)
      /\ Len(SubSeq(s, Len(p) + 1, Len(p) + Len(b))) = Len(b)
      /\ \A i \in 1 .. Len(b) : SubSeq(s, Len(p) + 1, Len(p) + Len(b))[i] = s[Len(p) + i]
  <2>1. Len(p) + Len(b) <= Len(s)
    BY <1>1
  <2>2. s \in Seq(Byte) /\ Len(p) \in Nat /\ Len(b) \in Nat
    BY <1>1
  <2>3. QED
    BY Zenon, <2>1, <2>2, BytesBetween
<1>4. b = SubSeq(s, Len(p) + 1, Len(p) + Len(b))
  <2>1. \A i \in 1 .. Len(b) : b[i] = SubSeq(s, Len(p) + 1, Len(p) + Len(b))[i]
    BY <1>2, <1>3
  <2>2. QED
    BY Zenon, <1>3, <2>1, SeqEqual
<1>5. Len(p) \in 0 .. Len(s) /\ Len(p) + Len(b) \in 0 .. Len(s)
  BY <1>1
<1>6. b \in SubSeqs(s)
  <2>1. \A i, j \in 0 .. Len(s) : SubSeq(s, i + 1, j) \in SubSeqs(s)
    BY DEF SubSeqs
  <2>2. QED
    BY Zenon, <1>4, <1>5, <2>1
<1>7. QED
  BY <1>6 DEF s
-----------------------------------------------------------------------------
\* What a read takes off the datagram.
LEMMA ReadServes ==
  ASSUME SocketInv, read
  PROVE  \E n \in Nat, bytes \in Seq(Byte), rest \in Seq(Byte) :
           /\ n = Min({wanted, Len(m_responseBuffer)}) /\ Len(bytes) = n /\ n <= wanted
           /\ m_responseBuffer = bytes \o rest /\ m_responseBuffer' = rest
           /\ bytes = SubSeq(m_responseBuffer, 1, n)
           /\ readReturns(bytes)
<1> DEFINE n == Min({wanted, Len(m_responseBuffer)})
           bytes == SubSeq(m_responseBuffer, 1, n)
           rest == SubSeq(m_responseBuffer, n + 1, Len(m_responseBuffer))
<1>1. m_responseBuffer \in Seq(Byte) /\ Len(m_responseBuffer) \in Nat /\ wanted \in Nat
  BY WantedIsNat, LenProperties DEF SocketInv, DatagramTypes
<1>2. n \in Nat /\ n <= wanted /\ n <= Len(m_responseBuffer)
  BY <1>1, MinOfTwo
<1>3. readReturns(bytes) /\ m_responseBuffer' = rest
  BY DEF read
<1> HIDE DEF n
<1>4. /\ bytes \in Seq(Byte) /\ Len(bytes) = n /\ rest \in Seq(Byte)
      /\ m_responseBuffer = bytes \o rest
  BY <1>1, <1>2, SplitAt
<1> HIDE DEF bytes, rest
<1>5. n = Min({wanted, Len(m_responseBuffer)}) /\ bytes = SubSeq(m_responseBuffer, 1, n)
  BY DEF n, bytes
<1>6. QED
  BY <1>2, <1>3, <1>4, <1>5

\* Bytes that a read has returned go into the buffer or are passed over.
LEMMA BytesKept ==
  ASSUME NEW bytes, readReturns(bytes)
  PROVE  \/ buffer' = buffer \o bytes
         \/ stage = "start" /\ (buffer' = bytes \/ buffer' = buffer)
BY DEF readReturns, startReturns, headerReturns, payloadReturns

\* Nothing of the datagram is lost, moved or served twice.
LEMMA ReadKeepsServed ==
  ASSUME SocketInv, read
  PROVE  Served'
<1>1. PICK n \in Nat, bytes \in Seq(Byte), rest \in Seq(Byte) :
        /\ m_responseBuffer = bytes \o rest /\ m_responseBuffer' = rest
        /\ readReturns(bytes)
  BY ReadServes
<1>2. stage \in Loops /\ current' = current /\ buffer \in Seq(Byte)
  BY DEF read, SocketInv, ReaderTyped, ReaderTypeOK
<1>3. PICK passed \in Seq(Byte) : current = passed \o (buffer \o (bytes \o rest))
  BY <1>1, <1>2 DEF SocketInv, Served, Loops
<1>4. CASE buffer' = buffer \o bytes
  <2>1. buffer \o (bytes \o rest) = (buffer \o bytes) \o rest
    BY Zenon, <1>2, Regroup
  <2>2. current = passed \o ((buffer \o bytes) \o rest)
    BY Zenon, <1>3, <2>1
  <2>3. m_responseBuffer' = rest /\ current' = current
    BY <1>1, <1>2
  <2>4. QED
    BY Zenon, <1>4, <2>2, <2>3 DEF Served
<1>5. CASE stage = "start" /\ (buffer' = bytes \/ buffer' = buffer)
  <2>1. buffer = <<>> /\ bytes \o rest \in Seq(Byte) /\ passed \o bytes \in Seq(Byte)
    BY <1>5, ConcatTyped DEF SocketInv, ReaderTyped, Filled
  <2>2. current = passed \o (bytes \o rest)
    BY <1>3, <2>1, ConcatEmptySeq
  <2>3. CASE buffer' = bytes
    BY <1>1, <1>2, <2>2, <2>3 DEF Served
  <2>4. CASE buffer' = buffer
    <3>1. buffer' \o rest = rest
      BY <2>1, <2>4, ConcatEmptySeq
    <3>2. current = (passed \o bytes) \o rest
      BY Zenon, <2>2, Regroup
    <3>3. current' = (passed \o bytes) \o (buffer' \o m_responseBuffer')
      BY <1>1, <1>2, <3>1, <3>2
    <3>4. QED
      BY <2>1, <3>3 DEF Served
  <2>5. QED
    BY <1>5, <2>3, <2>4
<1>6. QED
  BY <1>1, <1>4, <1>5, BytesKept

\* A packet that is held as one, and what each loop has of it.
LEMMA PacketHeld ==
  ASSUME SocketInv, stage \in Loops, current \in Packets
  PROVE  /\ current \in Seq(Byte) /\ buffer \in Seq(Byte) /\ m_responseBuffer \in Seq(Byte)
         /\ current = buffer \o m_responseBuffer /\ wanted = packetLength
         /\ Len(current) >= 5 /\ Len(current) = Len(buffer) + Len(m_responseBuffer)
         /\ Len(buffer) \in Nat /\ Len(m_responseBuffer) \in Nat
         /\ current[1] = DV3000_START_BYTE /\ headerLength(current) = Len(current) - 4
<1>1. /\ current \in Seq(Byte) /\ Len(current) >= 5
      /\ current[1] = DV3000_START_BYTE /\ headerLength(current) = Len(current) - 4
  BY ReaderAssumption DEF IsPacket
<1>2. /\ buffer \in Seq(Byte) /\ m_responseBuffer \in Seq(Byte)
      /\ offset = 0 /\ current = buffer \o m_responseBuffer
  BY DEF SocketInv, ReaderTyped, ReaderTypeOK, DatagramTypes, Intact
<1>3. wanted = packetLength
  BY <1>2, WantedIsNat DEF SocketInv, ReaderTyped, ReaderTypeOK
<1>4. QED
  BY <1>1, <1>2, <1>3, BytesJoined

\* A loop on a packet gets what it asks for at its first turn, and the next begins; or
\* the last returns the packet's type.
LEMMA StartKeepsIntact ==
  ASSUME SocketInv, current \in Packets, read, stage = "start"
  PROVE  /\ stage' = "header" /\ offset' = 0
         /\ current' = buffer' \o m_responseBuffer'
<1>1. PICK n \in Nat, bytes \in Seq(Byte), rest \in Seq(Byte) :
        /\ n = Min({wanted, Len(m_responseBuffer)}) /\ Len(bytes) = n
        /\ m_responseBuffer = bytes \o rest /\ m_responseBuffer' = rest
        /\ readReturns(bytes)
  BY ReadServes
<1>2. buffer = <<>> /\ packetLength = 1 /\ stage \in Loops /\ current' = current
  BY DEF Loops, read, SocketInv, ReaderTyped, Filled
<1>3. m_responseBuffer = current /\ Len(m_responseBuffer) >= 5 /\ wanted = 1
  BY <1>2, PacketHeld, ConcatEmptySeq
<1>4. Len(bytes) = 1
  BY <1>1, <1>3, MinOfTwo
<1>5. bytes = <<DV3000_START_BYTE>>
  <2>1. 1 \in 1 .. Len(bytes)
    BY <1>4
  <2>2. bytes[1] = current[1]
    <3>1. (bytes \o rest)[1] = bytes[1]
      BY <2>1, BytesJoined
    <3>2. QED
      BY <1>1, <1>3, <3>1
  <2>3. bytes[1] = DV3000_START_BYTE
    BY <1>2, <2>2, PacketHeld
  <2>4. QED
    BY <1>4, <2>3, OneByte
<1>6. startReturns(bytes)
  BY <1>1 DEF readReturns, headerReturns, payloadReturns
<1>7. stage' = "header" /\ offset' = 0 /\ buffer' = bytes
  BY <1>5, <1>6 DEF startReturns, enter
<1>8. QED
  BY <1>1, <1>2, <1>3, <1>7

\* The header of an intact datagram is read at once and the payload is left.
LEMMA HeaderKeepsIntact ==
  ASSUME SocketInv, current \in Packets, read, stage = "header"
  PROVE  /\ stage' = "payload" /\ offset' = 0
         /\ current' = buffer' \o m_responseBuffer'
<1>1. PICK n \in Nat, bytes \in Seq(Byte), rest \in Seq(Byte) :
        /\ n = Min({wanted, Len(m_responseBuffer)}) /\ Len(bytes) = n
        /\ m_responseBuffer = bytes \o rest /\ m_responseBuffer' = rest
        /\ readReturns(bytes)
  BY ReadServes
<1>2. stage \in Loops /\ current' = current /\ packetLength = 3 /\ Len(buffer) = 1 + offset
      /\ offset = 0
  BY DEF Loops, read, SocketInv, ReaderTyped, Filled, Intact
<1>3. wanted = 3 /\ Len(m_responseBuffer) >= 4 /\ Len(m_responseBuffer) \in Nat
  BY <1>2, PacketHeld
<1>4. Len(bytes) = wanted
  BY <1>1, <1>3, MinOfTwo
<1>5. headerReturns(bytes)
  BY <1>1 DEF readReturns, startReturns, payloadReturns
<1>6. stage' = "payload" /\ offset' = 0 /\ buffer' = buffer \o bytes
  BY <1>4, <1>5 DEF headerReturns, enter
<1>7. current = buffer \o (bytes \o rest) /\ buffer \in Seq(Byte)
  BY <1>1, <1>2, PacketHeld
<1>8. current = (buffer \o bytes) \o rest
  BY Zenon, <1>7, Regroup
<1>9. QED
  BY <1>1, <1>2, <1>6, <1>8

\* The payload of an intact datagram is read at once and the answer is the datagram.
LEMMA PayloadKeepsIntact ==
  ASSUME SocketInv, current \in Packets, read, stage = "payload"
  PROVE  /\ stage' = "idle" /\ response' # "ERROR"
         /\ buffer' = current'
<1>1. PICK n \in Nat, bytes \in Seq(Byte), rest \in Seq(Byte) :
        /\ n = Min({wanted, Len(m_responseBuffer)}) /\ Len(bytes) = n
        /\ m_responseBuffer = bytes \o rest
        /\ readReturns(bytes)
  BY ReadServes
<1>2. stage \in Loops /\ current' = current /\ Len(buffer) = 4 + offset /\ offset = 0
      /\ packetLength = headerLength(buffer)
  BY DEF Loops, read, SocketInv, ReaderTyped, Filled, Intact
<1>3. headerLength(buffer) = headerLength(current)
  <2>1. 2 \in 1 .. Len(buffer) /\ 3 \in 1 .. Len(buffer)
    BY <1>2
  <2>2. current[2] = buffer[2] /\ current[3] = buffer[3]
    <3>1. /\ current = buffer \o m_responseBuffer
          /\ buffer \in Seq(Byte) /\ m_responseBuffer \in Seq(Byte)
      BY <1>2, PacketHeld
    <3>2. \A i \in 1 .. Len(buffer) : (buffer \o m_responseBuffer)[i] = buffer[i]
      BY <3>1, BytesJoined
    <3>3. QED
      BY <2>1, <3>1, <3>2
  <2>3. QED
    BY <2>2 DEF headerLength
<1>4. wanted = Len(m_responseBuffer) /\ Len(m_responseBuffer) \in Nat
  BY <1>2, <1>3, PacketHeld
<1>5. Len(bytes) = wanted /\ Len(bytes) = Len(m_responseBuffer)
  BY <1>1, <1>4, MinOfTwo
<1>6. bytes = m_responseBuffer
  <2>1. Len(m_responseBuffer) = Len(bytes) + Len(rest) /\ Len(rest) \in Nat
    BY <1>1, BytesJoined
  <2>2. Len(rest) = 0
    BY <1>4, <1>5, <2>1
  <2>3. rest = <<>>
    BY <2>2, EmptySeq
  <2>4. QED
    BY <1>1, <2>3, ConcatEmptySeq
<1>7. payloadReturns(bytes)
  BY <1>1 DEF readReturns, startReturns, headerReturns
<1>8. PICK type \in typesOf(buffer') : return(type)
  BY <1>5, <1>7 DEF payloadReturns
<1>9. stage' = "idle" /\ response' # "ERROR" /\ buffer' = buffer \o bytes
  BY <1>7, <1>8, TypesAreResponses DEF return, payloadReturns
<1>10. QED
  BY <1>2, <1>6, <1>9, PacketHeld
-----------------------------------------------------------------------------
\* The initial states satisfy the invariant.
LEMMA InitInv == Init => SocketInv
<1> SUFFICES ASSUME Init
             PROVE  SocketInv
  OBVIOUS
<1>1. ReaderTyped /\ DatagramTypes /\ NoneYet
  BY ReaderInitTyped DEF Init, ReaderInit, DatagramTypes, NoneYet
<1>2. <<>> \in Seq(Byte) /\ <<>> = <<>> \o (<<>> \o <<>>)
  BY ConcatEmptySeq, EmptySeq
<1>3. Served
  BY <1>2 DEF Served, Init, ReaderInit
<1>4. current \notin Packets
  BY EmptyIsNoPacket DEF Init
<1>5. QED
  BY <1>1, <1>3, <1>4 DEF SocketInv, Intact

\* Taking the oldest datagram off the queue.
LEMMA HeadOfQueue ==
  ASSUME DatagramTypes, queue # <<>>
  PROVE  Head(queue) \in Datagrams /\ Head(queue) \in Seq(Byte) /\ Tail(queue) \in Seq(Datagrams)
<1>1. Head(queue) \in Datagrams /\ Tail(queue) \in Seq(Datagrams)
  BY HeadTailProperties DEF DatagramTypes
<1>2. QED
  BY <1>1, UdpAssumption

\* The steps of the specification keep the invariant.
LEMMA StepInv == SocketInv /\ [Next]_vars => SocketInv'
<1> SUFFICES ASSUME SocketInv, [Next]_vars
             PROVE  SocketInv'
  OBVIOUS
<1>1. CASE getResponse
  <2>1. /\ stage = "idle" /\ stage' = "init" /\ response' = "NONE" /\ buffer' = <<>>
        /\ current' = <<>> /\ queue' = queue /\ m_responseBuffer' = m_responseBuffer
        /\ tries' = tries /\ packetLength' = packetLength /\ offset' = offset
    BY <1>1 DEF getResponse
  <2>2. <<>> \in Seq(Byte)
    OBVIOUS
  <2>3. ReaderTyped'
    BY <2>1, <2>2 DEF SocketInv, ReaderTyped, ReaderTypeOK, Filled, Responses
  <2>4. DatagramTypes' /\ NoneYet' /\ Served'
    BY <2>1 DEF SocketInv, DatagramTypes, NoneYet, Served
  <2>5. Intact'
    BY <2>1, EmptyIsNoPacket DEF Intact
  <2>6. QED
    BY <2>3, <2>4, <2>5 DEF SocketInv
<1>2. CASE initResponse
  <2>1. /\ queue # <<>> /\ m_responseBuffer' = Head(queue) /\ current' = Head(queue)
        /\ queue' = Tail(queue) /\ stage' = "start" /\ buffer' = <<>> /\ offset' = 0 /\ begin
    BY <1>2 DEF initResponse, begin
  <2>2. Head(queue) \in Datagrams /\ Head(queue) \in Seq(Byte) /\ Tail(queue) \in Seq(Datagrams)
    BY <2>1, HeadOfQueue DEF SocketInv
  <2>3. ReaderTyped'
    BY <2>1, BeginTyped
  <2>4. DatagramTypes' /\ NoneYet'
    BY <2>1, <2>2 DEF DatagramTypes, NoneYet
  <2>5. current' = buffer' \o m_responseBuffer' /\ current' = <<>> \o (buffer' \o m_responseBuffer')
        /\ <<>> \in Seq(Byte)
    BY <2>1, <2>2, ConcatEmptySeq
  <2>6. Served' /\ Intact'
    BY <2>1, <2>5 DEF Served, Intact
  <2>7. QED
    BY <2>3, <2>4, <2>6 DEF SocketInv
<1>3. CASE initResponseFails
  <2>1. /\ stage = "init" /\ m_responseBuffer' = <<>> /\ queue' = queue /\ current' = current
        /\ stage' = "idle" /\ buffer' = buffer /\ readFails
    BY <1>3 DEF initResponseFails, readFails, return
  <2>2. ReaderTyped'
    BY <2>1, ReadFailsTyped DEF SocketInv
  <2>3. DatagramTypes' /\ NoneYet'
    BY <2>1 DEF SocketInv, DatagramTypes, NoneYet
  <2>4. current' = <<>> /\ buffer' = <<>> /\ m_responseBuffer' = <<>>
    BY <2>1 DEF SocketInv, NoneYet
  <2>5. Intact'
    BY <2>4, EmptyIsNoPacket DEF Intact
  <2>6. <<>> = <<>> \o (<<>> \o <<>>) /\ <<>> \in Seq(Byte)
    BY ConcatEmptySeq, EmptySeq
  <2>7. Served'
    BY <2>4, <2>6 DEF Served
  <2>8. QED
    BY <2>2, <2>3, <2>5, <2>7 DEF SocketInv
<1>4. CASE read
  <2>1. PICK n \in Nat, bytes \in Seq(Byte), rest \in Seq(Byte) :
          /\ Len(bytes) = n /\ n <= wanted /\ m_responseBuffer' = rest /\ readReturns(bytes)
    BY <1>4, ReadServes
  <2>2. queue' = queue /\ current' = current /\ stage \in Loops
    BY <1>4 DEF read
  <2>3. ReaderTyped'
    BY <2>1, ReadReturnsTyped DEF SocketInv
  <2>4. DatagramTypes'
    BY <2>1, <2>2 DEF SocketInv, DatagramTypes
  <2>5. stage' # "init"
    BY <2>1, <2>2
       DEF readReturns, startReturns, headerReturns, payloadReturns, enter, retry, return, Loops
  <2>6. Served'
    BY <1>4, ReadKeepsServed
  <2>7. Intact'
    BY <1>4, <2>2, StartKeepsIntact, HeaderKeepsIntact, PayloadKeepsIntact DEF Intact, Loops
  <2>8. QED
    BY <2>3, <2>4, <2>5, <2>6, <2>7 DEF SocketInv, NoneYet
<1>5. CASE DatagramArrives
  <2>1. /\ queue' \in Seq(Datagrams) /\ UNCHANGED <<reader, m_responseBuffer, current>>
    BY <1>5 DEF DatagramArrives, SocketInv, DatagramTypes
  <2>2. ReaderTyped'
    BY <2>1, ReaderStutters DEF SocketInv
  <2>3. DatagramTypes'
    BY <2>1 DEF SocketInv, DatagramTypes
  <2>4. NoneYet' /\ Served' /\ Intact'
    BY <2>1 DEF reader, SocketInv, NoneYet, Served, Intact
  <2>5. QED
    BY <2>2, <2>3, <2>4 DEF SocketInv
<1>6. CASE UNCHANGED vars
  <2>1. UNCHANGED <<reader, queue, m_responseBuffer, current>>
    BY <1>6 DEF vars
  <2>2. ReaderTyped' /\ DatagramTypes'
    BY <2>1, ReaderStutters DEF SocketInv, DatagramTypes
  <2>3. NoneYet' /\ Served' /\ Intact'
    BY <2>1 DEF reader, SocketInv, NoneYet, Served, Intact
  <2>4. QED
    BY <2>2, <2>3 DEF SocketInv
<1>7. QED
  BY <1>1, <1>2, <1>3, <1>4, <1>5, <1>6 DEF Next, Reads

\* The invariant holds in every reachable state.
THEOREM SocketInvIsInvariant == Spec => []SocketInv
BY InitInv, StepInv, PTL DEF Spec

\* Types: what the model stores is of the kind it should be.
THEOREM TypeCorrectness == Spec => []TypeOK
<1>1. SocketInv => TypeOK
  BY DEF SocketInv, ReaderTyped, DatagramTypes, TypeOK
<1>2. QED
  BY <1>1, SocketInvIsInvariant, PTL

\* A response is made of consecutive bytes of one datagram (initResponse, read).
THEOREM NoMixedResponses == Spec => []ResponseIsFromOneDatagram
<1>1. SocketInv => ResponseIsFromOneDatagram
  <2> SUFFICES ASSUME SocketInv, HasPacket
               PROVE  buffer \in SubSeqs(current)
    BY DEF ResponseIsFromOneDatagram
  <2>1. stage # "init" /\ buffer \in Seq(Byte) /\ m_responseBuffer \in Seq(Byte)
    BY DEF HasPacket, SocketInv, ReaderTyped, ReaderTypeOK, DatagramTypes, NoneYet
  <2>2. PICK passed \in Seq(Byte) : current = passed \o (buffer \o m_responseBuffer)
    BY <2>1 DEF SocketInv, Served
  <2>3. QED
    BY <2>1, <2>2, MiddleIsSubSeq
<1>2. QED
  BY <1>1, SocketInvIsInvariant, PTL

\* A datagram that is a packet is returned as that packet, and as no error, whatever
\* the calls before it have given up (timeout_recvfrom, read, getResponse).
THEOREM PacketsAreUnderstood == Spec => []PacketIsUnderstood
<1>1. SocketInv => PacketIsUnderstood
  BY DEF SocketInv, Intact, PacketIsUnderstood
<1>2. QED
  BY <1>1, SocketInvIsInvariant, PTL
=============================================================================
