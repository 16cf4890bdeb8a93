---------------------------- MODULE ReaderProofs ----------------------------
(***************************************************************************)
(* Lemmas about getResponse that hold over any transport, as long as read  *)
(* returns no more bytes than it is asked for.                             *)
(***************************************************************************)
EXTENDS GetResponse, FiniteSetsExt, SequenceTheorems, TLAPS

\* How much of the buffer each loop has filled, and what the next one expects.
Filled ==
  /\ stage = "start" => buffer = <<>> /\ packetLength = 1 /\ offset = 0
  /\ stage = "header" => /\ Len(buffer) = 1 + offset /\ packetLength = 3 /\ offset < 3
                         /\ buffer[1] = DV3000_START_BYTE
  /\ stage = "payload" => /\ Len(buffer) = 4 + offset
                          /\ buffer[1] = DV3000_START_BYTE
                          /\ packetLength = headerLength(buffer)

ReaderTyped == ReaderTypeOK /\ Filled

\* The smaller of two numbers.
LEMMA MinOfTwo ==
  ASSUME NEW a \in Nat, NEW b \in Nat
  PROVE  /\ Min({a, b}) \in Nat /\ Min({a, b}) <= a /\ Min({a, b}) <= b
         /\ a <= b => Min({a, b}) = a
         /\ b <= a => Min({a, b}) = b
<1>1. \E x \in {a, b} : \A y \in {a, b} : x <= y
  <2>1. CASE a <= b
    BY <2>1
  <2>2. CASE b <= a
    BY <2>2
  <2>3. QED
    BY <2>1, <2>2
<1>2. Min({a, b}) \in {a, b} /\ \A y \in {a, b} : Min({a, b}) <= y
  BY <1>1 DEF Min
<1>3. QED
  BY <1>2

\* A sequence is its first n elements and the others.
LEMMA SplitAt ==
  ASSUME NEW s \in Seq(Byte), NEW n \in Nat, n <= Len(s)
  PROVE  /\ SubSeq(s, 1, n) \in Seq(Byte) /\ Len(SubSeq(s, 1, n)) = n
         /\ SubSeq(s, n + 1, Len(s)) \in Seq(Byte)
         /\ s = SubSeq(s, 1, n) \o SubSeq(s, n + 1, Len(s))
<1>1. Len(s) \in Nat /\ \A i \in 1 .. Len(s) : s[i] \in Byte
  BY LenProperties, ElementOfSeq
<1>2. SubSeq(s, 1, n) \in Seq(Byte) /\ Len(SubSeq(s, 1, n)) = n
  <2>1. \A i \in 1 .. n : s[i] \in Byte
    BY <1>1
  <2>2. QED
    BY <2>1, SubSeqProperties
<1>3. SubSeq(s, n + 1, Len(s)) \in Seq(Byte)
  <2>1. \A i \in n + 1 .. Len(s) : s[i] \in Byte
    BY <1>1
  <2>2. QED
    BY <1>1, <2>1, SubSeqProperties
<1>4. SubSeq(s, 1, n) \o SubSeq(s, n + 1, Len(s)) = SubSeq(s, 1, Len(s))
  <2>1. 1 \in 1 .. Len(s) + 1 /\ n \in 1 - 1 .. Len(s) /\ Len(s) \in n .. Len(s)
    BY <1>1
  <2>2. QED
    BY <2>1, ConcatAdjacentSubSeq
<1>5. QED
  BY <1>2, <1>3, <1>4, SubSeqFull

\* Bytes joined are bytes.
LEMMA ConcatTyped ==
  ASSUME NEW s \in Seq(Byte), NEW t \in Seq(Byte)
  PROVE  s \o t \in Seq(Byte)
BY ConcatProperties

\* Joining is associative.
LEMMA Regroup ==
  ASSUME NEW s \in Seq(Byte), NEW t \in Seq(Byte), NEW u \in Seq(Byte)
  PROVE  s \o (t \o u) = (s \o t) \o u
<1>1. (s \o t) \o u = s \o (t \o u)
  BY ConcatAssociative
<1>2. QED
  BY Zenon, <1>1

\* The same as a fact about three sequences, to be expanded where it is used.
Regrouped(s, t, u) == s \o (t \o u) = (s \o t) \o u

\* Any three sequences of bytes may be regrouped.
LEMMA Regrouping ==
  ASSUME NEW s \in Seq(Byte), NEW t \in Seq(Byte), NEW u \in Seq(Byte)
  PROVE  Regrouped(s, t, u)
BY Regroup DEF Regrouped

\* No packet is empty.
LEMMA EmptyIsNoPacket == <<>> \notin Packets
<1>1. Len(<<>>) = 0
  OBVIOUS
<1>2. QED
  BY <1>1, ReaderAssumption DEF IsPacket

\* A loop that has not ended asks for some bytes, except for an empty payload.
LEMMA WantedIsNat ==
  ASSUME ReaderTyped
  PROVE  /\ wanted \in Nat /\ offset + wanted = packetLength
         /\ stage = "start" => wanted = 1
         /\ stage = "header" => wanted >= 1 /\ wanted <= 3
BY DEF ReaderTyped, ReaderTypeOK, Filled, wanted

\* Two bytes make a length.
LEMMA TwoBytes ==
  ASSUME NEW x \in Byte, NEW y \in Byte
  PROVE  x * 256 + y \in Nat /\ x * 256 + y <= MaxLength
<1>1. x \in Int /\ y \in Int /\ 0 <= x /\ x <= 255 /\ 0 <= y /\ y <= 255
  BY DEF Byte
<1>2. QED
  BY <1>1 DEF MaxLength

\* A loop that begins or has ended.
LEMMA FreshBounds ==
  /\ 0 \in Nat /\ 0 < MaxTries
  /\ 0 <= 0 /\ 0 <= 1 /\ 0 <= 3 /\ 1 \in Nat /\ 3 \in Nat
  /\ 0 <= MaxLength /\ 1 <= MaxLength /\ 3 <= MaxLength
BY ReaderAssumption DEF MaxLength

\* Bytes joined to the buffer, whose own bytes stay where they are.
LEMMA BytesJoined ==
  ASSUME NEW s \in Seq(Byte), NEW t \in Seq(Byte)
  PROVE  /\ s \o t \in Seq(Byte)
         /\ Len(s) \in Nat /\ Len(t) \in Nat /\ Len(s \o t) = Len(s) + Len(t)
         /\ \A i \in 1 .. Len(s) : (s \o t)[i] = s[i]
<1>1. /\ s \o t \in Seq(Byte) /\ Len(s \o t) = Len(s) + Len(t)
      /\ \A i \in 1 .. Len(s) + Len(t) :
           (s \o t)[i] = IF i <= Len(s) THEN s[i] ELSE t[i - Len(s)]
  BY ConcatProperties
<1>2. Len(s) \in Nat /\ Len(t) \in Nat
  BY LenProperties
<1>3. QED
  BY <1>1, <1>2

\* The bytes of the second sequence follow those of the first.
LEMMA JoinedAfter ==
  ASSUME NEW s \in Seq(Byte), NEW t \in Seq(Byte), NEW i \in 1 .. Len(t)
  PROVE  (s \o t)[Len(s) + i] = t[i]
<1>1. PICK ls \in Nat, lt \in Nat : ls = Len(s) /\ lt = Len(t)
  BY LenProperties
<1>2. \A k \in 1 .. ls + lt : (s \o t)[k] = IF k <= ls THEN s[k] ELSE t[k - ls]
  BY <1>1, ConcatProperties
<1>3. ls + i \in 1 .. ls + lt /\ ~(ls + i <= ls) /\ (ls + i) - ls = i
  BY <1>1
<1>4. QED
  BY <1>1, <1>2, <1>3

\* An index of a sequence of bytes is in its domain and leads to a byte.
LEMMA ByteAt ==
  ASSUME NEW s \in Seq(Byte), NEW i \in Nat, 1 <= i, i <= Len(s)
  PROVE  i \in 1 .. Len(s) /\ s[i] \in Byte
<1>1. i \in 1 .. Len(s)
  BY LenProperties
<1>2. QED
  BY Zenon, <1>1, ElementOfSeq

\* A sequence of one byte.
LEMMA OneByte ==
  ASSUME NEW s \in Seq(Byte), Len(s) = 1, s[1] = DV3000_START_BYTE
  PROVE  s = <<DV3000_START_BYTE>>
<1>1. 1 \in 1 .. Len(s)
  OBVIOUS
<1>2. s[1] \in Byte
  BY <1>1, ElementOfSeq
<1>3. \A y \in Byte : <<y>> \in Seq(Byte) /\ Len(<<y>>) = 1 /\ <<y>>[1] = y
  OBVIOUS
<1>4. \A i \in 1 .. Len(s) : s[i] = <<DV3000_START_BYTE>>[i]
  BY <1>2, <1>3
<1>5. QED
  BY <1>2, <1>3, <1>4, SeqEqual

\* The bytes of a header make a length of two bytes.
LEMMA LengthIsTyped ==
  ASSUME NEW s \in Seq(Byte), Len(s) >= 3
  PROVE  headerLength(s) \in Nat /\ headerLength(s) <= MaxLength
<1>1. 2 \in Nat /\ 3 \in Nat /\ 1 <= 2 /\ 1 <= 3 /\ 2 <= Len(s) /\ 3 <= Len(s)
  BY LenProperties
<1>2. s[2] \in Byte /\ s[3] \in Byte
  BY Zenon, <1>1, ByteAt
<1>3. \A x, y \in Byte : x * 256 + y \in Nat /\ x * 256 + y <= MaxLength
  BY TwoBytes
<1>4. QED
  BY Zenon, <1>2, <1>3 DEF headerLength

\* Every packet has a type.
LEMMA TypesAreResponses ==
  ASSUME NEW p, NEW type \in typesOf(p)
  PROVE  type \in Responses /\ type \notin {"NONE", "ERROR"}
<1>1. typesOf(p) \subseteq ControlTypes \cup {"AMBE", "AUDIO"}
  BY DEF typesOf, ControlTypes
<1>2. QED
  BY <1>1 DEF Responses, ControlTypes

\* Another turn or the end of a loop keeps the types of all but the buffer.
LEMMA RetryTyped ==
  ASSUME ReaderTyped, stage \in Loops,
         NEW n \in Nat, n <= wanted, retry(n), buffer' \in Seq(Byte)
  PROVE  /\ ReaderTypeOK'
         /\ \/ stage' = "idle" /\ response' = "ERROR"
            \/ stage' = stage /\ packetLength' = packetLength /\ offset' = offset + n
<1>1. wanted \in Nat /\ offset + wanted = packetLength
  BY WantedIsNat
<1>2. /\ stage \in Loops \cup {"idle", "init"} /\ response \in Responses
      /\ offset \in Nat /\ packetLength \in Nat /\ packetLength <= MaxLength /\ tries \in Nat
  BY DEF ReaderTyped, ReaderTypeOK
<1>3. CASE tries + 1 < MaxTries
  <2>1. /\ tries' = tries + 1 /\ offset' = offset + n
        /\ stage' = stage /\ packetLength' = packetLength /\ response' = response
    BY <1>3 DEF retry
  <2>2. offset' \in Nat /\ offset' <= packetLength /\ tries' \in Nat /\ tries' < MaxTries
    BY <1>1, <1>2, <1>3, <2>1
  <2>3. QED
    BY <1>2, <2>1, <2>2 DEF ReaderTypeOK
<1>4. CASE ~(tries + 1 < MaxTries)
  <2>1. /\ stage' = "idle" /\ response' = "ERROR"
        /\ tries' = 0 /\ packetLength' = 0 /\ offset' = 0
    BY <1>4 DEF retry, return
  <2>2. QED
    BY <2>1, FreshBounds DEF ReaderTypeOK, Responses
<1>5. QED
  BY <1>3, <1>4

\* What getResponse makes of the bytes that a read returns keeps the types.
LEMMA StartTyped ==
  ASSUME ReaderTyped, NEW bytes \in Seq(Byte), startReturns(bytes)
  PROVE  ReaderTyped'
<1>1. stage = "start" /\ buffer = <<>> /\ packetLength = 1 /\ offset = 0 /\ wanted = 1
      /\ response \in Responses /\ buffer \in Seq(Byte)
  BY WantedIsNat DEF startReturns, ReaderTyped, ReaderTypeOK, Filled
<1>2. CASE bytes = <<DV3000_START_BYTE>>
  <2>1. /\ stage' = "header" /\ tries' = 0 /\ packetLength' = 3 /\ offset' = 0
        /\ response' = response /\ buffer' = <<DV3000_START_BYTE>> /\ buffer' = bytes
    BY <1>2 DEF startReturns, enter
  <2>2. Len(buffer') = 1 /\ buffer'[1] = DV3000_START_BYTE /\ 0 < MaxTries
    BY <2>1, ReaderAssumption
  <2>3. ReaderTypeOK'
    <3>1. buffer' \in Seq(Byte) /\ response' \in Responses
      BY <1>1, <2>1
    <3>2. stage' \in Loops /\ tries' \in Nat /\ tries' < MaxTries
      BY <2>1, <2>2 DEF Loops
    <3>3. QED
      BY <2>1, <3>1, <3>2, FreshBounds DEF ReaderTypeOK
  <2>4. Filled'
    BY <2>1, <2>2 DEF Filled
  <2>5. QED
    BY <2>3, <2>4 DEF ReaderTyped
<1>3. CASE bytes # <<DV3000_START_BYTE>>
  <2>1. retry(0) /\ buffer' = buffer
    BY <1>3 DEF startReturns
  <2>2. stage \in Loops /\ 0 \in Nat /\ 0 <= wanted
    BY <1>1 DEF Loops
  <2>3. /\ ReaderTypeOK'
        /\ \/ stage' = "idle"
           \/ stage' = stage /\ packetLength' = packetLength /\ offset' = offset + 0
    BY <1>1, <2>1, <2>2, RetryTyped
  <2>4. QED
    BY <1>1, <2>1, <2>3 DEF ReaderTyped, Filled
<1>4. QED
  BY <1>2, <1>3

\* Types survive a read in the loop of the header.
LEMMA HeaderTyped ==
  ASSUME ReaderTyped, NEW bytes \in Seq(Byte), Len(bytes) <= wanted, headerReturns(bytes)
  PROVE  ReaderTyped'
<1>1. /\ stage = "header" /\ packetLength = 3 /\ offset < 3 /\ offset \in Nat
      /\ Len(buffer) = 1 + offset /\ buffer[1] = DV3000_START_BYTE
      /\ response \in Responses /\ buffer \in Seq(Byte)
      /\ wanted \in Nat /\ offset + wanted = 3 /\ buffer' = buffer \o bytes
  BY WantedIsNat DEF headerReturns, ReaderTyped, ReaderTypeOK, Filled
<1>2. /\ buffer' \in Seq(Byte) /\ Len(bytes) \in Nat
      /\ Len(buffer') = 1 + offset + Len(bytes)
      /\ buffer'[1] = buffer[1]
  <2>1. 1 \in 1 .. Len(buffer)
    BY <1>1
  <2>2. QED
    BY <1>1, <2>1, BytesJoined
<1>3. CASE Len(bytes) = wanted
  <2>1. /\ stage' = "payload" /\ tries' = 0 /\ offset' = 0 /\ response' = response
        /\ packetLength' = headerLength(buffer')
    BY <1>1, <1>3 DEF headerReturns, enter
  <2>2. Len(buffer') = 4
    BY <1>1, <1>2, <1>3
  <2>3. packetLength' \in Nat /\ packetLength' <= MaxLength
    <3>1. Len(buffer') >= 3
      BY <2>2
    <3>2. headerLength(buffer') \in Nat /\ headerLength(buffer') <= MaxLength
      BY Zenon, <1>2, <3>1, LengthIsTyped
    <3>3. QED
      BY Zenon, <2>1, <3>2
  <2>4. 0 < MaxTries
    BY ReaderAssumption
  <2>5. ReaderTypeOK'
    <3>1. buffer' \in Seq(Byte) /\ response' \in Responses
      BY <1>1, <1>2, <2>1
    <3>2. stage' \in Loops /\ tries' \in Nat /\ tries' < MaxTries
      BY <2>1, <2>4 DEF Loops
    <3>3. offset' \in Nat /\ offset' <= packetLength'
      BY <2>1, <2>3
    <3>4. QED
      BY <2>3, <3>1, <3>2, <3>3 DEF ReaderTypeOK
  <2>6. Filled'
    BY <1>1, <1>2, <2>1, <2>2 DEF Filled
  <2>7. QED
    BY <2>5, <2>6 DEF ReaderTyped
<1>4. CASE Len(bytes) # wanted
  <2>1. retry(Len(bytes)) /\ stage \in Loops
    BY <1>1, <1>4 DEF headerReturns, Loops
  <2>2. /\ ReaderTypeOK'
        /\ \/ stage' = "idle"
           \/ stage' = stage /\ packetLength' = packetLength /\ offset' = offset + Len(bytes)
    BY <1>2, <2>1, RetryTyped
  <2>3. stage' = "header" => offset' < 3 /\ Len(buffer') = 1 + offset'
    BY <1>1, <1>2, <1>4, <2>2
  <2>4. QED
    BY <1>1, <1>2, <2>2, <2>3 DEF ReaderTyped, Filled
<1>5. QED
  BY <1>3, <1>4

\* They survive a read in the loop of the payload.
LEMMA PayloadTyped ==
  ASSUME ReaderTyped, NEW bytes \in Seq(Byte), Len(bytes) <= wanted, payloadReturns(bytes)
  PROVE  ReaderTyped'
<1>1. /\ stage = "payload" /\ packetLength = headerLength(buffer)
      /\ offset \in Nat /\ Len(buffer) = 4 + offset /\ buffer[1] = DV3000_START_BYTE
      /\ buffer \in Seq(Byte) /\ buffer' = buffer \o bytes
  BY DEF payloadReturns, ReaderTyped, ReaderTypeOK, Filled
<1>2. /\ buffer' \in Seq(Byte) /\ Len(bytes) \in Nat
      /\ Len(buffer') = 4 + offset + Len(bytes)
      /\ buffer'[1] = buffer[1] /\ buffer'[2] = buffer[2] /\ buffer'[3] = buffer[3]
  <2>1. 1 \in 1 .. Len(buffer) /\ 2 \in 1 .. Len(buffer) /\ 3 \in 1 .. Len(buffer)
    BY <1>1
  <2>2. QED
    BY <1>1, <2>1, BytesJoined
<1>3. CASE Len(bytes) = wanted
  <2>1. PICK type \in typesOf(buffer') : return(type)
    BY <1>1, <1>3 DEF payloadReturns
  <2>2. type \in Responses
    BY <2>1, TypesAreResponses
  <2>3. QED
    BY <1>2, <2>1, <2>2, FreshBounds DEF return, ReaderTyped, ReaderTypeOK, Filled
<1>4. CASE Len(bytes) # wanted
  <2>1. retry(Len(bytes)) /\ stage \in Loops
    BY <1>1, <1>4 DEF payloadReturns, Loops
  <2>2. /\ ReaderTypeOK'
        /\ \/ stage' = "idle"
           \/ stage' = stage /\ packetLength' = packetLength /\ offset' = offset + Len(bytes)
    BY <1>2, <2>1, RetryTyped
  <2>3. stage' = "payload" => Len(buffer') = 4 + offset'
    BY <1>1, <1>2, <2>2
  <2>4. headerLength(buffer') = headerLength(buffer)
    BY <1>2 DEF headerLength
  <2>5. QED
    BY <1>1, <1>2, <2>2, <2>3, <2>4 DEF ReaderTyped, Filled
<1>5. QED
  BY <1>3, <1>4

\* They survive any read that returns no more than what was asked for.
LEMMA ReadReturnsTyped ==
  ASSUME ReaderTyped, NEW bytes \in Seq(Byte), Len(bytes) <= wanted, readReturns(bytes)
  PROVE  ReaderTyped'
BY StartTyped, HeaderTyped, PayloadTyped DEF readReturns

\* So does a read that fails.
LEMMA ReadFailsTyped ==
  ASSUME ReaderTyped, readFails
  PROVE  ReaderTyped'
<1>1. buffer \in Seq(Byte)
  BY DEF ReaderTyped, ReaderTypeOK
<1>2. QED
  BY <1>1, FreshBounds DEF readFails, return, ReaderTyped, ReaderTypeOK, Filled, Responses

\* So do the beginnings of getResponse and of its loops.
LEMMA BeginTyped ==
  ASSUME begin
  PROVE  ReaderTyped'
<1>1. <<>> \in Seq(Byte)
  OBVIOUS
<1>2. QED
  BY <1>1, FreshBounds DEF begin, ReaderTyped, ReaderTypeOK, Filled, Loops, Responses

\* So do the steps of others and the initial states.
LEMMA ReaderStutters ==
  ASSUME ReaderTyped, UNCHANGED reader
  PROVE  ReaderTyped'
BY DEF reader, ReaderTyped, ReaderTypeOK, Filled

\* An object that has yet to call getResponse has typed locals.
LEMMA ReaderInitTyped == ReaderInit => ReaderTyped
<1>1. <<>> \in Seq(Byte)
  OBVIOUS
<1>2. QED
  BY <1>1, FreshBounds DEF ReaderInit, ReaderTyped, ReaderTypeOK, Filled, Responses
=============================================================================
