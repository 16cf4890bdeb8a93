--------------------------- MODULE SerialLineProofs ---------------------------
(***************************************************************************)
(* What getResponse makes of the bytes of a serial line, whichever read    *)
(* serves them.  The packets the chip has sent make one stream of bytes;   *)
(* ends[k] is the number of bytes in the first k packets, and m the number *)
(* of bytes before those that have still a part to play.                   *)
(***************************************************************************)
EXTENDS SerialLine, ReaderProofs

\* ends[k] is where the packet k of the stream sn ends; each byte is of one packet.
Marks(sn, ends) ==
  /\ ends \in [0 .. Len(sn) -> Nat] /\ ends[0] = 0
  /\ \A k \in 1 .. Len(sn) : ends[k] = ends[k - 1] + Len(sn[k])
  /\ \A j, k \in 0 .. Len(sn) : j < k => ends[j] < ends[k]
  /\ \A p \in 1 .. ends[Len(sn)] : \E k \in 1 .. Len(sn) : ends[k - 1] < p /\ p <= ends[k]

\* The bytes r are those of the stream that follow its first m.
Follows(sn, ends, m, r) ==
  /\ m + Len(r) <= ends[Len(sn)]
  /\ \A k \in 1 .. Len(sn) : \A j \in 1 .. Len(r) :
       ends[k - 1] < m + j /\ m + j <= ends[k] => r[j] = sn[k][m + j - ends[k - 1]]

\* A packet ends after the first m bytes, or none has begun.
AtPacket(sn, ends, m) == \E k \in 0 .. Len(sn) : m = ends[k]

\* The packets an are among those that end within the first m bytes, in order.
Located(sn, ends, m, an) ==
  \E at \in [1 .. Len(an) -> 1 .. Len(sn)] :
    \A i \in 1 .. Len(an) :
      /\ an[i] = sn[at[i]] /\ ends[at[i]] <= m
      /\ \A j \in 1 .. i - 1 : at[j] < at[i]
-----------------------------------------------------------------------------
\* What the assumption on the constants says of a packet that was sent.
LEMMA PacketLength ==
  ASSUME NEW sn \in Seq(Packets), NEW k \in 1 .. Len(sn)
  PROVE  /\ sn[k] \in Packets /\ sn[k] \in Seq(Byte) /\ Len(sn[k]) \in Nat
         /\ 5 <= Len(sn[k]) /\ Len(sn[k]) <= BUFFER_LENGTH
         /\ sn[k][1] = DV3000_START_BYTE /\ headerLength(sn[k]) = Len(sn[k]) - 4
<1>1. sn[k] \in Packets
  BY ElementOfSeq
<1>2. IsPacket(sn[k])
  BY <1>1, ReaderAssumption
<1>3. sn[k] \in Seq(Byte) /\ Len(sn[k]) \in 5 .. BUFFER_LENGTH /\ BUFFER_LENGTH \in Nat
  BY <1>2, ReaderAssumption DEF IsPacket
<1>4. Len(sn[k]) \in Nat /\ 5 <= Len(sn[k]) /\ Len(sn[k]) <= BUFFER_LENGTH
  BY <1>3
<1>5. QED
  BY <1>1, <1>2, <1>3, <1>4 DEF IsPacket

\* The places where packets end are natural numbers.
LEMMA MarksTyped ==
  ASSUME NEW sn \in Seq(Packets), NEW ends, Marks(sn, ends)
  PROVE  /\ Len(sn) \in Nat /\ \A k \in 0 .. Len(sn) : ends[k] \in Nat
         /\ ends[0] \in Nat /\ ends[Len(sn)] \in Nat
         /\ \A k \in 1 .. Len(sn) : ends[k] \in Nat /\ ends[k - 1] \in Nat
<1>1. Len(sn) \in Nat
  BY LenProperties
<1>2. \A k \in 0 .. Len(sn) : ends[k] \in Nat
  BY DEF Marks
<1>3. 0 \in 0 .. Len(sn) /\ Len(sn) \in 0 .. Len(sn)
      /\ \A k \in 1 .. Len(sn) : k \in 0 .. Len(sn) /\ k - 1 \in 0 .. Len(sn)
  BY <1>1
<1>4. QED
  BY Zenon, <1>1, <1>2, <1>3

\* Bytes are passed over.
LEMMA DropBytes ==
  ASSUME NEW sn \in Seq(Packets), NEW ends, Marks(sn, ends), NEW m \in Nat,
         NEW x \in Seq(Byte), NEW y \in Seq(Byte), Follows(sn, ends, m, x \o y)
  PROVE  m + Len(x) \in Nat /\ Follows(sn, ends, m + Len(x), y)
<1>1. PICK lx \in Nat, ly \in Nat : lx = Len(x) /\ ly = Len(y) /\ Len(x \o y) = lx + ly
  BY BytesJoined
<1>2. \A k \in 1 .. Len(sn) : ends[k] \in Nat /\ ends[k - 1] \in Nat
  BY MarksTyped
<1>3. (m + lx) + ly <= ends[Len(sn)]
  BY <1>1, MarksTyped DEF Follows
<1>4. ASSUME NEW k \in 1 .. Len(sn), NEW j \in 1 .. ly,
             ends[k - 1] < (m + lx) + j, (m + lx) + j <= ends[k]
      PROVE  y[j] = sn[k][(m + lx) + j - ends[k - 1]]
  <2>1. lx + j \in 1 .. lx + ly /\ m + (lx + j) = (m + lx) + j
    BY <1>1
  <2>2. (x \o y)[lx + j] = sn[k][m + (lx + j) - ends[k - 1]]
    BY <1>1, <1>4, <2>1 DEF Follows
  <2>3. (x \o y)[lx + j] = y[j]
    BY <1>1, JoinedAfter
  <2>4. m + (lx + j) - ends[k - 1] = (m + lx) + j - ends[k - 1]
    BY <1>2
  <2>5. QED
    BY Zenon, <2>2, <2>3, <2>4
<1>5. QED
  BY <1>1, <1>3, <1>4 DEF Follows

\* Bytes at the end are lost.
LEMMA KeepBytes ==
  ASSUME NEW sn \in Seq(Packets), NEW ends, Marks(sn, ends), NEW m \in Nat,
         NEW x \in Seq(Byte), NEW y \in Seq(Byte), Follows(sn, ends, m, x \o y)
  PROVE  Follows(sn, ends, m, x)
<1>1. PICK lx \in Nat, ly \in Nat : lx = Len(x) /\ ly = Len(y) /\ Len(x \o y) = lx + ly
  BY BytesJoined
<1>2. m + lx <= ends[Len(sn)]
  BY <1>1, MarksTyped DEF Follows
<1>3. ASSUME NEW k \in 1 .. Len(sn), NEW j \in 1 .. lx,
             ends[k - 1] < m + j, m + j <= ends[k]
      PROVE  x[j] = sn[k][m + j - ends[k - 1]]
  <2>1. j \in 1 .. lx + ly
    BY <1>1
  <2>2. (x \o y)[j] = sn[k][m + j - ends[k - 1]]
    BY <1>1, <1>3, <2>1 DEF Follows
  <2>3. (x \o y)[j] = x[j]
    BY <1>1, BytesJoined
  <2>4. QED
    BY <2>2, <2>3
<1>4. QED
  BY <1>1, <1>2, <1>3 DEF Follows

\* Bytes that are read at the beginning of a packet are the packet's.
LEMMA PacketBegins ==
  ASSUME NEW sn \in Seq(Packets), NEW ends, Marks(sn, ends), NEW m \in Nat,
         NEW x \in Seq(Byte), x # <<>>, Follows(sn, ends, m, x), AtPacket(sn, ends, m)
  PROVE  \E k \in 1 .. Len(sn) :
           /\ m = ends[k - 1]
           /\ \A j \in 1 .. Len(x) : j <= Len(sn[k]) => x[j] = sn[k][j]
<1>1. Len(sn) \in Nat /\ \A k \in 0 .. Len(sn) : ends[k] \in Nat
  BY MarksTyped
<1>2. Len(x) \in Nat /\ Len(x) >= 1
  BY EmptySeq, LenProperties
<1>3. PICK i \in 0 .. Len(sn) : m = ends[i]
  BY DEF AtPacket
<1>4. i # Len(sn)
  BY <1>1, <1>2, <1>3 DEF Follows
<1>5. PICK k \in 1 .. Len(sn) : k - 1 = i
  BY <1>1, <1>4
<1>6. ends[k] = m + Len(sn[k]) /\ ends[k - 1] = m /\ k \in 0 .. Len(sn)
  BY <1>1, <1>3, <1>5 DEF Marks
<1>7. Len(sn[k]) \in Nat
  BY <1>5, PacketLength
<1>8. ASSUME NEW j \in 1 .. Len(x), j <= Len(sn[k])
      PROVE  x[j] = sn[k][j]
  <2>1. ends[k - 1] < m + j /\ m + j <= ends[k] /\ m + j - ends[k - 1] = j
    BY <1>6, <1>7, <1>8
  <2>2. x[j] = sn[k][m + j - ends[k - 1]]
    BY <2>1 DEF Follows
  <2>3. QED
    BY Zenon, <2>1, <2>2
<1>9. QED
  BY <1>6, <1>8

\* Where only packets begin with a start byte, a start byte begins a packet.
LEMMA StartByteBegins ==
  ASSUME NEW sn \in Seq(Packets), NEW ends, Marks(sn, ends), NEW m \in Nat,
         NEW x \in Seq(Byte), x # <<>>, Follows(sn, ends, m, x), x[1] = DV3000_START_BYTE,
         \A k \in 1 .. Len(sn) : \A i \in 2 .. Len(sn[k]) : sn[k][i] # DV3000_START_BYTE
  PROVE  AtPacket(sn, ends, m)
<1>1. Len(sn) \in Nat /\ \A k \in 0 .. Len(sn) : ends[k] \in Nat
  BY MarksTyped
<1>2. Len(x) \in Nat /\ Len(x) >= 1 /\ 1 \in 1 .. Len(x)
  BY EmptySeq, LenProperties
<1>3. m + 1 \in 1 .. ends[Len(sn)]
  BY <1>1, <1>2 DEF Follows
<1>4. PICK k \in 1 .. Len(sn) : ends[k - 1] < m + 1 /\ m + 1 <= ends[k]
  BY <1>3 DEF Marks
<1>5. ends[k] = ends[k - 1] + Len(sn[k]) /\ k - 1 \in 0 .. Len(sn) /\ Len(sn[k]) \in Nat
  BY <1>1, <1>4, PacketLength DEF Marks
<1>6. PICK e \in Nat : e = ends[k - 1]
  BY <1>1, <1>5
<1>7. PICK i \in Int : i = m + 1 - e
  OBVIOUS
<1>8. x[1] = sn[k][i]
  BY <1>2, <1>4, <1>6, <1>7 DEF Follows
<1>9. ~(i \in 2 .. Len(sn[k]))
  BY <1>4, <1>8
<1>10. e < m + 1 /\ m + 1 <= e + Len(sn[k])
  BY Zenon, <1>4, <1>5, <1>6
<1>11. i = 1
  BY <1>5, <1>7, <1>9, <1>10
<1>12. m = e
  BY <1>7, <1>11
<1>13. QED
  BY <1>5, <1>6, <1>12 DEF AtPacket

\* The chip sends a packet once the line has transmitted all of the last one.
MoreEnds(sn, ends, p) ==
  [k \in 0 .. Len(sn) + 1 |-> IF k = Len(sn) + 1 THEN ends[Len(sn)] + Len(p) ELSE ends[k]]

Extension(sn, ends, p, n, l) ==
  /\ n = Len(sn) /\ l = Len(p) /\ l >= 5
  /\ Append(sn, p) \in Seq(Packets) /\ Len(Append(sn, p)) = n + 1
  /\ Append(sn, p)[n + 1] = p
  /\ \A k \in 1 .. n : Append(sn, p)[k] = sn[k]
  /\ MoreEnds(sn, ends, p)[n + 1] = ends[n] + l
  /\ \A k \in 0 .. n : MoreEnds(sn, ends, p)[k] = ends[k]
  /\ ends[n] \in Nat /\ \A k \in 0 .. n : ends[k] \in Nat

\* What one more packet changes in the places where packets end: nothing but the last.
LEMMA Extended ==
  ASSUME NEW sn \in Seq(Packets), NEW ends, Marks(sn, ends), NEW p \in Packets
  PROVE  \E n \in Nat, l \in Nat : Extension(sn, ends, p, n, l)
<1>1. PICK n \in Nat, l \in Nat : n = Len(sn) /\ l = Len(p) /\ l >= 5
  <2>1. Len(sn) \in Nat
    BY LenProperties
  <2>2. Len(p) \in Nat /\ Len(p) >= 5
    BY ReaderAssumption DEF IsPacket
  <2>3. QED
    BY <2>1, <2>2
<1>2. /\ Append(sn, p) \in Seq(Packets) /\ Len(Append(sn, p)) = n + 1
      /\ Append(sn, p)[n + 1] = p /\ \A k \in 1 .. n : Append(sn, p)[k] = sn[k]
  BY <1>1, AppendProperties
<1>3. /\ MoreEnds(sn, ends, p)[n + 1] = ends[n] + l
      /\ \A k \in 0 .. n : MoreEnds(sn, ends, p)[k] = ends[k]
  BY <1>1 DEF MoreEnds
<1>4. ends[n] \in Nat /\ \A k \in 0 .. n : ends[k] \in Nat
  BY <1>1, MarksTyped
<1>5. Extension(sn, ends, p, n, l)
  BY Zenon, <1>1, <1>2, <1>3, <1>4 DEF Extension
<1>6. QED
  BY <1>5

\* The places where packets end, after one more packet.
LEMMA MarksExtend ==
  ASSUME NEW sn \in Seq(Packets), NEW ends, Marks(sn, ends), NEW p \in Packets
  PROVE  Marks(Append(sn, p), MoreEnds(sn, ends, p))
<1> DEFINE s2 == Append(sn, p)
           e2 == MoreEnds(sn, ends, p)
<1>0. PICK n \in Nat, l \in Nat : Extension(sn, ends, p, n, l)
  BY Extended
<1>1. n = Len(sn) /\ l = Len(p) /\ l >= 5
  BY Zenon, <1>0 DEF Extension
<1>2. Len(s2) = n + 1 /\ s2[n + 1] = p /\ \A k \in 1 .. n : s2[k] = sn[k]
  BY Zenon, <1>0 DEF Extension
<1>3. e2[n + 1] = ends[n] + l /\ \A k \in 0 .. n : e2[k] = ends[k]
  BY Zenon, <1>0 DEF Extension
<1>4. ends[n] \in Nat /\ \A k \in 0 .. n : ends[k] \in Nat
  BY Zenon, <1>0 DEF Extension
<1> HIDE DEF s2, e2
<1>5. e2 \in [0 .. n + 1 -> Nat]
  <2>1. e2[n + 1] \in Nat /\ \A k \in 0 .. n : e2[k] \in Nat
    BY <1>3, <1>4
  <2>2. \A k \in 0 .. n + 1 : k = n + 1 \/ k \in 0 .. n
    OBVIOUS
  <2>3. \A k \in 0 .. n + 1 : e2[k] \in Nat
    BY Zenon, <2>1, <2>2
  <2>4. e2 = [k \in 0 .. n + 1 |-> IF k = n + 1 THEN ends[n] + l ELSE ends[k]]
    BY <1>1 DEF e2, MoreEnds
  <2>5. QED
    BY <2>3, <2>4
<1>6. e2[0] = 0
  <2>1. 0 \in 0 .. n /\ ends[0] = 0
    BY DEF Marks
  <2>2. QED
    BY <1>3, <2>1
<1>7. ASSUME NEW k \in 1 .. n + 1
      PROVE  e2[k] = e2[k - 1] + Len(s2[k])
  <2>1. CASE k = n + 1
    <3>1. k - 1 = n /\ n \in 0 .. n
      BY <2>1
    <3>2. e2[k] = ends[n] + l /\ e2[k - 1] = ends[n] /\ s2[k] = p
      BY Zenon, <1>2, <1>3, <2>1, <3>1
    <3>3. QED
      BY Zenon, <1>1, <3>2
  <2>2. CASE k \in 1 .. n
    <3>1. ends[k] = ends[k - 1] + Len(sn[k])
      BY <1>1, <2>2 DEF Marks
    <3>2. k - 1 \in 0 .. n /\ k \in 0 .. n
      BY <2>2
    <3>3. QED
      BY <1>2, <1>3, <2>2, <3>1, <3>2
  <2>3. QED
    BY <2>1, <2>2
<1>8. ASSUME NEW j \in 0 .. n + 1, NEW k \in 0 .. n + 1, j < k
      PROVE  e2[j] < e2[k]
  <2>1. CASE k = n + 1
    <3>1. j \in 0 .. n /\ e2[j] = ends[j] /\ e2[k] = ends[n] + l
      BY <1>3, <1>8, <2>1
    <3>2. j < n => ends[j] < ends[n]
      BY <1>1, <3>1 DEF Marks
    <3>3. ends[j] \in Nat /\ ends[n] \in Nat /\ (j = n \/ j < n)
      BY <1>4, <3>1
    <3>4. ends[j] <= ends[n]
      BY <3>2, <3>3
    <3>5. QED
      BY <1>1, <3>1, <3>3, <3>4
  <2>2. CASE k \in 0 .. n
    <3>1. j \in 0 .. n
      BY <1>8, <2>2
    <3>2. ends[j] < ends[k]
      BY <1>1, <1>8, <2>2, <3>1 DEF Marks
    <3>3. QED
      BY <1>3, <2>2, <3>1, <3>2
  <2>3. QED
    BY <2>1, <2>2
<1>9. ASSUME NEW q \in 1 .. e2[n + 1]
      PROVE  \E k \in 1 .. n + 1 : e2[k - 1] < q /\ q <= e2[k]
  <2>1. CASE q <= ends[n]
    <3>1. q \in 1 .. ends[Len(sn)]
      BY <1>1, <1>4, <2>1
    <3>2. PICK k \in 1 .. n : ends[k - 1] < q /\ q <= ends[k]
      BY <1>1, <3>1 DEF Marks
    <3>3. k - 1 \in 0 .. n /\ k \in 0 .. n /\ k \in 1 .. n + 1
      OBVIOUS
    <3>4. QED
      BY <1>3, <3>2, <3>3
  <2>2. CASE ~(q <= ends[n])
    <3>1. n + 1 \in 1 .. n + 1 /\ (n + 1) - 1 = n /\ n \in 0 .. n /\ q <= e2[n + 1]
      BY <1>3, <1>4
    <3>2. e2[n] < q
      <4>1. e2[n] = ends[n] /\ ends[n] \in Nat /\ q \in Int
        BY <1>3, <1>4, <3>1
      <4>2. QED
        BY <2>2, <4>1
    <3>3. QED
      BY <3>1, <3>2
  <2>3. QED
    BY <2>1, <2>2
<1>10. QED
  BY <1>2, <1>5, <1>6, <1>7, <1>8, <1>9 DEF Marks, s2, e2

\* Bytes that reach the end of the stream still follow when a packet is sent and added to both.
LEMMA FollowsExtend ==
  ASSUME NEW sn \in Seq(Packets), NEW ends, Marks(sn, ends), NEW p \in Packets,
         NEW m \in Nat, NEW r \in Seq(Byte), Follows(sn, ends, m, r),
         m + Len(r) = ends[Len(sn)]
  PROVE  Follows(Append(sn, p), MoreEnds(sn, ends, p), m, r \o p)
<1> DEFINE s2 == Append(sn, p)
           e2 == MoreEnds(sn, ends, p)
<1>0. PICK n \in Nat, l \in Nat : Extension(sn, ends, p, n, l)
  BY Extended
<1>1. /\ n = Len(sn) /\ l = Len(p)
      /\ Len(s2) = n + 1 /\ s2[n + 1] = p
      /\ \A k \in 1 .. n : s2[k] = sn[k]
      /\ e2[n + 1] = ends[n] + l /\ \A k \in 0 .. n : e2[k] = ends[k]
      /\ ends[n] \in Nat /\ \A k \in 0 .. n : ends[k] \in Nat
  BY Zenon, <1>0 DEF Extension
<1> HIDE DEF s2, e2
<1>2. p \in Seq(Byte)
  BY ReaderAssumption DEF IsPacket
<1>3. PICK lr \in Nat : lr = Len(r) /\ Len(r \o p) = lr + l
  <2>1. Len(r) \in Nat /\ Len(r \o p) = Len(r) + Len(p)
    BY <1>2, BytesJoined
  <2>2. QED
    BY Zenon, <1>1, <2>1
<1>4. m + lr = ends[n] /\ m + (lr + l) = e2[n + 1]
  <2>1. m + lr = ends[n]
    BY Zenon, <1>1, <1>3
  <2>2. m + (lr + l) = (m + lr) + l
    OBVIOUS
  <2>3. QED
    BY Zenon, <1>1, <2>1, <2>2
<1>5. ASSUME NEW k \in 1 .. n + 1, NEW j \in 1 .. lr + l,
             e2[k - 1] < m + j, m + j <= e2[k]
      PROVE  (r \o p)[j] = s2[k][m + j - e2[k - 1]]
  <2>1. CASE k \in 1 .. n
    <3>1. k \in 0 .. n /\ k - 1 \in 0 .. n
      BY <2>1
    <3>2. e2[k] = ends[k] /\ e2[k - 1] = ends[k - 1] /\ s2[k] = sn[k]
      BY Zenon, <1>1, <2>1, <3>1
    <3>3. n \in 0 .. n /\ (k < n \/ k = n)
      BY <2>1
    <3>4. ends[k] < ends[n] \/ ends[k] = ends[n]
      BY Zenon, <1>1, <3>1, <3>3 DEF Marks
    <3>5. j \in 1 .. lr
      <4>1. PICK c \in Nat : c = ends[k]
        BY Zenon, <1>1, <3>1
      <4>2. (c < m + lr \/ c = m + lr) /\ m + j <= c
        BY Zenon, <1>4, <1>5, <3>2, <3>4, <4>1
      <4>3. QED
        BY <4>2
    <3>6. r[j] = sn[k][m + j - ends[k - 1]]
      BY <1>1, <1>3, <1>5, <2>1, <3>2, <3>5 DEF Follows
    <3>7. (r \o p)[j] = r[j]
      BY <1>2, <1>3, <3>5, BytesJoined
    <3>8. QED
      BY Zenon, <3>2, <3>6, <3>7
  <2>2. CASE k = n + 1
    <3>1. k - 1 = n /\ n \in 0 .. n
      BY <2>2
    <3>2. e2[k - 1] = ends[n] /\ s2[k] = p
      BY Zenon, <1>1, <2>2, <3>1
    <3>3. m + lr < m + j
      BY Zenon, <1>4, <1>5, <3>2
    <3>4. PICK i \in 1 .. l : j = lr + i
      BY <3>3
    <3>5. (r \o p)[lr + i] = p[i]
      BY <1>1, <1>2, <1>3, JoinedAfter
    <3>6. m + j - (m + lr) = i
      BY <3>4
    <3>7. m + j - e2[k - 1] = i
      BY Zenon, <1>4, <3>2, <3>6
    <3>8. QED
      BY Zenon, <3>2, <3>4, <3>5, <3>7
  <2>3. k \in 1 .. n \/ k = n + 1
    OBVIOUS
  <2>4. QED
    BY Zenon, <2>1, <2>2, <2>3
<1>6. m + Len(r \o p) <= e2[n + 1]
  BY <1>1, <1>3, <1>4
<1>7. QED
  BY <1>1, <1>3, <1>5, <1>6 DEF Follows, s2, e2

\* Packet boundaries and answers that were found in the stream stay where they are.
LEMMA PlacesExtend ==
  ASSUME NEW sn \in Seq(Packets), NEW ends, Marks(sn, ends), NEW p \in Packets, NEW m, NEW an
  PROVE  /\ AtPacket(sn, ends, m) => AtPacket(Append(sn, p), MoreEnds(sn, ends, p), m)
         /\ Located(sn, ends, m, an) => Located(Append(sn, p), MoreEnds(sn, ends, p), m, an)
<1> DEFINE s2 == Append(sn, p)
           e2 == MoreEnds(sn, ends, p)
<1>0. PICK n \in Nat, l \in Nat : Extension(sn, ends, p, n, l)
  BY Extended
<1>1. /\ n = Len(sn) /\ l = Len(p)
      /\ Len(s2) = n + 1 /\ s2[n + 1] = p
      /\ \A k \in 1 .. n : s2[k] = sn[k]
      /\ e2[n + 1] = ends[n] + l /\ \A k \in 0 .. n : e2[k] = ends[k]
      /\ ends[n] \in Nat /\ \A k \in 0 .. n : ends[k] \in Nat
  BY Zenon, <1>0 DEF Extension
<1> HIDE DEF s2, e2
<1>2. ASSUME AtPacket(sn, ends, m)
      PROVE  AtPacket(s2, e2, m)
  <2>1. PICK k \in 0 .. n : m = ends[k]
    BY <1>1, <1>2 DEF AtPacket
  <2>2. k \in 0 .. n + 1 /\ m = e2[k]
    BY <1>1, <2>1
  <2>3. QED
    BY <1>1, <2>2 DEF AtPacket
<1>3. ASSUME Located(sn, ends, m, an)
      PROVE  Located(s2, e2, m, an)
  <2>1. PICK at \in [1 .. Len(an) -> 1 .. n] :
          \A i \in 1 .. Len(an) :
            /\ an[i] = sn[at[i]] /\ ends[at[i]] <= m
            /\ \A j \in 1 .. i - 1 : at[j] < at[i]
    BY <1>1, <1>3 DEF Located
  <2>2. \A i \in 1 .. Len(an) : at[i] \in 1 .. n
    BY <2>1
  <2>3. \A x \in 1 .. n : x \in 0 .. n /\ x \in 1 .. n + 1
    OBVIOUS
  <2>4. at \in [1 .. Len(an) -> 1 .. n + 1]
    BY <2>1, <2>3
  <2>5. \A i \in 1 .. Len(an) : an[i] = s2[at[i]] /\ e2[at[i]] <= m
    BY Zenon, <1>1, <2>1, <2>2, <2>3
  <2>6. QED
    BY Zenon, <1>1, <2>1, <2>4, <2>5 DEF Located
<1>4. QED
  BY <1>2, <1>3 DEF s2, e2

\* What has been located stays so when bytes are passed over or a packet is answered.
LEMMA LocatedLater ==
  ASSUME NEW sn \in Seq(Packets), NEW ends, Marks(sn, ends), NEW m \in Nat, NEW n \in Nat,
         m <= n, NEW an, Located(sn, ends, m, an)
  PROVE  Located(sn, ends, n, an)
<1>1. PICK at \in [1 .. Len(an) -> 1 .. Len(sn)] :
        \A i \in 1 .. Len(an) :
          /\ an[i] = sn[at[i]] /\ ends[at[i]] <= m
          /\ \A j \in 1 .. i - 1 : at[j] < at[i]
  BY DEF Located
<1>2. ASSUME NEW i \in 1 .. Len(an)
      PROVE  ends[at[i]] <= n
  <2>1. at[i] \in 1 .. Len(sn)
    BY <1>1
  <2>2. PICK e \in Nat : e = ends[at[i]]
    BY <2>1, MarksTyped
  <2>3. e <= m
    BY Zenon, <1>1, <2>2
  <2>4. e <= n
    BY <2>3
  <2>5. QED
    BY Zenon, <2>2, <2>4
<1>3. QED
  BY Zenon, <1>1, <1>2 DEF Located

\* An answer that is the next packet is found behind the answers before it.
LEMMA LocatedAppend ==
  ASSUME NEW sn \in Seq(Packets), NEW ends, Marks(sn, ends), NEW k \in 1 .. Len(sn),
         NEW an \in Seq(Seq(Byte)), Located(sn, ends, ends[k - 1], an)
  PROVE  Located(sn, ends, ends[k], Append(an, sn[k]))
<1>1. PICK n \in Nat : n = Len(an)
  BY LenProperties
<1>2. PICK at \in [1 .. n -> 1 .. Len(sn)] :
        \A i \in 1 .. n :
          /\ an[i] = sn[at[i]] /\ ends[at[i]] <= ends[k - 1]
          /\ \A j \in 1 .. i - 1 : at[j] < at[i]
  BY <1>1 DEF Located
<1> DEFINE a2 == Append(an, sn[k])
           at2 == [i \in 1 .. n + 1 |-> IF i = n + 1 THEN k ELSE at[i]]
<1>3. Len(a2) = n + 1 /\ a2[n + 1] = sn[k] /\ \A i \in 1 .. n : a2[i] = an[i]
  <2>1. sn[k] \in Seq(Byte)
    BY PacketLength
  <2>2. QED
    BY <1>1, <2>1, AppendProperties
<1>4. /\ Len(sn) \in Nat /\ k - 1 \in 0 .. Len(sn) /\ k \in 0 .. Len(sn) /\ k - 1 < k
      /\ \A i \in 0 .. Len(sn) : ends[i] \in Nat
  BY MarksTyped
<1>5. ends[k - 1] < ends[k] /\ ends[k - 1] \in Nat /\ ends[k] \in Nat
  BY Zenon, <1>4 DEF Marks
<1>6. ASSUME NEW i \in 1 .. n
      PROVE  at[i] < k /\ ends[at[i]] <= ends[k]
  <2>1. PICK q \in 1 .. Len(sn) : q = at[i]
    BY <1>2
  <2>2. q \in 0 .. Len(sn) /\ (q < k \/ q = k \/ k < q)
    BY <1>4, <2>1
  <2>3. PICK e \in Nat : e = ends[q]
    BY <1>4, <2>2
  <2>4. e <= ends[k - 1]
    BY Zenon, <1>2, <2>1, <2>3
  <2>5. k < q => ends[k] < e
    BY Zenon, <1>4, <2>2, <2>3 DEF Marks
  <2>6. q = k => e = ends[k]
    BY <2>3
  <2>7. q < k /\ e <= ends[k]
    BY <1>5, <2>2, <2>4, <2>5, <2>6
  <2>8. QED
    BY Zenon, <2>1, <2>3, <2>7
<1>7. at2[n + 1] = k /\ \A i \in 1 .. n : at2[i] = at[i]
  OBVIOUS
<1>8. at2 \in [1 .. n + 1 -> 1 .. Len(sn)]
  <2>1. \A i \in 1 .. n + 1 : i = n + 1 \/ i \in 1 .. n
    OBVIOUS
  <2>2. \A i \in 1 .. n : at[i] \in 1 .. Len(sn)
    BY <1>2
  <2>3. QED
    BY <2>1, <2>2
<1> HIDE DEF a2, at2
<1>9. ASSUME NEW i \in 1 .. n + 1
      PROVE  /\ a2[i] = sn[at2[i]] /\ ends[at2[i]] <= ends[k]
             /\ \A j \in 1 .. i - 1 : at2[j] < at2[i]
  <2>1. CASE i = n + 1
    <3>1. \A j \in 1 .. i - 1 : j \in 1 .. n
      BY <2>1
    <3>2. ends[k] <= ends[k]
      BY <1>5
    <3>3. QED
      BY Zenon, <1>3, <1>6, <1>7, <2>1, <3>1, <3>2
  <2>2. CASE i \in 1 .. n
    <3>1. \A j \in 1 .. i - 1 : j \in 1 .. n
      BY <2>2
    <3>2. QED
      BY Zenon, <1>2, <1>3, <1>6, <1>7, <2>2, <3>1
  <2>3. i = n + 1 \/ i \in 1 .. n
    OBVIOUS
  <2>4. QED
    BY Zenon, <2>1, <2>2, <2>3
<1>10. QED
  BY Zenon, <1>3, <1>8, <1>9 DEF Located, a2
-----------------------------------------------------------------------------
InPacket == stage \in {"header", "payload"}

\* The bytes in the buffer that have still a part to play.
held == IF InPacket THEN buffer ELSE <<>>

LineTyped == /\ LineTypeOK /\ Filled
             /\ answers \in Seq(Seq(Byte)) /\ framed \in BOOLEAN
             /\ stage # "init" /\ (stage \in Loops => offset = 0)
             /\ ~InPacket => taken = <<>>

\* The bytes r follow the first m of the stream, which hold the answers; if a packet
\* must begin at the first of them, one does.
Stands(sn, ends, m, r, begins, an) ==
  /\ Follows(sn, ends, m, r)
  /\ begins => AtPacket(sn, ends, m)
  /\ Located(sn, ends, m, an)

\* The bytes r have their place in the stream; all says that nothing follows them.
Placed(r, all) ==
  \E ends : \E m \in Nat :
    /\ Marks(sent, ends)
    /\ Stands(sent, ends, m, r, InPacket \/ framed, answers)
    /\ all => m + Len(r) = ends[Len(sent)]

\* The invariant of the line, where u are the bytes that no read has stored yet.
LineInv(u, all) == framed \/ StartByteIsUnique => Placed(held \o (taken \o u), all)

\* The types of the line, and what each loop of getResponse holds and wants.
LEMMA LineFacts ==
  ASSUME LineTyped
  PROVE  /\ ReaderTyped /\ buffer \in Seq(Byte) /\ taken \in Seq(Byte) /\ held \in Seq(Byte)
         /\ sent \in Seq(Packets) /\ answers \in Seq(Seq(Byte))
         /\ stage \in Loops => offset = 0 /\ wanted = packetLength /\ wanted \in Nat
         /\ stage = "start" => wanted = 1 /\ held = <<>> /\ buffer = <<>>
         /\ stage = "header" => wanted = 3 /\ Len(buffer) = 1 /\ held = buffer
         /\ stage = "payload" => /\ Len(buffer) = 4 /\ held = buffer
                                 /\ wanted = headerLength(buffer)
<1>1. ReaderTyped
  BY DEF LineTyped, LineTypeOK, ReaderTyped
<1>2. /\ buffer \in Seq(Byte) /\ taken \in Seq(Byte) /\ <<>> \in Seq(Byte)
      /\ sent \in Seq(Packets) /\ answers \in Seq(Seq(Byte))
  BY DEF LineTyped, LineTypeOK, ReaderTypeOK
<1>3. stage \in Loops => offset = 0 /\ wanted = packetLength /\ wanted \in Nat
  <2>1. wanted \in Nat /\ offset + wanted = packetLength
    BY <1>1, WantedIsNat
  <2>2. QED
    BY <2>1 DEF LineTyped
<1>4. stage = "start" => wanted = 1 /\ held = <<>> /\ buffer = <<>>
  BY <1>1, WantedIsNat DEF ReaderTyped, Filled, held, InPacket
<1>5. stage = "header" => wanted = 3 /\ Len(buffer) = 1 /\ held = buffer
  BY <1>3 DEF LineTyped, Filled, held, InPacket, Loops
<1>6. stage = "payload" => /\ Len(buffer) = 4 /\ held = buffer
                           /\ wanted = headerLength(buffer)
  BY <1>3 DEF LineTyped, Filled, held, InPacket, Loops
<1>7. QED
  BY <1>1, <1>2, <1>3, <1>4, <1>5, <1>6 DEF held

\* How the history changes when getResponse has not returned a packet.
LEMMA NoAnswer ==
  ASSUME answered, stage' = "idle" => response' = "ERROR"
  PROVE  /\ answers' = answers /\ sent' = sent
         /\ framed' => framed
         /\ stage' = "idle" /\ stage # "start" => ~framed'
BY DEF answered

\* framed is a Boolean.
LEMMA FramedIsBoolean ==
  ASSUME LineTyped
  PROVE  framed \in BOOLEAN
BY DEF LineTyped

\* A turn without bytes.
LEMMA RetryStands ==
  ASSUME LineTyped, NEW v \in Seq(Byte), NEW ends, NEW m \in Nat,
         Marks(sent, ends), Stands(sent, ends, m, held \o v, InPacket \/ framed, answers),
         stage \in Loops, retry(0), buffer' = buffer, answered
  PROVE  /\ sent' = sent
         /\ \E n \in Nat :
              /\ Stands(sent, ends, n, held' \o v, (InPacket \/ framed)', answers')
              /\ n + Len(held' \o v) = m + Len(held \o v)
<1>1. (stage' = "idle" /\ response' = "ERROR") \/ stage' = stage
  BY DEF retry, return
<1>2. stage' # "idle" \/ response' = "ERROR"
  BY <1>1 DEF Loops
<1>3. answers' = answers /\ sent' = sent /\ (framed' => framed)
      /\ (stage' = "idle" /\ stage # "start" => ~framed')
  BY <1>2, NoAnswer
<1>4. CASE stage' = stage
  <2>1. held' = held /\ InPacket' = InPacket
    BY <1>4 DEF held, InPacket
  <2>2. (InPacket \/ framed)' => InPacket \/ framed
    BY <1>3, <2>1
  <2>3. QED
    BY Zenon, <1>3, <2>1, <2>2 DEF Stands
<1>5. CASE stage' = "idle"
  <2>1. held' = <<>> /\ ~InPacket'
    BY <1>5 DEF held, InPacket
  <2>2. held' \o v = v /\ held \in Seq(Byte) /\ Len(held \o v) = Len(held) + Len(v)
        /\ Len(held) \in Nat /\ Len(v) \in Nat
    BY <2>1, ConcatEmptySeq, LineFacts, BytesJoined
  <2>3. m + Len(held) \in Nat /\ m <= m + Len(held)
    BY <2>2
  <2>4. Follows(sent, ends, m + Len(held), v) /\ Located(sent, ends, m + Len(held), answers)
    BY Zenon, <2>2, <2>3, DropBytes, LocatedLater, LineFacts DEF Stands
  <2>5. framed' => AtPacket(sent, ends, m + Len(held))
    <3>1. SUFFICES ASSUME framed'
                   PROVE  AtPacket(sent, ends, m + Len(held))
      OBVIOUS
    <3>2. stage = "start" /\ framed
      BY <1>3, <1>5, <3>1
    <3>3. held = <<>>
      BY <3>2, LineFacts
    <3>4. m + Len(held) = m
      BY <3>3
    <3>5. QED
      BY Zenon, <3>2, <3>4 DEF Stands
  <2>6. Stands(sent, ends, m + Len(held), held' \o v, (InPacket \/ framed)', answers')
    BY Zenon, <1>3, <2>1, <2>2, <2>4, <2>5 DEF Stands
  <2>7. (m + Len(held)) + Len(held' \o v) = m + Len(held \o v)
    BY <2>2
  <2>8. QED
    BY <1>3, <2>3, <2>6, <2>7
<1>6. QED
  BY <1>1, <1>4, <1>5

\* The search for a start byte.
LEMMA StartStands ==
  ASSUME LineTyped, framed \/ StartByteIsUnique,
         NEW x \in Seq(Byte), NEW v \in Seq(Byte), NEW ends, NEW m \in Nat,
         Marks(sent, ends), Stands(sent, ends, m, held \o (x \o v), InPacket \/ framed, answers),
         x = <<>> \/ Len(x) = wanted, startReturns(x), answered
  PROVE  /\ sent' = sent
         /\ \E n \in Nat :
              /\ Stands(sent, ends, n, held' \o v, (InPacket \/ framed)', answers')
              /\ n + Len(held' \o v) = m + Len(held \o (x \o v))
<1>1. stage = "start" /\ held = <<>> /\ buffer = <<>> /\ wanted = 1 /\ stage \in Loops
  BY LineFacts DEF startReturns, Loops
<1>2. x \o v \in Seq(Byte) /\ held \o (x \o v) = x \o v /\ sent \in Seq(Packets)
  BY <1>1, ConcatTyped, ConcatEmptySeq, LineFacts
<1>3. Follows(sent, ends, m, x \o v) /\ Located(sent, ends, m, answers)
  BY Zenon, <1>2 DEF Stands
<1>4. framed => AtPacket(sent, ends, m)
  BY Zenon DEF Stands
<1>5. CASE x = <<DV3000_START_BYTE>>
  <2>1. stage' = "header" /\ buffer' = x
    BY <1>5 DEF startReturns, enter
  <2>2. held' = x /\ InPacket'
    BY <2>1 DEF held, InPacket
  <2>3. answers' = answers /\ sent' = sent
    BY <2>1 DEF answered
  <2>4. AtPacket(sent, ends, m)
    <3>1. CASE framed
      BY <1>4, <3>1
    <3>2. CASE StartByteIsUnique
      <4>1. Len(x) = 1 /\ x[1] = DV3000_START_BYTE /\ 1 \in 1 .. Len(x)
        BY <1>5
      <4>2. (x \o v)[1] = DV3000_START_BYTE
        BY <4>1, BytesJoined
      <4>3. x \o v # <<>>
        BY <4>1, BytesJoined, EmptySeq
      <4>4. \A k \in 1 .. Len(sent) : \A i \in 2 .. Len(sent[k]) :
              sent[k][i] # DV3000_START_BYTE
        BY <1>2, <3>2, LenProperties DEF StartByteIsUnique
      <4>5. QED
        BY Zenon, <1>2, <1>3, <4>2, <4>3, <4>4, StartByteBegins
    <3>3. QED
      BY <3>1, <3>2
  <2>5. Stands(sent, ends, m, held' \o v, (InPacket \/ framed)', answers')
    BY Zenon, <1>3, <2>2, <2>3, <2>4 DEF Stands
  <2>6. QED
    BY Zenon, <1>2, <2>2, <2>3, <2>5
<1>6. CASE x # <<DV3000_START_BYTE>> /\ x = <<>>
  <2>1. retry(0) /\ buffer' = buffer
    BY <1>6 DEF startReturns
  <2>2. x \o v = v
    BY <1>6, ConcatEmptySeq
  <2>3. Stands(sent, ends, m, held \o v, InPacket \/ framed, answers)
    BY Zenon, <2>2
  <2>4. /\ sent' = sent
        /\ \E n \in Nat :
             /\ Stands(sent, ends, n, held' \o v, (InPacket \/ framed)', answers')
             /\ n + Len(held' \o v) = m + Len(held \o v)
    BY <1>1, <2>1, <2>3, RetryStands
  <2>5. QED
    BY Zenon, <2>2, <2>4
<1>7. CASE x # <<DV3000_START_BYTE>> /\ x # <<>>
  <2>1. retry(0) /\ buffer' = buffer
    BY <1>7 DEF startReturns
  <2>2. Len(x) = 1
    BY <1>1, <1>7
  <2>3. ~framed
    <3>1. SUFFICES ASSUME framed
                   PROVE  FALSE
      OBVIOUS
    <3>a. 1 \in 1 .. Len(x)
      BY <2>2
    <3>2. Len(x \o v) = Len(x) + Len(v) /\ Len(v) \in Nat
      BY BytesJoined
    <3>3. x \o v # <<>> /\ 1 \in 1 .. Len(x \o v)
      BY <2>2, <3>2, EmptySeq
    <3>4. PICK k \in 1 .. Len(sent) :
            /\ m = ends[k - 1]
            /\ \A j \in 1 .. Len(x \o v) : j <= Len(sent[k]) => (x \o v)[j] = sent[k][j]
      <4>1. AtPacket(sent, ends, m)
        BY Zenon, <1>4, <3>1
      <4>2. PICK r \in Seq(Byte) : r = x \o v
        BY <1>2
      <4>3. r # <<>> /\ Follows(sent, ends, m, r)
        BY Zenon, <1>3, <3>3, <4>2
      <4>4. \E k \in 1 .. Len(sent) :
              /\ m = ends[k - 1]
              /\ \A j \in 1 .. Len(r) : j <= Len(sent[k]) => r[j] = sent[k][j]
        BY <1>2, <4>1, <4>3, PacketBegins
      <4>5. QED
        BY Zenon, <4>2, <4>4
    <3>5. 1 <= Len(sent[k]) /\ sent[k][1] = DV3000_START_BYTE
      BY <1>2, PacketLength
    <3>6. x[1] = DV3000_START_BYTE
      <4>1. (x \o v)[1] = sent[k][1]
        BY Zenon, <3>3, <3>4, <3>5
      <4>2. (x \o v)[1] = x[1]
        BY <3>a, BytesJoined
      <4>3. QED
        BY <3>5, <4>1, <4>2
    <3>7. x = <<DV3000_START_BYTE>>
      BY <2>2, <3>6, OneByte
    <3>8. QED
      BY <1>7, <3>7
  <2>4. (stage' = "idle" /\ response' = "ERROR") \/ stage' = "start"
    BY <1>1, <2>1 DEF retry, return
  <2>5. held' = <<>> /\ ~InPacket'
    BY <2>4 DEF held, InPacket
  <2>6. answers' = answers /\ sent' = sent /\ ~framed'
    BY <2>3, <2>4, NoAnswer
  <2>7. held' \o v = v /\ Len(x \o v) = Len(x) + Len(v) /\ Len(v) \in Nat
    BY <2>5, ConcatEmptySeq, BytesJoined
  <2>8. m + Len(x) \in Nat /\ m <= m + Len(x)
    BY <2>2
  <2>9. Follows(sent, ends, m + Len(x), v) /\ Located(sent, ends, m + Len(x), answers)
    BY Zenon, <1>2, <1>3, <2>8, DropBytes, LocatedLater
  <2>10. Stands(sent, ends, m + Len(x), held' \o v, (InPacket \/ framed)', answers')
    BY Zenon, <2>5, <2>6, <2>7, <2>9 DEF Stands
  <2>11. (m + Len(x)) + Len(held' \o v) = m + Len(held \o (x \o v))
    BY <1>2, <2>2, <2>7
  <2>12. QED
    BY <2>6, <2>8, <2>10, <2>11
<1>8. QED
  BY <1>5, <1>6, <1>7

\* The header.
LEMMA HeaderStands ==
  ASSUME LineTyped,
         NEW x \in Seq(Byte), NEW v \in Seq(Byte), NEW ends, NEW m \in Nat,
         Marks(sent, ends), Stands(sent, ends, m, held \o (x \o v), InPacket \/ framed, answers),
         x = <<>> \/ Len(x) = wanted, headerReturns(x), answered
  PROVE  /\ sent' = sent
         /\ \E n \in Nat :
              /\ Stands(sent, ends, n, held' \o v, (InPacket \/ framed)', answers')
              /\ n + Len(held' \o v) = m + Len(held \o (x \o v))
<1>1. /\ stage = "header" /\ stage \in Loops /\ held = buffer /\ wanted = 3
      /\ buffer \in Seq(Byte) /\ buffer' = buffer \o x
  BY LineFacts DEF headerReturns, Loops
<1>2. CASE Len(x) = wanted
  <2>1. stage' = "payload"
    BY <1>2 DEF headerReturns, enter
  <2>2. held' = buffer' /\ InPacket' /\ InPacket
    BY <1>1, <2>1 DEF held, InPacket
  <2>3. answers' = answers /\ sent' = sent
    BY <2>1 DEF answered
  <2>4. held' \o v = held \o (x \o v)
    BY Zenon, <1>1, <2>2, Regroup
  <2>5. Stands(sent, ends, m, held' \o v, (InPacket \/ framed)', answers')
    BY Zenon, <2>2, <2>3, <2>4 DEF Stands
  <2>6. QED
    BY Zenon, <2>3, <2>4, <2>5
<1>3. CASE x = <<>> /\ Len(x) # wanted
  <2>1. x \o v = v /\ buffer' = buffer /\ Len(x) = 0
    BY <1>1, <1>3, ConcatEmptySeq
  <2>2. retry(0)
    BY <1>3, <2>1 DEF headerReturns
  <2>3. Stands(sent, ends, m, held \o v, InPacket \/ framed, answers)
    BY Zenon, <2>1
  <2>4. /\ sent' = sent
        /\ \E n \in Nat :
             /\ Stands(sent, ends, n, held' \o v, (InPacket \/ framed)', answers')
             /\ n + Len(held' \o v) = m + Len(held \o v)
    BY <1>1, <2>1, <2>2, <2>3, RetryStands
  <2>5. QED
    BY Zenon, <2>1, <2>4
<1>4. QED
  BY <1>2, <1>3

\* The packet that getResponse is in, and what it has of it.
LEMMA PacketAtHand ==
  ASSUME LineTyped, InPacket, NEW r \in Seq(Byte), NEW ends, NEW m \in Nat,
         Marks(sent, ends), Stands(sent, ends, m, held \o r, InPacket \/ framed, answers)
  PROVE  \E k \in 1 .. Len(sent) :
           /\ m = ends[k - 1]
           /\ \A j \in 1 .. Len(held \o r) : j <= Len(sent[k]) => (held \o r)[j] = sent[k][j]
           /\ stage = "payload" => wanted = Len(sent[k]) - 4
<1>1. /\ sent \in Seq(Packets) /\ held \in Seq(Byte) /\ held = buffer
      /\ stage = "header" => Len(buffer) = 1
      /\ stage = "payload" => Len(buffer) = 4 /\ wanted = headerLength(buffer)
      /\ stage = "header" \/ stage = "payload"
  BY LineFacts DEF InPacket
<1>2. PICK y \in Seq(Byte) : y = held \o r
  BY <1>1, ConcatTyped
<1>3. Len(held) \in Nat /\ Len(held) >= 1 /\ Len(y) = Len(held) + Len(r) /\ Len(r) \in Nat
  <2>1. held \in Seq(Byte)
    BY <1>1
  <2>2. Len(held) \in Nat /\ Len(r) \in Nat /\ Len(held \o r) = Len(held) + Len(r)
    BY <2>1, BytesJoined
  <2>3. Len(held) = 1 \/ Len(held) = 4
    BY Zenon, <1>1
  <2>4. PICK h \in Nat : h = Len(held)
    BY <2>2
  <2>5. h = 1 \/ h = 4
    BY Zenon, <2>3, <2>4
  <2>6. h >= 1
    BY <2>5
  <2>7. QED
    BY Zenon, <1>2, <2>2, <2>4, <2>6
<1>4. y # <<>>
  BY <1>3, EmptySeq
<1>5. Follows(sent, ends, m, y) /\ AtPacket(sent, ends, m)
  BY Zenon, <1>2 DEF Stands
<1>6. PICK k \in 1 .. Len(sent) :
        /\ m = ends[k - 1]
        /\ \A j \in 1 .. Len(y) : j <= Len(sent[k]) => y[j] = sent[k][j]
  <2>1. sent \in Seq(Packets)
    BY <1>1
  <2>2. QED
    BY <1>4, <1>5, <2>1, PacketBegins
<1>7. ASSUME stage = "payload"
      PROVE  wanted = Len(sent[k]) - 4
  <2>1. /\ 2 \in 1 .. Len(held) /\ 3 \in 1 .. Len(held)
        /\ 2 \in 1 .. Len(y) /\ 3 \in 1 .. Len(y)
    <3>1. Len(held) = 4
      BY Zenon, <1>1, <1>7
    <3>2. QED
      BY <1>3, <3>1
  <2>2. 2 <= Len(sent[k]) /\ 3 <= Len(sent[k]) /\ headerLength(sent[k]) = Len(sent[k]) - 4
    BY <1>1, PacketLength
  <2>3. y[2] = held[2] /\ y[3] = held[3]
    BY <1>1, <1>2, <2>1, BytesJoined
  <2>4. y[2] = sent[k][2] /\ y[3] = sent[k][3]
    BY Zenon, <1>6, <2>1, <2>2
  <2>5. headerLength(buffer) = headerLength(sent[k])
    BY Zenon, <1>1, <2>3, <2>4 DEF headerLength
  <2>6. QED
    BY Zenon, <1>1, <1>7, <2>2, <2>5
<1>8. QED
  BY Zenon, <1>2, <1>6, <1>7

\* The payload.
LEMMA PayloadStands ==
  ASSUME LineTyped,
         NEW x \in Seq(Byte), NEW v \in Seq(Byte), NEW ends, NEW m \in Nat,
         Marks(sent, ends), Stands(sent, ends, m, held \o (x \o v), InPacket \/ framed, answers),
         x = <<>> \/ Len(x) = wanted, payloadReturns(x), answered
  PROVE  /\ sent' = sent
         /\ \E n \in Nat :
              /\ Stands(sent, ends, n, held' \o v, (InPacket \/ framed)', answers')
              /\ n + Len(held' \o v) = m + Len(held \o (x \o v))
<1>1. /\ stage = "payload" /\ stage \in Loops /\ InPacket /\ held = buffer /\ Len(buffer) = 4
      /\ buffer \in Seq(Byte) /\ buffer' = buffer \o x
      /\ sent \in Seq(Packets) /\ answers \in Seq(Seq(Byte))
  BY LineFacts DEF payloadReturns, Loops, InPacket
<1>2. CASE Len(x) = wanted
  <2>1. PICK type \in typesOf(buffer') : return(type)
    BY <1>2 DEF payloadReturns
  <2>2. stage' = "idle" /\ response' # "ERROR"
    BY <2>1, TypesAreResponses DEF return
  <2>3. held' = <<>> /\ ~InPacket'
    BY <2>2 DEF held, InPacket
  <2>4. answers' = Append(answers, buffer') /\ sent' = sent /\ framed' = framed
    BY <2>2, FramedIsBoolean DEF answered
  <2>5. buffer' \in Seq(Byte) /\ buffer' \o v = held \o (x \o v)
        /\ x \o v \in Seq(Byte) /\ Len(buffer') = 4 + Len(x) /\ Len(x) \in Nat
    <3>1. buffer' \in Seq(Byte) /\ x \o v \in Seq(Byte)
      BY <1>1, ConcatTyped
    <3>2. buffer' \o v = held \o (x \o v)
      BY Zenon, <1>1, Regroup
    <3>3. Len(buffer') = 4 + Len(x) /\ Len(x) \in Nat
      <4>1. PICK b \in Seq(Byte) : b = buffer
        BY <1>1
      <4>2. Len(b \o x) = Len(b) + Len(x) /\ Len(x) \in Nat
        BY BytesJoined
      <4>3. QED
        BY Zenon, <1>1, <4>1, <4>2
    <3>4. QED
      BY Zenon, <3>1, <3>2, <3>3
  <2>6. PICK k \in 1 .. Len(sent) :
          /\ m = ends[k - 1]
          /\ \A j \in 1 .. Len(buffer' \o v) : j <= Len(sent[k]) =>
               (buffer' \o v)[j] = sent[k][j]
          /\ wanted = Len(sent[k]) - 4
    <3>1. \E k \in 1 .. Len(sent) :
            /\ m = ends[k - 1]
            /\ \A j \in 1 .. Len(held \o (x \o v)) : j <= Len(sent[k]) =>
                 (held \o (x \o v))[j] = sent[k][j]
            /\ stage = "payload" => wanted = Len(sent[k]) - 4
      <4>1. PICK r \in Seq(Byte) : r = x \o v
        BY <2>5
      <4>2. Stands(sent, ends, m, held \o r, InPacket \/ framed, answers) /\ InPacket
        BY Zenon, <1>1, <4>1
      <4>3. \E k \in 1 .. Len(sent) :
              /\ m = ends[k - 1]
              /\ \A j \in 1 .. Len(held \o r) : j <= Len(sent[k]) =>
                   (held \o r)[j] = sent[k][j]
              /\ stage = "payload" => wanted = Len(sent[k]) - 4
        BY <4>2, PacketAtHand
      <4>4. QED
        BY Zenon, <4>1, <4>3
    <3>2. QED
      BY Zenon, <1>1, <2>5, <3>1
  <2>7. /\ sent[k] \in Seq(Byte) /\ Len(sent[k]) \in Nat /\ 5 <= Len(sent[k])
    BY <1>1, PacketLength
  <2>8. Len(buffer') = Len(sent[k])
    BY <1>2, <2>5, <2>6, <2>7
  <2>9. buffer' = sent[k]
    <3>1. PICK z \in Seq(Byte) : z = buffer'
      BY <2>5
    <3>2. Len(z \o v) = Len(z) + Len(v) /\ Len(z) \in Nat /\ Len(v) \in Nat
          /\ \A j \in 1 .. Len(z) : (z \o v)[j] = z[j]
      BY BytesJoined
    <3>3. \A j \in 1 .. Len(z) : j \in 1 .. Len(z \o v) /\ j <= Len(z)
      BY <3>2
    <3>4. \A j \in 1 .. Len(z) : z[j] = sent[k][j]
      BY Zenon, <2>6, <2>8, <3>1, <3>2, <3>3
    <3>5. QED
      BY <2>7, <2>8, <3>1, <3>4, SeqEqual
  <2>10. /\ ends[k] = ends[k - 1] + Len(sent[k]) /\ ends[k] = m + Len(buffer')
         /\ ends[k] \in Nat
    <3>1. ends[k] = ends[k - 1] + Len(sent[k])
      BY DEF Marks
    <3>2. ends[k] \in Nat
      BY <1>1, MarksTyped
    <3>3. QED
      BY Zenon, <2>6, <2>8, <3>1, <3>2
  <2>11. Follows(sent, ends, ends[k], v)
    <3>1. Follows(sent, ends, m, buffer' \o v)
      BY Zenon, <2>5 DEF Stands
    <3>2. PICK z \in Seq(Byte) : z = buffer'
      BY <2>5
    <3>3. Follows(sent, ends, m + Len(z), v)
      BY <1>1, <3>1, <3>2, DropBytes
    <3>4. QED
      BY Zenon, <2>10, <3>2, <3>3
  <2>12. Located(sent, ends, ends[k], answers')
    <3>1. Located(sent, ends, ends[k - 1], answers)
      BY Zenon, <2>6 DEF Stands
    <3>2. QED
      BY <1>1, <2>4, <2>9, <3>1, LocatedAppend
  <2>13. AtPacket(sent, ends, ends[k])
    BY <1>1, MarksTyped DEF AtPacket
  <2>14. held' \o v = v
    BY <2>3, ConcatEmptySeq
  <2>15. Stands(sent, ends, ends[k], held' \o v, (InPacket \/ framed)', answers')
    BY Zenon, <2>11, <2>12, <2>13, <2>14 DEF Stands
  <2>16. ends[k] + Len(held' \o v) = m + Len(held \o (x \o v))
    <3>1. PICK z \in Seq(Byte) : z = buffer'
      BY <2>5
    <3>2. Len(z \o v) = Len(z) + Len(v) /\ Len(z) \in Nat /\ Len(v) \in Nat
      BY BytesJoined
    <3>3. ends[k] + Len(v) = m + Len(z \o v)
      BY <2>10, <3>1, <3>2
    <3>4. QED
      BY Zenon, <2>5, <2>14, <3>1, <3>3
  <2>17. QED
    BY Zenon, <2>4, <2>10, <2>15, <2>16
<1>3. CASE x = <<>> /\ Len(x) # wanted
  <2>1. x \o v = v /\ buffer' = buffer /\ Len(x) = 0
    BY <1>1, <1>3, ConcatEmptySeq
  <2>2. retry(0)
    BY <1>3, <2>1 DEF payloadReturns
  <2>3. Stands(sent, ends, m, held \o v, InPacket \/ framed, answers)
    BY Zenon, <2>1
  <2>4. /\ sent' = sent
        /\ \E n \in Nat :
             /\ Stands(sent, ends, n, held' \o v, (InPacket \/ framed)', answers')
             /\ n + Len(held' \o v) = m + Len(held \o v)
    BY <1>1, <2>1, <2>2, <2>3, RetryStands
  <2>5. QED
    BY Zenon, <2>1, <2>4
<1>4. QED
  BY <1>2, <1>3
-----------------------------------------------------------------------------
\* What a read has returned.
LEMMA ReadStands ==
  ASSUME LineTyped, framed \/ StartByteIsUnique,
         NEW x \in Seq(Byte), NEW v \in Seq(Byte), NEW ends, NEW m \in Nat,
         Marks(sent, ends), Stands(sent, ends, m, held \o (x \o v), InPacket \/ framed, answers),
         x = <<>> \/ Len(x) = wanted, readReturns(x), answered
  PROVE  /\ sent' = sent
         /\ \E n \in Nat :
              /\ Stands(sent, ends, n, held' \o v, (InPacket \/ framed)', answers')
              /\ n + Len(held' \o v) = m + Len(held \o (x \o v))
<1>1. CASE startReturns(x)
  BY <1>1, StartStands
<1>2. CASE headerReturns(x)
  BY <1>2, HeaderStands
<1>3. CASE payloadReturns(x)
  BY <1>3, PayloadStands
<1>4. QED
  BY <1>1, <1>2, <1>3 DEF readReturns

\* A read that returns all it was asked for or nothing leaves no loop half-way.
LEMMA ReadReturnsWhole ==
  ASSUME LineTyped, NEW x \in Seq(Byte), x = <<>> \/ Len(x) = wanted, readReturns(x)
  PROVE  ReaderTyped' /\ stage' # "init" /\ (stage' \in Loops => offset' = 0)
<1>1. /\ ReaderTyped /\ stage \in Loops /\ offset = 0 /\ wanted \in Nat
      /\ stage # "init"
  BY LineFacts DEF readReturns, startReturns, headerReturns, payloadReturns, Loops, LineTyped
<1>2. Len(x) <= wanted /\ (Len(x) # wanted => Len(x) = 0)
  BY <1>1
<1>3. ReaderTyped'
  BY <1>1, <1>2, ReadReturnsTyped
<1>4. CASE retry(0)
  BY <1>1, <1>3, <1>4 DEF retry, return, Loops
<1>5. CASE \E loop \in Loops : \E n : enter(loop, n)
  BY <1>3, <1>5 DEF enter, Loops
<1>6. CASE \E type : return(type)
  BY <1>3, <1>6 DEF return, Loops
<1>7. retry(0) \/ (\E loop \in Loops : \E n : enter(loop, n)) \/ (\E type : return(type))
  BY <1>2 DEF readReturns, startReturns, headerReturns, payloadReturns, Loops
<1>8. QED
  BY <1>3, <1>4, <1>5, <1>6, <1>7

\* What is left of a number when no more than it is taken away.
LEMMA Difference ==
  ASSUME NEW p \in Nat, NEW o \in Nat, o <= p
  PROVE  0 <= p - o
OBVIOUS

\* The types of the history follow from those of the reader.
LEMMA AnsweredTyped ==
  ASSUME LineTyped, ReaderTyped', stage' # "init", stage' \in Loops => offset' = 0,
         answered, taken' = <<>>, line' \in Seq(Byte), received' \in Seq(Byte)
  PROVE  LineTyped'
<1>1. buffer' \in Seq(Byte) /\ answers \in Seq(Seq(Byte)) /\ framed \in BOOLEAN
      /\ sent \in Seq(Packets)
  BY DEF ReaderTyped, ReaderTypeOK, LineTyped, LineTypeOK
<1>2. answers' \in Seq(Seq(Byte))
  <2>1. Append(answers, buffer') \in Seq(Seq(Byte))
    BY <1>1, AppendProperties
  <2>2. QED
    BY <1>1, <2>1 DEF answered
<1>3. framed' \in BOOLEAN /\ sent' \in Seq(Packets)
  BY <1>1 DEF answered
<1>4. taken' \in Seq(Byte) /\ Len(taken') = 0
  OBVIOUS
<1>5. stage' \in Loops => Len(taken') <= wanted'
  <2>1. packetLength' \in Nat /\ offset' \in Nat /\ offset' <= packetLength'
    BY DEF ReaderTyped, ReaderTypeOK
  <2>2. PICK p \in Nat, o \in Nat : p = packetLength' /\ o = offset' /\ o <= p
    BY <2>1
  <2>3. 0 <= p - o
    BY <2>2, Difference
  <2>4. QED
    BY Zenon, <1>4, <2>2, <2>3 DEF wanted
<1>6. QED
  BY <1>2, <1>3, <1>4, <1>5 DEF LineTyped, LineTypeOK, ReaderTyped

\* A read of all that was wanted, or of nothing, keeps the invariant of the line: the bytes
\* it returns are the next of the stream, and those that stay unread still follow.
LEMMA ReadKeepsLine ==
  ASSUME LineTyped, NEW x \in Seq(Byte), NEW v \in Seq(Byte), NEW all,
         framed \/ StartByteIsUnique => Placed(held \o (x \o v), all),
         x = <<>> \/ Len(x) = wanted, readReturns(x), answered, taken' = <<>>,
         line' \in Seq(Byte), received' \in Seq(Byte)
  PROVE  LineTyped' /\ LineInv(v, all)'
<1>1. LineTyped'
  BY ReadReturnsWhole, AnsweredTyped
<1>2. ASSUME (framed \/ StartByteIsUnique)'
      PROVE  Placed(held \o (taken \o v), all)'
  <2>1. sent' = sent /\ (framed' => framed)
    BY FramedIsBoolean DEF answered
  <2>2. framed \/ StartByteIsUnique
    BY <1>2, <2>1 DEF StartByteIsUnique
  <2>3. PICK ends : \E m \in Nat :
          /\ Marks(sent, ends)
          /\ Stands(sent, ends, m, held \o (x \o v), InPacket \/ framed, answers)
          /\ all => m + Len(held \o (x \o v)) = ends[Len(sent)]
    BY Zenon, <2>2 DEF Placed
  <2>4. PICK m \in Nat :
          /\ Marks(sent, ends)
          /\ Stands(sent, ends, m, held \o (x \o v), InPacket \/ framed, answers)
          /\ all => m + Len(held \o (x \o v)) = ends[Len(sent)]
    BY <2>3
  <2>5. PICK n \in Nat :
          /\ Stands(sent, ends, n, held' \o v, (InPacket \/ framed)', answers')
          /\ n + Len(held' \o v) = m + Len(held \o (x \o v))
    BY <2>2, <2>4, ReadStands
  <2>6. taken' \o v = v
    BY ConcatEmptySeq
  <2>7. /\ Marks(sent', ends)
        /\ Stands(sent', ends, n, (held \o (taken \o v))', (InPacket \/ framed)', answers')
        /\ all => n + Len((held \o (taken \o v))') = ends[Len(sent')]
    BY Zenon, <2>1, <2>4, <2>5, <2>6
  <2>8. QED
    BY Zenon, <2>7 DEF Placed
<1>3. QED
  BY Zenon, <1>1, <1>2 DEF LineInv

\* Any number of bytes that a read stores.
LEMMA StoreKeepsLine ==
  ASSUME LineTyped, NEW b \in Seq(Byte), NEW v \in Seq(Byte), NEW all, LineInv(b \o v, all),
         stage \in Loops, Len(taken) + Len(b) <= wanted, store(b),
         line' \in Seq(Byte), received' \in Seq(Byte)
  PROVE  LineTyped' /\ LineInv(v, all)'
<1>1. taken \in Seq(Byte) /\ held \in Seq(Byte) /\ ReaderTyped
  BY LineFacts
<1>2. PICK x \in Seq(Byte) : x = taken \o b
  BY <1>1, ConcatTyped
<1>3. Len(x) = Len(taken) + Len(b) /\ Len(taken) \in Nat /\ Len(b) \in Nat
  <2>1. taken \in Seq(Byte)
    BY <1>1
  <2>2. QED
    BY Zenon, <1>2, <2>1, BytesJoined
<1>4. taken \o (b \o v) = x \o v
  <2>1. PICK t \in Seq(Byte) : t = taken
    BY <1>1
  <2>2. Regrouped(t, b, v)
    BY Zenon, Regrouping
  <2>3. QED
    BY Zenon, <1>2, <2>1, <2>2 DEF Regrouped
<1>5. framed \/ StartByteIsUnique => Placed(held \o (x \o v), all)
  BY Zenon, <1>4 DEF LineInv
<1>6. CASE Len(taken) + Len(b) = wanted
  <2>1. readReturns(x) /\ taken' = <<>> /\ answered
    BY <1>2, <1>6 DEF store
  <2>2. Len(x) = wanted
    BY <1>3, <1>6
  <2>3. QED
    BY <1>5, <2>1, <2>2, ReadKeepsLine
<1>7. CASE Len(taken) + Len(b) # wanted
  <2>1. taken' = x /\ UNCHANGED <<reader, history>>
    BY <1>2, <1>7 DEF store
  <2>2. /\ stage' = stage /\ buffer' = buffer /\ offset' = offset /\ wanted' = wanted
        /\ sent' = sent /\ answers' = answers /\ framed' = framed
    BY <2>1 DEF reader, history, wanted
  <2>3. held' = held /\ InPacket' = InPacket
    BY <2>2 DEF held, InPacket
  <2>4. LineTyped'
    <3>1. ReaderTyped'
      BY <1>1, <2>1, ReaderStutters
    <3>2. Len(taken') <= wanted' /\ taken' \in Seq(Byte)
      BY <1>3, <2>1, <2>2
    <3>3. ~InPacket => taken' = <<>>
      <4>1. SUFFICES ASSUME ~InPacket
                     PROVE  taken' = <<>>
        OBVIOUS
      <4>2. stage = "start"
        BY <4>1 DEF InPacket, Loops
      <4>3. wanted = 1
        BY <4>2, LineFacts
      <4>4. Len(x) = 0
        BY <1>3, <1>7, <4>3
      <4>5. QED
        BY <2>1, <4>4, EmptySeq
    <3>4. QED
      BY <2>2, <2>3, <3>1, <3>2, <3>3 DEF LineTyped, LineTypeOK, ReaderTyped
  <2>5. LineInv(v, all)'
    <3>1. StartByteIsUnique' = StartByteIsUnique
      BY <2>2 DEF StartByteIsUnique
    <3>2. Placed(held \o (x \o v), all)' = Placed(held \o (x \o v), all)
      BY <2>2, <2>3 DEF Placed
    <3>3. QED
      BY <1>5, <2>1, <2>2, <3>1, <3>2 DEF LineInv
  <2>6. QED
    BY <2>4, <2>5
<1>8. QED
  BY <1>6, <1>7

\* A read that finds nothing keeps the invariant of the line.
LEMMA StoreNothingKeepsLine ==
  ASSUME LineTyped, NEW v \in Seq(Byte), NEW all, LineInv(v, all), storeNothing,
         line' \in Seq(Byte), received' \in Seq(Byte)
  PROVE  LineTyped' /\ LineInv(v, all)'
<1>1. taken = <<>> /\ readReturns(<<>>) /\ answered /\ taken' = <<>>
  BY DEF storeNothing
<1>2. PICK x \in Seq(Byte) : x = <<>>
  <2>1. <<>> \in Seq(Byte)
    OBVIOUS
  <2>2. QED
    BY Zenon, <2>1
<1>3. framed \/ StartByteIsUnique => Placed(held \o (x \o v), all)
  BY Zenon, <1>1, <1>2 DEF LineInv
<1>4. QED
  BY <1>1, <1>2, <1>3, ReadKeepsLine

\* Bytes that are passed over, with all that has been located before them.
LEMMA PassOver ==
  ASSUME NEW sn \in Seq(Packets), NEW ends, Marks(sn, ends), NEW m \in Nat, NEW an,
         NEW x \in Seq(Byte), NEW y \in Seq(Byte),
         Follows(sn, ends, m, x \o y), Located(sn, ends, m, an)
  PROVE  \E n \in Nat : /\ n = m + Len(x) /\ n + Len(y) = m + Len(x \o y)
                        /\ Follows(sn, ends, n, y) /\ Located(sn, ends, n, an)
<1>1. Len(x) \in Nat /\ Len(y) \in Nat /\ Len(x \o y) = Len(x) + Len(y)
  BY BytesJoined
<1>2. PICK n \in Nat : n = m + Len(x)
  BY <1>1
<1>3. m <= n /\ n + Len(y) = m + Len(x \o y)
  BY <1>1, <1>2
<1>4. Follows(sn, ends, n, y)
  BY <1>2, DropBytes
<1>5. Located(sn, ends, n, an)
  BY <1>3, LocatedLater
<1>6. QED
  BY Zenon, <1>2, <1>3, <1>4, <1>5

\* A read that fails.
LEMMA StoreFailsKeepsLine ==
  ASSUME LineTyped, NEW v \in Seq(Byte), NEW all, LineInv(v, all), stage \in Loops, storeFails,
         line' \in Seq(Byte), received' \in Seq(Byte)
  PROVE  LineTyped' /\ LineInv(v, all)'
<1>1. /\ ReaderTyped /\ taken \in Seq(Byte) /\ held \in Seq(Byte) /\ sent \in Seq(Packets)
      /\ framed \in BOOLEAN
  BY LineFacts, FramedIsBoolean
<1>2. /\ stage' = "idle" /\ response' = "ERROR" /\ taken' = <<>> /\ readFails /\ answered
  BY DEF storeFails, readFails, return
<1>3. answers' = answers /\ sent' = sent /\ (framed' => framed /\ stage = "start")
  BY <1>1, <1>2 DEF answered
<1>4. held' = <<>> /\ ~InPacket'
  BY <1>2 DEF held, InPacket
<1>5. LineTyped'
  <2>1. ReaderTyped'
    BY <1>1, <1>2, ReadFailsTyped
  <2>2. stage' # "init" /\ ~(stage' \in Loops)
    BY <1>2 DEF Loops
  <2>3. QED
    BY <1>2, <2>1, <2>2, AnsweredTyped
<1>6. ASSUME (framed \/ StartByteIsUnique)'
      PROVE  Placed(held \o (taken \o v), all)'
  <2>1. framed \/ StartByteIsUnique
    BY <1>3, <1>6 DEF StartByteIsUnique
  <2>2. PICK h \in Seq(Byte), t \in Seq(Byte) : h = held /\ t = taken
    BY <1>1
  <2>3. PICK x \in Seq(Byte) : x = h \o t /\ held \o (taken \o v) = x \o v
    <3>1. Regrouped(h, t, v) /\ h \o t \in Seq(Byte)
      BY Zenon, Regrouping, ConcatTyped
    <3>2. QED
      BY Zenon, <2>2, <3>1 DEF Regrouped
  <2>4. PICK ends : \E m \in Nat :
          /\ Marks(sent, ends)
          /\ Stands(sent, ends, m, x \o v, InPacket \/ framed, answers)
          /\ all => m + Len(x \o v) = ends[Len(sent)]
    BY Zenon, <2>1, <2>3 DEF LineInv, Placed
  <2>5. PICK m \in Nat :
          /\ Marks(sent, ends)
          /\ Stands(sent, ends, m, x \o v, InPacket \/ framed, answers)
          /\ all => m + Len(x \o v) = ends[Len(sent)]
    BY <2>4
  <2>6. Follows(sent, ends, m, x \o v) /\ Located(sent, ends, m, answers)
    BY Zenon, <2>5 DEF Stands
  <2>7. PICK n \in Nat :
          /\ n = m + Len(x) /\ n + Len(v) = m + Len(x \o v)
          /\ Follows(sent, ends, n, v) /\ Located(sent, ends, n, answers)
    <3>1. sent \in Seq(Packets)
      BY <1>1
    <3>2. QED
      BY <2>5, <2>6, <3>1, PassOver
  <2>8. framed' => AtPacket(sent, ends, n)
    <3>1. SUFFICES ASSUME framed'
                   PROVE  AtPacket(sent, ends, n)
      OBVIOUS
    <3>2. framed /\ stage = "start"
      BY <1>3, <3>1
    <3>3. held = <<>> /\ taken = <<>>
      BY <3>2, LineFacts DEF LineTyped, InPacket
    <3>4. x = <<>>
      BY <2>2, <2>3, <3>3
    <3>5. n = m
      BY <2>7, <3>4
    <3>6. QED
      BY Zenon, <2>5, <3>2, <3>5 DEF Stands
  <2>9. held' \o (taken' \o v) = v
    BY <1>2, <1>4, ConcatEmptySeq
  <2>10. /\ Marks(sent', ends)
         /\ Stands(sent', ends, n, (held \o (taken \o v))', (InPacket \/ framed)', answers')
         /\ all => n + Len((held \o (taken \o v))') = ends[Len(sent')]
    BY Zenon, <1>3, <1>4, <2>5, <2>7, <2>8, <2>9 DEF Stands
  <2>11. QED
    BY Zenon, <2>10 DEF Placed
<1>7. QED
  BY Zenon, <1>5, <1>6 DEF LineInv

\* getResponse begins.
LEMMA BeginKeepsLine ==
  ASSUME LineTyped, NEW v \in Seq(Byte), NEW all, LineInv(v, all), stage = "idle", begin,
         UNCHANGED <<taken, history>>, line' \in Seq(Byte), received' \in Seq(Byte)
  PROVE  LineTyped' /\ LineInv(v, all)'
<1>1. /\ stage' = "start" /\ offset' = 0 /\ packetLength' = 1 /\ ReaderTyped'
      /\ sent' = sent /\ answers' = answers /\ framed' = framed /\ taken' = taken
  BY BeginTyped DEF begin, history
<1>2. held' = held /\ InPacket' = InPacket /\ ~InPacket
  BY <1>1 DEF held, InPacket
<1>3. taken = <<>> /\ Len(taken) = 0 /\ wanted' = 1
  BY <1>1, <1>2 DEF LineTyped, wanted
<1>4. LineTyped'
  BY <1>1, <1>2, <1>3 DEF LineTyped, LineTypeOK, ReaderTyped
<1>5. StartByteIsUnique' = StartByteIsUnique
  BY <1>1 DEF StartByteIsUnique
<1>6. Placed(held \o (taken \o v), all)' = Placed(held \o (taken \o v), all)
  BY <1>1, <1>2 DEF Placed
<1>7. QED
  BY <1>1, <1>4, <1>5, <1>6 DEF LineInv

\* A step that neither the reader nor the chip takes.
LEMMA OthersKeepLine ==
  ASSUME LineTyped, UNCHANGED <<reader, taken, history>>,
         line' \in Seq(Byte), received' \in Seq(Byte)
  PROVE  LineTyped' /\ \A v, all : LineInv(v, all)' = LineInv(v, all)
<1>1. /\ stage' = stage /\ buffer' = buffer /\ offset' = offset /\ wanted' = wanted
      /\ sent' = sent /\ answers' = answers /\ framed' = framed /\ taken' = taken
      /\ ReaderTypeOK' = ReaderTypeOK /\ Filled' = Filled
  BY DEF reader, history, wanted, ReaderTypeOK, Filled
<1>2. held' = held /\ InPacket' = InPacket
  BY <1>1 DEF held, InPacket
<1>3. LineTyped'
  BY <1>1, <1>2 DEF LineTyped, LineTypeOK
<1>4. StartByteIsUnique' = StartByteIsUnique
  BY <1>1 DEF StartByteIsUnique
<1>5. ASSUME NEW v, NEW all
      PROVE  LineInv(v, all)' = LineInv(v, all)
  <2>1. Placed(held \o (taken \o v), all)' = Placed(held \o (taken \o v), all)
    BY <1>1, <1>2 DEF Placed
  <2>2. QED
    BY <1>1, <1>4, <2>1 DEF LineInv
<1>6. QED
  BY <1>3, <1>5

\* The bytes that count, those of no read included.
LEMMA BytesAtHand ==
  ASSUME LineTyped, NEW v \in Seq(Byte)
  PROVE  held \o (taken \o v) \in Seq(Byte)
<1>1. taken \in Seq(Byte) /\ held \in Seq(Byte)
  BY LineFacts
<1>2. taken \o v \in Seq(Byte)
  BY <1>1, ConcatTyped
<1>3. QED
  BY <1>1, <1>2, ConcatTyped

\* What is added behind the unread bytes is added behind all bytes at hand.
LEMMA AtTheEnd ==
  ASSUME LineTyped, NEW x \in Seq(Byte), NEW y \in Seq(Byte)
  PROVE  held \o (taken \o (x \o y)) = (held \o (taken \o x)) \o y
<1>1. taken \in Seq(Byte) /\ held \in Seq(Byte)
  BY LineFacts
<1>2. PICK t \in Seq(Byte), h \in Seq(Byte) : t = taken /\ h = held
  BY <1>1
<1>3. PICK z \in Seq(Byte) : z = t \o x
  BY ConcatTyped
<1>4. Regrouped(t, x, y) /\ Regrouped(h, z, y)
  BY Zenon, Regrouping
<1>5. QED
  BY Zenon, <1>2, <1>3, <1>4 DEF Regrouped

\* The chip sends a packet.
LEMMA ChipKeepsLine ==
  ASSUME LineTyped, NEW v \in Seq(Byte), LineInv(v, TRUE), NEW p \in Packets,
         sent' = Append(sent, p), UNCHANGED <<reader, taken, answers, framed>>,
         line' \in Seq(Byte), received' \in Seq(Byte)
  PROVE  LineTyped' /\ LineInv(v \o p, TRUE)'
<1>1. sent \in Seq(Packets) /\ p \in Seq(Byte)
  BY ReaderAssumption DEF IsPacket, LineTyped, LineTypeOK
<1>2. /\ sent' \in Seq(Packets) /\ Len(sent') = Len(sent) + 1 /\ Len(sent) \in Nat
      /\ \A k \in 1 .. Len(sent) : sent'[k] = sent[k]
  BY <1>1, AppendProperties
<1>3. /\ stage' = stage /\ buffer' = buffer /\ offset' = offset /\ wanted' = wanted
      /\ answers' = answers /\ framed' = framed /\ taken' = taken
      /\ ReaderTypeOK' = ReaderTypeOK /\ Filled' = Filled
  BY DEF reader, wanted, ReaderTypeOK, Filled
<1>4. held' = held /\ InPacket' = InPacket
  BY <1>3 DEF held, InPacket
<1>5. LineTyped'
  BY <1>2, <1>3, <1>4 DEF LineTyped, LineTypeOK
<1>6. ASSUME StartByteIsUnique'
      PROVE  StartByteIsUnique
  <2>1. DOMAIN sent = 1 .. Len(sent) /\ DOMAIN sent' = 1 .. Len(sent')
    BY <1>1, <1>2, LenProperties
  <2>2. \A k \in 1 .. Len(sent) : k \in 1 .. Len(sent')
    BY <1>2
  <2>3. QED
    BY Zenon, <1>2, <1>6, <2>1, <2>2 DEF StartByteIsUnique
<1>7. ASSUME (framed \/ StartByteIsUnique)'
      PROVE  Placed(held \o (taken \o (v \o p)), TRUE)'
  <2>1. framed \/ StartByteIsUnique
    BY <1>3, <1>6, <1>7
  <2>2. PICK z \in Seq(Byte) : z = held \o (taken \o v)
    BY BytesAtHand
  <2>3. held \o (taken \o (v \o p)) = z \o p
    <3>1. held \o (taken \o (v \o p)) = (held \o (taken \o v)) \o p
      BY <1>1, AtTheEnd
    <3>2. QED
      BY Zenon, <2>2, <3>1
  <2>4. PICK ends : \E m \in Nat :
          /\ Marks(sent, ends)
          /\ Stands(sent, ends, m, z, InPacket \/ framed, answers)
          /\ m + Len(z) = ends[Len(sent)]
    BY Zenon, <2>1, <2>2 DEF LineInv, Placed
  <2>5. PICK m \in Nat :
          /\ Marks(sent, ends)
          /\ Stands(sent, ends, m, z, InPacket \/ framed, answers)
          /\ m + Len(z) = ends[Len(sent)]
    BY <2>4
  <2>6. Marks(sent', MoreEnds(sent, ends, p))
    BY <1>1, <2>5, MarksExtend
  <2>7. Follows(sent, ends, m, z)
    BY Zenon, <2>5 DEF Stands
  <2>8. Follows(sent', MoreEnds(sent, ends, p), m, z \o p)
    BY <1>1, <2>5, <2>7, FollowsExtend
  <2>9. /\ AtPacket(sent, ends, m) => AtPacket(sent', MoreEnds(sent, ends, p), m)
        /\ Located(sent, ends, m, answers) =>
             Located(sent', MoreEnds(sent, ends, p), m, answers)
    BY <1>1, <2>5, PlacesExtend
  <2>10. Stands(sent', MoreEnds(sent, ends, p), m, z \o p, InPacket \/ framed, answers)
    BY Zenon, <2>5, <2>8, <2>9 DEF Stands
  <2>11. m + Len(z \o p) = MoreEnds(sent, ends, p)[Len(sent')]
    <3>1. PICK n \in Nat, l \in Nat : Extension(sent, ends, p, n, l)
      BY <1>1, <2>5, Extended
    <3>2. n = Len(sent) /\ l = Len(p) /\ MoreEnds(sent, ends, p)[n + 1] = ends[n] + l
      BY Zenon, <3>1 DEF Extension
    <3>3. Len(z \o p) = Len(z) + Len(p) /\ Len(z) \in Nat /\ Len(p) \in Nat
      BY <1>1, BytesJoined
    <3>4. m + Len(z \o p) = (m + Len(z)) + Len(p)
      BY <3>3
    <3>5. QED
      BY Zenon, <1>2, <2>5, <3>2, <3>4
  <2>12. (held \o (taken \o (v \o p)))' = z \o p
    BY Zenon, <1>3, <1>4, <2>3
  <2>13. /\ Marks(sent', MoreEnds(sent, ends, p))
         /\ Stands(sent', MoreEnds(sent, ends, p), m, (held \o (taken \o (v \o p)))',
                   (InPacket \/ framed)', answers')
         /\ TRUE => m + Len((held \o (taken \o (v \o p)))') =
                      MoreEnds(sent, ends, p)[Len(sent')]
    <3>1. (InPacket \/ framed)' = (InPacket \/ framed) /\ answers' = answers
      BY <1>3, <1>4
    <3>2. QED
      BY Zenon, <2>6, <2>10, <2>11, <2>12, <3>1
  <2>14. QED
    BY Zenon, <2>13 DEF Placed
<1>8. QED
  BY Zenon, <1>5, <1>7 DEF LineInv

\* Bytes at the end are lost with the device.
LEMMA LossKeepsLine ==
  ASSUME LineTyped, NEW x \in Seq(Byte), NEW y \in Seq(Byte), NEW all, LineInv(x \o y, all)
  PROVE  LineInv(x, FALSE)
<1>1. SUFFICES ASSUME framed \/ StartByteIsUnique
               PROVE  Placed(held \o (taken \o x), FALSE)
  BY Zenon DEF LineInv
<1>2. PICK z \in Seq(Byte) : z = held \o (taken \o x)
  BY BytesAtHand
<1>3. held \o (taken \o (x \o y)) = z \o y
  <2>1. held \o (taken \o (x \o y)) = (held \o (taken \o x)) \o y
    BY AtTheEnd
  <2>2. QED
    BY Zenon, <1>2, <2>1
<1>4. PICK ends : \E m \in Nat :
        /\ Marks(sent, ends)
        /\ Stands(sent, ends, m, z \o y, InPacket \/ framed, answers)
  BY Zenon, <1>1, <1>3 DEF LineInv, Placed
<1>5. PICK m \in Nat :
        /\ Marks(sent, ends)
        /\ Stands(sent, ends, m, z \o y, InPacket \/ framed, answers)
  BY <1>4
<1>6. sent \in Seq(Packets) /\ Follows(sent, ends, m, z \o y)
  BY <1>5, LineFacts DEF Stands
<1>7. Follows(sent, ends, m, z)
  BY <1>5, <1>6, KeepBytes
<1>8. Stands(sent, ends, m, z, InPacket \/ framed, answers)
  BY Zenon, <1>5, <1>7 DEF Stands
<1>9. QED
  BY Zenon, <1>2, <1>5, <1>8 DEF Placed

\* The bytes of a read that is cancelled are lost.
LEMMA CancelKeepsLine ==
  ASSUME LineTyped, NEW x \in Seq(Byte), NEW y \in Seq(Byte), NEW all, LineInv(x \o y, all),
         ~InPacket, ~framed
  PROVE  LineInv(y, all)
<1>1. SUFFICES ASSUME framed \/ StartByteIsUnique
               PROVE  Placed(held \o (taken \o y), all)
  BY Zenon DEF LineInv
<1>2. held = <<>> /\ taken = <<>>
  BY DEF LineTyped, held
<1>3. held \o (taken \o y) = y /\ held \o (taken \o (x \o y)) = x \o y
  BY <1>2, ConcatEmptySeq, ConcatTyped
<1>4. PICK ends : \E m \in Nat :
        /\ Marks(sent, ends)
        /\ Stands(sent, ends, m, x \o y, InPacket \/ framed, answers)
        /\ all => m + Len(x \o y) = ends[Len(sent)]
  BY Zenon, <1>1, <1>3 DEF LineInv, Placed
<1>5. PICK m \in Nat :
        /\ Marks(sent, ends)
        /\ Stands(sent, ends, m, x \o y, InPacket \/ framed, answers)
        /\ all => m + Len(x \o y) = ends[Len(sent)]
  BY <1>4
<1>6. sent \in Seq(Packets) /\ Follows(sent, ends, m, x \o y) /\ Located(sent, ends, m, answers)
  BY <1>5, LineFacts DEF Stands
<1>7. PICK n \in Nat :
        /\ n = m + Len(x) /\ n + Len(y) = m + Len(x \o y)
        /\ Follows(sent, ends, n, y) /\ Located(sent, ends, n, answers)
  BY <1>5, <1>6, PassOver
<1>8. Stands(sent, ends, n, y, InPacket \/ framed, answers)
  BY Zenon, <1>7 DEF Stands
<1>9. all => n + Len(y) = ends[Len(sent)]
  BY Zenon, <1>5, <1>7
<1>10. QED
  BY Zenon, <1>3, <1>5, <1>8, <1>9 DEF Placed

\* As many of the bytes received as are asked for.
LEMMA Portion ==
  ASSUME NEW r \in Seq(Byte), NEW a \in Nat
  PROVE  \E b \in Seq(Byte), rest \in Seq(Byte) :
           /\ b = SubSeq(r, 1, Min({Len(r), a}))
           /\ rest = SubSeq(r, Min({Len(r), a}) + 1, Len(r))
           /\ Len(b) <= a /\ r = b \o rest
<1>1. Len(r) \in Nat
  BY LenProperties
<1>2. PICK n \in Nat : n = Min({Len(r), a}) /\ n <= Len(r) /\ n <= a
  BY <1>1, MinOfTwo
<1>3. /\ SubSeq(r, 1, n) \in Seq(Byte) /\ Len(SubSeq(r, 1, n)) = n
      /\ SubSeq(r, n + 1, Len(r)) \in Seq(Byte)
      /\ r = SubSeq(r, 1, n) \o SubSeq(r, n + 1, Len(r))
  BY <1>2, SplitAt
<1>4. QED
  BY Zenon, <1>2, <1>3

\* What remains to be read of what was asked for.
LEMMA Remaining ==
  ASSUME LineTyped, stage \in Loops
  PROVE  \E a \in Nat : a = wanted - Len(taken) /\ Len(taken) + a = wanted
<1>1. Len(taken) \in Nat /\ wanted \in Nat /\ Len(taken) <= wanted
  BY LineFacts, LenProperties DEF LineTyped, LineTypeOK
<1>2. wanted - Len(taken) \in Nat /\ Len(taken) + (wanted - Len(taken)) = wanted
  BY <1>1
<1>3. QED
  BY Zenon, <1>2

\* A portion that is within what is missing does not make the read too long.
LEMMA PortionFits ==
  ASSUME LineTyped, NEW a \in Nat, Len(taken) + a = wanted, NEW b \in Seq(Byte), Len(b) <= a
  PROVE  Len(taken) + Len(b) <= wanted
<1>1. PICK t \in Nat, l \in Nat : t = Len(taken) /\ l = Len(b)
  BY LineFacts, LenProperties
<1>2. t + l <= t + a
  BY <1>1
<1>3. QED
  BY Zenon, <1>1, <1>2

\* A byte is transmitted.
LEMMA ByteMoves ==
  ASSUME NEW r \in Seq(Byte), NEW l \in Seq(Byte), l # <<>>
  PROVE  /\ Append(r, Head(l)) \in Seq(Byte) /\ Tail(l) \in Seq(Byte)
         /\ Append(r, Head(l)) \o Tail(l) = r \o l
<1>1. Head(l) \in Byte /\ Tail(l) \in Seq(Byte)
  BY HeadTailProperties
<1>2. Append(r, Head(l)) \in Seq(Byte) /\ Append(r, Head(l)) = r \o <<Head(l)>>
  BY <1>1, AppendProperties, AppendIsConcat
<1>3. <<Head(l)>> \o Tail(l) = l
  <2>1. Len(l) \in Nat /\ Len(l) >= 1
    BY EmptySeq, LenProperties
  <2>2. 1 \in 1 .. Len(l) /\ Len(l) \in 1 .. Len(l)
    BY <2>1
  <2>3. SubSeq(l, 1, Len(l)) = <<l[1]>> \o SubSeq(l, 1 + 1, Len(l))
    BY <2>2, SubSeqRecursiveFirst
  <2>4. SubSeq(l, 1, Len(l)) = l /\ SubSeq(l, 1 + 1, Len(l)) = Tail(l) /\ l[1] = Head(l)
    BY SubSeqFull, TailIsSubSeq
  <2>5. QED
    BY Zenon, <2>3, <2>4
<1>4. <<Head(l)>> \in Seq(Byte)
  BY <1>1
<1>5. PICK h \in Seq(Byte), t \in Seq(Byte) : h = <<Head(l)>> /\ t = Tail(l)
  BY <1>1, <1>4
<1>6. (r \o h) \o t = r \o (h \o t)
  BY ConcatAssociative
<1>7. QED
  BY Zenon, <1>1, <1>2, <1>3, <1>5, <1>6
-----------------------------------------------------------------------------
\* What the invariant says of the answers, and of what is asked for next.
LEMMA AnswersLocated ==
  ASSUME LineTyped, NEW u \in Seq(Byte), NEW all, LineInv(u, all),
         framed \/ StartByteIsUnique
  PROVE  AnswersArePackets
<1>1. PICK ends, m : Located(sent, ends, m, answers)
  BY Zenon DEF LineInv, Placed, Stands
<1>2. sent \in Seq(Packets) /\ answers \in Seq(Seq(Byte))
  BY LineFacts
<1>3. DOMAIN sent = 1 .. Len(sent) /\ DOMAIN answers = 1 .. Len(answers)
  BY <1>2, LenProperties
<1>4. PICK at \in [1 .. Len(answers) -> 1 .. Len(sent)] :
        \A i \in 1 .. Len(answers) :
          /\ answers[i] = sent[at[i]] /\ ends[at[i]] <= m
          /\ \A j \in 1 .. i - 1 : at[j] < at[i]
  BY <1>1 DEF Located
<1>5. QED
  BY Zenon, <1>3, <1>4 DEF AnswersArePackets

\* By the invariant of the line a read of a payload wants what its packet holds, which fits
\* into the buffer.
LEMMA ReadsAreOfPackets ==
  ASSUME LineTyped, NEW u \in Seq(Byte), NEW all, LineInv(u, all),
         framed \/ StartByteIsUnique
  PROVE  ReadsFitBuffer
<1>1. CASE stage \notin Loops
  BY <1>1 DEF ReadsFitBuffer
<1>2. CASE stage = "start"
  <2>1. buffer = <<>> /\ wanted = 1 /\ Len(<<>>) = 0
    BY <1>2, LineFacts
  <2>2. 0 + 1 <= BUFFER_LENGTH
    BY ReaderAssumption
  <2>3. QED
    BY Zenon, <2>1, <2>2 DEF ReadsFitBuffer
<1>3. CASE InPacket
  <2>1. PICK r \in Seq(Byte) : r = taken \o u
    BY LineFacts, ConcatTyped
  <2>2. PICK ends : \E m \in Nat :
          /\ Marks(sent, ends)
          /\ Stands(sent, ends, m, held \o r, InPacket \/ framed, answers)
    BY Zenon, <2>1 DEF LineInv, Placed
  <2>3. PICK m \in Nat :
          /\ Marks(sent, ends)
          /\ Stands(sent, ends, m, held \o r, InPacket \/ framed, answers)
    BY <2>2
  <2>4. PICK k \in 1 .. Len(sent) : stage = "payload" => wanted = Len(sent[k]) - 4
    BY <1>3, <2>3, PacketAtHand
  <2>5. 5 <= Len(sent[k]) /\ Len(sent[k]) <= BUFFER_LENGTH /\ Len(sent[k]) \in Nat
        /\ BUFFER_LENGTH \in Nat
    BY <2>4, LineFacts, PacketLength, ReaderAssumption
  <2>6. CASE stage = "header"
    <3>1. Len(buffer) = 1 /\ wanted = 3
      BY <2>6, LineFacts
    <3>2. 1 + 3 <= BUFFER_LENGTH
      BY <2>5
    <3>3. QED
      BY Zenon, <3>1, <3>2 DEF ReadsFitBuffer
  <2>7. CASE stage = "payload"
    <3>1. Len(buffer) = 4 /\ wanted = Len(sent[k]) - 4
      BY <2>4, <2>7, LineFacts
    <3>2. 4 + (Len(sent[k]) - 4) <= BUFFER_LENGTH
      BY <2>5
    <3>3. QED
      BY Zenon, <3>1, <3>2 DEF ReadsFitBuffer
  <2>8. QED
    BY <1>3, <2>6, <2>7 DEF InPacket
<1>4. QED
  BY <1>1, <1>2, <1>3 DEF Loops, InPacket

\* Before the chip has sent anything.
LEMMA LineBegins ==
  ASSUME ReaderInit, LineInit
  PROVE  LineTyped /\ LineInv(<<>>, TRUE)
<1>1. /\ stage = "idle" /\ ReaderTyped /\ offset = 0
      /\ line = <<>> /\ received = <<>> /\ taken = <<>>
      /\ sent = <<>> /\ answers = <<>> /\ framed = TRUE
  BY ReaderInitTyped DEF ReaderInit, LineInit
<1>2. held = <<>> /\ ~InPacket /\ stage \notin Loops /\ stage # "init"
  BY <1>1 DEF held, InPacket, Loops
<1>3. <<>> \in Seq(Byte) /\ <<>> \in Seq(Packets) /\ <<>> \in Seq(Seq(Byte)) /\ Len(<<>>) = 0
  OBVIOUS
<1>4. LineTyped
  BY <1>1, <1>2, <1>3 DEF LineTyped, LineTypeOK, ReaderTyped
<1> DEFINE ends == [k \in 0 .. 0 |-> 0]
<1>5. /\ ends \in [0 .. 0 -> Nat] /\ ends[0] = 0
      /\ \A j, k \in 0 .. 0 : ~(j < k)
      /\ 1 .. 0 = {}
  OBVIOUS
<1> HIDE DEF ends
<1>6. Marks(<<>>, ends)
  BY <1>3, <1>5 DEF Marks
<1>7. Follows(<<>>, ends, 0, <<>>)
  BY <1>3, <1>5 DEF Follows
<1>8. AtPacket(<<>>, ends, 0)
  BY <1>3, <1>5 DEF AtPacket
<1>9. Located(<<>>, ends, 0, <<>>)
  BY <1>3, <1>5 DEF Located
<1>10. held \o (taken \o <<>>) = <<>>
  BY <1>1, <1>2
<1>11. 0 \in Nat /\ 0 + Len(<<>>) = ends[Len(<<>>)]
  BY <1>3, <1>5
<1>12. Placed(<<>>, TRUE)
  BY Zenon, <1>1, <1>6, <1>7, <1>8, <1>9, <1>11 DEF Placed, Stands
<1>13. QED
  BY Zenon, <1>4, <1>10, <1>12 DEF LineInv
=============================================================================
