-------------------------- MODULE QueryStreamProofs --------------------------
(***************************************************************************)
(* What the chip makes of the queries, whatever the frames, the settings   *)
(* and the room in the output queue.  The bytes of all queries that were   *)
(* ever issued make one stream w; the query k ends with its byte ends[k],  *)
(* and the chip has done with the first m.  It is between two packets, or  *)
(* within the packet that begins there.                                    *)
(***************************************************************************)
EXTENDS QueryStream, SequenceTheorems, TLAPS

\* The length that is announced behind the first a bytes of w, with its header.
CoreLength(w, a) == 4 + (256 * w[a + 2] + w[a + 3])

\* A packet of this type means q if the first l bytes of its field are those of f.
Means(type, l, f, q) ==
  \A g \in Seq(Octet) :
    Len(g) = l /\ (\A i \in 1 .. l : g[i] = f[i]) => Meaning(type, g) = q

\* There is no start byte from the place m + 1 of w to the place e.
Quiet(w, m, e) == \A p \in m + 1 .. e : w[p] # DV3000_START_BYTE

\* The bytes a + 1 to e of w are a packet that means q, and bytes that begin none.
Carries(w, a, e, q) ==
  /\ CoreLength(w, a) \in Nat /\ CoreLength(w, a) >= 5 /\ a + CoreLength(w, a) <= e
  /\ w[a + 1] = DV3000_START_BYTE
  /\ Means(w[a + 4], CoreLength(w, a) - 4, [i \in 1 .. e - (a + 4) |-> w[a + (4 + i)]], q)
  /\ Quiet(w, a + CoreLength(w, a), e)
-----------------------------------------------------------------------------
(***************************************************************************)
(* Sequences of bytes.                                                     *)
(***************************************************************************)

\* b holds the elements of s and then those of t.
Joins(b, s, t) ==
  /\ Len(s) \in Nat /\ Len(t) \in Nat /\ Len(b) = Len(s) + Len(t)
  /\ \A i \in 1 .. Len(s) : b[i] = s[i]
  /\ \A i \in 1 .. Len(t) : b[Len(s) + i] = t[i]

\* Where the elements of two sequences are when they are joined.
LEMMA Joined ==
  ASSUME NEW S, NEW s \in Seq(S), NEW t \in Seq(S)
  PROVE  s \o t \in Seq(S) /\ Joins(s \o t, s, t)
<1>1. PICK m \in Nat, n \in Nat : m = Len(s) /\ n = Len(t)
  BY LenProperties
<1>2. s \o t \in Seq(S) /\ Len(s \o t) = Len(s) + Len(t)
  BY ConcatProperties
<1>3. \A k \in 1 .. m + n : (s \o t)[k] = IF k <= m THEN s[k] ELSE t[k - m]
  BY <1>1, ConcatProperties
<1>4. ASSUME NEW i \in 1 .. n
      PROVE  (s \o t)[m + i] = t[i]
  <2>1. m + i \in 1 .. m + n /\ ~(m + i <= m) /\ (m + i) - m = i
    BY <1>1
  <2>2. QED
    BY <1>3, <2>1
<1>5. ASSUME NEW i \in 1 .. m
      PROVE  (s \o t)[i] = s[i]
  <2>1. i \in 1 .. m + n /\ i <= m
    OBVIOUS
  <2>2. QED
    BY <1>3, <2>1
<1>6. QED
  BY <1>1, <1>2, <1>4, <1>5 DEF Joins

\* The n bytes that follow the first m.
LEMMA Between ==
  ASSUME NEW s \in Seq(Octet), NEW m \in Nat, NEW n \in Nat, m + n <= Len(s)
  PROVE  /\ SubSeq(s, m + 1, m + n) \in Seq(Octet)
         /\ Len(SubSeq(s, m + 1, m + n)) = n
         /\ \A i \in 1 .. n : SubSeq(s, m + 1, m + n)[i] = s[m + i]
<1>1. PICK lo \in Int, hi \in Int : lo = m + 1 /\ hi = m + n
  OBVIOUS
<1>2. \A i \in lo .. hi : s[i] \in Octet
  <2>1. \A i \in lo .. hi : i \in 1 .. Len(s)
    BY <1>1, LenProperties
  <2>2. QED
    BY Zenon, <2>1, ElementOfSeq
<1> DEFINE f == SubSeq(s, lo, hi)
<1>3. /\ f \in Seq(Octet) /\ Len(f) = IF lo <= hi THEN hi - lo + 1 ELSE 0
      /\ \A i \in 1 .. hi - lo + 1 : f[i] = s[lo + i - 1]
  BY SMTT(30), <1>2, SubSeqProperties
<1> HIDE DEF f
<1>4. Len(f) = n
  BY <1>1, <1>3
<1>5. ASSUME NEW i \in 1 .. n
      PROVE  f[i] = s[m + i]
  <2>1. i \in 1 .. hi - lo + 1 /\ lo + i - 1 = m + i
    BY <1>1
  <2>2. QED
    BY Zenon, <1>3, <2>1
<1>6. QED
  BY <1>1, <1>3, <1>4, <1>5 DEF f

\* What a sequence holds from some place on.
LEMMA RestIs ==
  ASSUME NEW g \in Seq(Octet), NEW m \in Nat, NEW s \in Seq(Octet),
         Len(g) = m + Len(s), \A i \in 1 .. Len(s) : g[m + i] = s[i]
  PROVE  Rest(g, m + 1) = s
<1>1. PICK n \in Nat : n = Len(s)
  BY LenProperties
<1>2. /\ SubSeq(g, m + 1, m + n) \in Seq(Octet) /\ Len(SubSeq(g, m + 1, m + n)) = n
      /\ \A i \in 1 .. n : SubSeq(g, m + 1, m + n)[i] = g[m + i]
  BY <1>1, Between
<1>3. Rest(g, m + 1) = SubSeq(g, m + 1, m + n)
  BY <1>1 DEF Rest
<1>4. \A i \in 1 .. n : SubSeq(g, m + 1, m + n)[i] = s[i]
  BY <1>1, <1>2
<1> HIDE DEF Rest
<1>5. SubSeq(g, m + 1, m + n) = s
  BY <1>1, <1>2, <1>4, SeqEqual
<1>6. QED
  BY <1>3, <1>5
-----------------------------------------------------------------------------
(***************************************************************************)
(* The packets of the queries.                                             *)
(***************************************************************************)

\* The two bytes of a length make that length again.
LEMMA LengthOfTwoBytes ==
  ASSUME NEW l \in Nat, l <= LongestField
  PROVE  /\ TwoBytes(l)[1] \in Octet /\ TwoBytes(l)[2] \in Octet
         /\ 256 * TwoBytes(l)[1] + TwoBytes(l)[2] = l
<1>1. /\ (l \div 256) % 256 \in Octet /\ l % 256 \in Octet
      /\ 256 * ((l \div 256) % 256) + (l % 256) = l
  BY DEF Octet, LongestField
<1>2. QED
  BY <1>1 DEF TwoBytes

\* A packet carries the meaning of its field, as far as its header counts it, if there
\* is no start byte in the rest of the field.
LEMMA PacketCarries ==
  ASSUME NEW l \in Nat, 1 <= l, l <= LongestField, NEW t \in Octet, NEW f \in Seq(Octet), l <= Len(f),
         NEW q, Means(t, l, f, q)
  PROVE  /\ packetOf(l, t, f) \in Seq(Octet) /\ packetOf(l, t, f) # <<>>
         /\ Quiet(f, l, Len(f)) => Carries(packetOf(l, t, f), 0, Len(packetOf(l, t, f)), q)
<1> DEFINE h == <<DV3000_START_BYTE, TwoBytes(l)[1], TwoBytes(l)[2], t>>
           b == packetOf(l, t, f)
<1>1. TwoBytes(l)[1] \in Octet /\ TwoBytes(l)[2] \in Octet /\ DV3000_START_BYTE \in Octet
      /\ 256 * TwoBytes(l)[1] + TwoBytes(l)[2] = l
  BY LengthOfTwoBytes DEF DV3000_START_BYTE, Octet
<1>2. h \in Seq(Octet) /\ Len(h) = 4
      /\ h[1] = DV3000_START_BYTE /\ h[2] = TwoBytes(l)[1] /\ h[3] = TwoBytes(l)[2] /\ h[4] = t
  BY <1>1
<1>3. b = h \o f
  BY DEF packetOf
<1> HIDE DEF h, b
<1>4. PICK n \in Nat : n = Len(f)
  BY LenProperties
<1>5. /\ b \in Seq(Octet) /\ Len(b) = 4 + n
      /\ \A i \in 1 .. 4 : b[i] = h[i]
      /\ \A i \in 1 .. n : b[4 + i] = f[i]
  <2>1. b \in Seq(Octet) /\ Joins(b, h, f)
    BY Zenon, <1>2, <1>3, Joined
  <2>2. QED
    BY <1>2, <1>4, <2>1 DEF Joins
<1>6. b # <<>>
  BY <1>5
<1>7. /\ b[1] = DV3000_START_BYTE /\ b[2] = TwoBytes(l)[1] /\ b[3] = TwoBytes(l)[2]
      /\ b[4] = t
  BY <1>2, <1>5
<1>8. CoreLength(b, 0) = 4 + l
  BY <1>1, <1>7 DEF CoreLength
<1>9. Means(t, l, [i \in 1 .. Len(b) - (0 + 4) |-> b[0 + (4 + i)]], q)
  <2> DEFINE c == [i \in 1 .. Len(b) - (0 + 4) |-> b[0 + (4 + i)]]
  <2>1. \A i \in 1 .. l : i \in 1 .. n /\ i \in 1 .. Len(b) - (0 + 4) /\ 0 + (4 + i) = 4 + i
    BY <1>4, <1>5
  <2>2. \A i \in 1 .. l : c[i] = f[i]
    BY <1>5, <2>1
  <2> HIDE DEF c
  <2>3. QED
    BY Zenon, <2>2 DEF Means, c
<1>10. ASSUME Quiet(f, l, Len(f)) PROVE Carries(b, 0, Len(b), q)
  <2>1. ASSUME NEW p \in 0 + CoreLength(b, 0) + 1 .. Len(b)
        PROVE  b[p] # DV3000_START_BYTE
    <3>1. p - 4 \in l + 1 .. n /\ p - 4 \in 1 .. n /\ p = 4 + (p - 4)
      BY <1>5, <1>8
    <3>2. b[4 + (p - 4)] = f[p - 4] /\ f[p - 4] # DV3000_START_BYTE
      BY <1>4, <1>5, <1>10, <3>1 DEF Quiet
    <3>3. QED
      BY <3>1, <3>2
  <2>2. CoreLength(b, 0) \in Nat /\ CoreLength(b, 0) >= 5 /\ 0 + CoreLength(b, 0) <= Len(b)
        /\ CoreLength(b, 0) - 4 = l /\ 0 + 1 = 1 /\ 0 + 4 = 4
    BY <1>4, <1>5, <1>8
  <2>3. Quiet(b, 0 + CoreLength(b, 0), Len(b))
    BY Zenon, <2>1 DEF Quiet
  <2>4. QED
    BY Zenon, <1>7, <1>9, <2>2, <2>3 DEF Carries
<1>11. QED
  BY <1>5, <1>6, <1>10 DEF b

\* The chip takes these two bytes for the sample they were made from.
LEMMA SampleOfTwoBytes ==
  ASSUME NEW n \in Short
  PROVE  /\ TwoBytes(n)[1] \in Octet /\ TwoBytes(n)[2] \in Octet
         /\ Signed(TwoBytes(n)[1]) * 256 + TwoBytes(n)[2] = n
<1>1. PICK h \in Int, o \in Int : h = n \div 256 /\ o = n % 256
  BY DEF Short
<1>2. n = 256 * h + o /\ 0 <= o /\ o <= 255 /\ -32768 <= n /\ n <= 32767
  BY <1>1 DEF Short
<1>3. 0 - 128 <= h /\ h <= 127
  BY <1>2
<1>4. h % 256 = IF h < 0 THEN h + 256 ELSE h
  BY <1>3
<1>5. h % 256 \in Octet /\ o \in Octet /\ Signed(h % 256) = h
  BY <1>2, <1>3, <1>4 DEF Signed, Octet
<1>6. TwoBytes(n)[1] = h % 256 /\ TwoBytes(n)[2] = o
  BY <1>1 DEF TwoBytes
<1>7. QED
  BY <1>2, <1>5, <1>6

\* The chip takes the byte of a gain for that gain.
LEMMA SignedByte ==
  ASSUME NEW g \in SignedChar
  PROVE  Byte(g) \in Octet /\ Signed(Byte(g)) = g
<1>1. g \in Int /\ -128 <= g /\ g <= 127 /\ g % 256 = IF g < 0 THEN g + 256 ELSE g
  BY DEF SignedChar
<1>2. QED
  BY <1>1 DEF Signed, Byte, Octet

\* What is sent in addition to a query holds no start byte, or StartsIn says that it does.
Carried(q, past) ==
  /\ bytesOf(q, past) \in Seq(Octet) /\ bytesOf(q, past) # <<>>
  /\ ~StartsIn(q, past) => Carries(bytesOf(q, past), 0, Len(bytesOf(q, past)), q)

\* The packet of a query whose field ends where its header says.
LEMMA FieldCarries ==
  ASSUME NEW q, NEW past, NEW t \in Octet, NEW f \in Seq(Octet), NEW l \in Nat,
         l = Len(f), 1 <= l, l <= LongestField,
         bytesOf(q, past) = packetOf(l, t, f), Means(t, l, f, q)
  PROVE  Carried(q, past)
<1>1. Quiet(f, l, Len(f))
  BY DEF Quiet
<1>2. l <= Len(f)
  OBVIOUS
<1>3. QED
  BY Zenon, <1>1, <1>2, PacketCarries DEF Carried

\* The query for the identification.
LEMMA ProdidCarries ==
  ASSUME NEW q \in Queries, q.type = "PRODID", NEW past
  PROVE  Carried(q, past)
<1>1. q = [type |-> "PRODID"] /\ bytesOf(q, past) = packetOf(1, 0, << 48 >>)
  BY DEF Queries, bytesOf
<1>2. << 48 >> \in Seq(Octet) /\ Len(<< 48 >>) = 1 /\ << 48 >>[1] = 48 /\ 0 \in Octet
  BY DEF Octet
<1>3. ASSUME NEW g \in Seq(Octet), Len(g) = 1, \A i \in 1 .. 1 : g[i] = << 48 >>[i]
      PROVE  Meaning(0, g) = q
  BY <1>1, <1>3 DEF Meaning
<1>4. Means(0, 1, << 48 >>, q)
  BY Zenon, <1>3 DEF Means
<1>5. 1 \in Nat /\ 1 <= 1 /\ 1 <= LongestField /\ 1 = Len(<< 48 >>)
  BY <1>2 DEF LongestField
<1>6. QED
  BY Zenon, <1>1, <1>2, <1>4, <1>5, FieldCarries

\* The query that sets the rate.
LEMMA RatepCarries ==
  ASSUME NEW q \in Queries, q.type = "RATEP", NEW past
  PROVE  Carried(q, past)
<1> DEFINE w == q.words
           f == << 10 >> \o w
<1>1. /\ w \in ControlWords /\ q = [type |-> "RATEP", words |-> w]
      /\ bytesOf(q, past) = packetOf(1 + Len(w), 0, f)
  BY DEF Queries, bytesOf
<1> HIDE DEF w
<1>2. w \in Seq(Octet) /\ 1 + Len(w) <= LongestField
  BY Zenon, <1>1, StreamAssumption
<1>3. PICK n \in Nat : n = Len(w)
  BY <1>2, LenProperties
<1>4. << 10 >> \in Seq(Octet) /\ Len(<< 10 >>) = 1 /\ << 10 >>[1] = 10 /\ 0 \in Octet
  BY DEF Octet
<1>5. /\ f \in Seq(Octet) /\ Len(f) = 1 + n /\ f[1] = 10
      /\ \A i \in 1 .. n : f[1 + i] = w[i]
  <2>1. f \in Seq(Octet) /\ Joins(f, << 10 >>, w)
    BY Zenon, <1>2, <1>4, Joined
  <2>2. QED
    BY <1>3, <1>4, <2>1 DEF Joins
<1> HIDE DEF f
<1>6. ASSUME NEW g \in Seq(Octet), Len(g) = 1 + n, \A i \in 1 .. 1 + n : g[i] = f[i]
      PROVE  Meaning(0, g) = q
  <2>1. g[1] = 10
    BY <1>5, <1>6
  <2>2. \A i \in 1 .. n : 1 + i \in 1 .. 1 + n
    OBVIOUS
  <2>3. \A i \in 1 .. n : g[1 + i] = w[i]
    BY <1>5, <1>6, <2>2
  <2>4. Rest(g, 1 + 1) = w
    <3>1. 1 \in Nat /\ Len(g) = 1 + Len(w) /\ \A i \in 1 .. Len(w) : g[1 + i] = w[i]
      BY <1>3, <1>6, <2>3
    <3>2. QED
      BY Zenon, <1>2, <1>6, <3>1, RestIs
  <2>5. Rest(g, 2) = w
    BY <2>4
  <2>6. QED
    BY <1>1, <2>1, <2>5 DEF Meaning
<1>7. Means(0, 1 + n, f, q)
  BY Zenon, <1>6 DEF Means
<1>8. 1 + n \in Nat /\ 1 <= 1 + n /\ 1 + n <= LongestField /\ 1 + n = Len(f)
  BY <1>2, <1>3, <1>5
<1>9. bytesOf(q, past) = packetOf(1 + n, 0, f)
  BY Zenon, <1>1, <1>3
<1>10. QED
  BY Zenon, <1>4, <1>5, <1>7, <1>8, <1>9, FieldCarries

\* The query that sets the gains.
LEMMA GainCarries ==
  ASSUME NEW q \in Queries, q.type = "GAIN", NEW past
  PROVE  Carried(q, past)
<1> DEFINE f == <<75, Byte(q.gainIn), Byte(q.gainOut)>>
<1>1. /\ q.gainIn \in GainLevels /\ q.gainOut \in GainLevels
      /\ q = [type |-> "GAIN", gainIn |-> q.gainIn, gainOut |-> q.gainOut]
      /\ bytesOf(q, past) = packetOf(3, 0, f)
  BY DEF Queries, bytesOf
<1>2. q.gainIn \in SignedChar /\ q.gainOut \in SignedChar
  BY Zenon, <1>1, StreamAssumption
<1>3. /\ Byte(q.gainIn) \in Octet /\ Signed(Byte(q.gainIn)) = q.gainIn
      /\ Byte(q.gainOut) \in Octet /\ Signed(Byte(q.gainOut)) = q.gainOut
  BY <1>2, SignedByte
<1>4. /\ f \in Seq(Octet) /\ Len(f) = 3 /\ 0 \in Octet
      /\ f[1] = 75 /\ f[2] = Byte(q.gainIn) /\ f[3] = Byte(q.gainOut)
  BY <1>3 DEF Octet
<1> HIDE DEF f
<1>5. ASSUME NEW g \in Seq(Octet), Len(g) = 3, \A i \in 1 .. 3 : g[i] = f[i]
      PROVE  Meaning(0, g) = q
  <2>1. g[1] = 75 /\ g[2] = Byte(q.gainIn) /\ g[3] = Byte(q.gainOut)
    BY <1>4, <1>5
  <2>2. QED
    BY <1>1, <1>3, <2>1 DEF Meaning
<1>6. Means(0, 3, f, q)
  BY Zenon, <1>5 DEF Means
<1>7. 3 \in Nat /\ 1 <= 3 /\ 3 <= LongestField /\ 3 = Len(f)
  BY <1>4 DEF LongestField
<1>8. bytesOf(q, past) = packetOf(3, 0, f) /\ 0 \in Octet /\ f \in Seq(Octet)
  BY Zenon, <1>1, <1>4
<1>9. QED
  BY Zenon, <1>6, <1>7, <1>8, FieldCarries

\* The number of bits of a frame fits into its byte at every rate.
LEMMA BitsAreOctet ==
  ASSUME NEW r \in Programmable
  PROVE  RateBits[r] \in Octet
BY SMT DEF Programmable, RateBits, Octet

\* What decode means is a frame of some rate and its number of bits.
LEMMA AmbeQuery ==
  ASSUME NEW q \in Queries, q.type = "AMBE"
  PROVE  \E b \in Octet, w \in MbeFrames : q = [type |-> "AMBE", bits |-> b, mbe |-> w]
<1>1. PICK r \in Programmable :
        q \in [type : {"AMBE"}, bits : {RateBits[r]},
              mbe : {m \in MbeFrames : Len(m) = RateBytes[r]}]
  BY DEF Queries
<1>2. q = [type |-> "AMBE", bits |-> RateBits[r], mbe |-> q.mbe] /\ q.mbe \in MbeFrames
  BY <1>1
<1>3. QED
  BY <1>2, BitsAreOctet

\* The query that decodes a frame.
LEMMA AmbeCarries ==
  ASSUME NEW q \in Queries, q.type = "AMBE", NEW past
  PROVE  Carried(q, past)
<1> DEFINE w == q.mbe
           f == <<1, q.bits>> \o w
<1>0. PICK b \in Octet : w \in MbeFrames /\ q = [type |-> "AMBE", bits |-> b, mbe |-> w]
  BY AmbeQuery
<1>1. /\ w \in MbeFrames /\ q.bits = b /\ q = [type |-> "AMBE", bits |-> b, mbe |-> w]
      /\ bytesOf(q, past) = packetOf(2 + Len(w), 1, f)
  BY <1>0 DEF bytesOf, decodeIn
<1> HIDE DEF w
<1>2. w \in Seq(Octet) /\ 2 + Len(w) <= LongestField
  BY Zenon, <1>1, StreamAssumption
<1>3. PICK n \in Nat : n = Len(w)
  BY <1>2, LenProperties
<1>4. << 1, b >> \in Seq(Octet) /\ Len(<< 1, b >>) = 2 /\ << 1, b >>[2] = b /\ 1 \in Octet
  BY DEF Octet
<1>5. /\ f \in Seq(Octet) /\ Len(f) = 2 + n /\ f[2] = b
      /\ \A i \in 1 .. n : f[2 + i] = w[i]
  <2>1. f \in Seq(Octet) /\ Joins(f, << 1, b >>, w)
    BY Zenon, <1>1, <1>2, <1>4, Joined
  <2>2. QED
    BY <1>3, <1>4, <2>1 DEF Joins
<1> HIDE DEF f
<1>6. ASSUME NEW g \in Seq(Octet), Len(g) = 2 + n, \A i \in 1 .. 2 + n : g[i] = f[i]
      PROVE  Meaning(1, g) = q
  <2>1. g[2] = b
    BY <1>5, <1>6
  <2>2. \A i \in 1 .. n : 2 + i \in 1 .. 2 + n
    OBVIOUS
  <2>3. \A i \in 1 .. n : g[2 + i] = w[i]
    BY <1>5, <1>6, <2>2
  <2>4. Rest(g, 2 + 1) = w
    <3>1. 2 \in Nat /\ Len(g) = 2 + Len(w) /\ \A i \in 1 .. Len(w) : g[2 + i] = w[i]
      BY <1>3, <1>6, <2>3
    <3>2. QED
      BY Zenon, <1>2, <1>6, <3>1, RestIs
  <2>5. Rest(g, 3) = w
    BY <2>4
  <2>6. QED
    BY <1>1, <2>1, <2>5 DEF Meaning
<1>7. Means(1, 2 + n, f, q)
  BY Zenon, <1>6 DEF Means
<1>8. 2 + n \in Nat /\ 1 <= 2 + n /\ 2 + n <= LongestField /\ 2 + n = Len(f)
  BY <1>2, <1>3, <1>5
<1>9. bytesOf(q, past) = packetOf(2 + n, 1, f)
  BY Zenon, <1>1, <1>3
<1>10. QED
  BY Zenon, <1>4, <1>5, <1>7, <1>8, <1>9, FieldCarries

\* A function on 1 .. n is a sequence of n elements.
LEMMA FunctionIsSeq ==
  ASSUME NEW n \in Nat, NEW S, NEW T, S \subseteq T, NEW z \in [1 .. n -> S]
  PROVE  z \in Seq(T) /\ Len(z) = n
<1>1. z \in [1 .. n -> T]
  OBVIOUS
<1>2. z \in Seq(T)
  BY <1>1, SeqDef
<1>3. Len(z) \in Nat /\ DOMAIN z = 1 .. Len(z) /\ DOMAIN z = 1 .. n
  BY <1>1, <1>2, LenProperties
<1>4. QED
  BY <1>2, <1>3

\* The bytes of samples, one by one.
LEMMA SampleBytes ==
  ASSUME NEW x \in Seq(Short)
  PROVE  /\ bytesOfSamples(x) \in Seq(Octet) /\ Len(bytesOfSamples(x)) = 2 * Len(x)
         /\ \A k \in 1 .. Len(x) :
              /\ bytesOfSamples(x)[2 * k - 1] = TwoBytes(x[k])[1]
              /\ bytesOfSamples(x)[2 * k] = TwoBytes(x[k])[2]
<1>1. PICK n \in Nat : n = Len(x)
  BY LenProperties
<1> DEFINE s == bytesOfSamples(x)
<1>2. s = [i \in 1 .. 2 * n |-> TwoBytes(x[(i + 1) \div 2])[1 + ((i + 1) % 2)]]
  BY <1>1 DEF bytesOfSamples
<1> HIDE DEF s
<1>3. ASSUME NEW k \in 1 .. n
      PROVE  TwoBytes(x[k])[1] \in Octet /\ TwoBytes(x[k])[2] \in Octet
  BY Zenon, <1>1, ElementOfSeq, SampleOfTwoBytes
<1>5. \A i \in 1 .. 2 * n :
        (i + 1) \div 2 \in 1 .. n /\ (1 + ((i + 1) % 2) = 1 \/ 1 + ((i + 1) % 2) = 2)
  OBVIOUS
<1>6. \A i \in 1 .. 2 * n : s[i] \in Octet
  BY <1>2, <1>3, <1>5
<1>7. s \in [1 .. 2 * n -> Octet] /\ 2 * n \in Nat
  BY <1>2, <1>6
<1>8. s \in Seq(Octet) /\ Len(s) = 2 * n
  BY <1>7, FunctionIsSeq
<1>9. ASSUME NEW k \in 1 .. n
      PROVE  s[2 * k - 1] = TwoBytes(x[k])[1] /\ s[2 * k] = TwoBytes(x[k])[2]
  <2>1. /\ 2 * k - 1 \in 1 .. 2 * n /\ ((2 * k - 1) + 1) \div 2 = k
        /\ 1 + (((2 * k - 1) + 1) % 2) = 1
        /\ 2 * k \in 1 .. 2 * n /\ (2 * k + 1) \div 2 = k /\ 1 + ((2 * k + 1) % 2) = 2
    OBVIOUS
  <2>2. QED
    BY <1>2, <2>1
<1>10. QED
  BY <1>1, <1>8, <1>9 DEF s

\* Samples that were made of bytes are made of bytes again.
LEMMA SamplesAgain ==
  ASSUME NEW n \in Nat, NEW S, S \subseteq Short, NEW z \in [1 .. n -> S],
         NEW g \in Seq(Octet), Len(g) = 2 * n,
         \A k \in 1 .. n : g[2 * k - 1] = TwoBytes(z[k])[1] /\ g[2 * k] = TwoBytes(z[k])[2]
  PROVE  SamplesOf(g) = z
<1>1. (2 * n) \div 2 = n
  OBVIOUS
<1>2. SamplesOf(g) = [i \in 1 .. n |-> Signed(g[2 * i - 1]) * 256 + g[2 * i]]
  BY <1>1 DEF SamplesOf
<1>3. ASSUME NEW i \in 1 .. n
      PROVE  Signed(g[2 * i - 1]) * 256 + g[2 * i] = z[i]
  <2>1. z[i] \in Short
    OBVIOUS
  <2>2. QED
    BY <2>1, SampleOfTwoBytes
<1>4. QED
  BY <1>2, <1>3

\* The surplus samples are those of the caller's memory.
LEMMA SurplusIsNat == Surplus \in Nat /\ Surplus = MBE_AUDIO_BLOCK_SIZE_INTERNAL - MBE_AUDIO_BLOCK_SIZE
BY StreamAssumption DEF Surplus, Octet

\* The query that encodes a frame: what its header counts are the samples of the frame.
LEMMA AudioCarries ==
  ASSUME NEW q \in Queries, q.type = "AUDIO", NEW past \in [1 .. Surplus -> Past]
  PROVE  Carried(q, past)
<1>1. PICK m \in Nat, d \in Nat : m = MBE_AUDIO_BLOCK_SIZE /\ d = Surplus /\ m <= 255
  BY SurplusIsNat, StreamAssumption DEF Octet
<1> DEFINE z == q.samples
           x == z \o past
           s == bytesOfSamples(x)
           f == <<0, m>> \o s
<1>2. /\ z \in [1 .. m -> Samples] /\ q = [type |-> "AUDIO", samples |-> z]
      /\ bytesOf(q, past) = packetOf(2 + 2 * m, 2, f)
  BY <1>1 DEF Queries, bytesOf, encodeIn
<1> HIDE DEF z
<1>3. /\ Samples \subseteq Short /\ Past \subseteq Short
  BY Zenon, StreamAssumption
<1>4. /\ z \in Seq(Short) /\ Len(z) = m /\ past \in Seq(Short) /\ Len(past) = d
  BY <1>1, <1>2, <1>3, FunctionIsSeq
<1>5. /\ x \in Seq(Short) /\ Len(x) = m + d
      /\ \A i \in 1 .. m : x[i] = z[i]
      /\ \A i \in 1 .. d : x[m + i] = past[i]
  <2>1. x \in Seq(Short) /\ Joins(x, z, past)
    BY Zenon, <1>4, Joined
  <2>2. QED
    BY <1>4, <2>1 DEF Joins
<1> HIDE DEF x
<1>6. /\ s \in Seq(Octet) /\ Len(s) = 2 * (m + d)
      /\ \A k \in 1 .. m + d : s[2 * k - 1] = TwoBytes(x[k])[1] /\ s[2 * k] = TwoBytes(x[k])[2]
  <2>1. /\ s \in Seq(Octet) /\ Len(s) = 2 * Len(x)
        /\ \A k \in 1 .. Len(x) :
             s[2 * k - 1] = TwoBytes(x[k])[1] /\ s[2 * k] = TwoBytes(x[k])[2]
    BY Zenon, <1>5, SampleBytes
  <2>2. QED
    BY Zenon, <1>5, <2>1
<1> HIDE DEF s
<1>7. /\ <<0, m>> \in Seq(Octet) /\ Len(<<0, m>>) = 2 /\ 2 \in Octet
  BY <1>1 DEF Octet
<1>8. /\ f \in Seq(Octet) /\ Len(f) = 2 + 2 * (m + d)
      /\ \A i \in 1 .. 2 * (m + d) : f[2 + i] = s[i]
  <2>1. f \in Seq(Octet) /\ Joins(f, <<0, m>>, s)
    BY Zenon, <1>6, <1>7, Joined
  <2>2. QED
    BY <1>6, <1>7, <2>1 DEF Joins
<1> HIDE DEF f
<1>9. ASSUME NEW g \in Seq(Octet), Len(g) = 2 + 2 * m,
             \A i \in 1 .. 2 + 2 * m : g[i] = f[i]
      PROVE  Meaning(2, g) = q
  <2> DEFINE t == SubSeq(g, 2 + 1, 2 + 2 * m)
  <2>1. /\ t \in Seq(Octet) /\ Len(t) = 2 * m /\ \A i \in 1 .. 2 * m : t[i] = g[2 + i]
    BY <1>9, Between
  <2>2. Rest(g, 3) = t
    BY <1>9 DEF Rest
  <2> HIDE DEF t
  <2>3. ASSUME NEW k \in 1 .. m
        PROVE  t[2 * k - 1] = TwoBytes(z[k])[1] /\ t[2 * k] = TwoBytes(z[k])[2]
    <3>1. k \in 1 .. m + d /\ x[k] = z[k]
      BY <1>5
    <3>2. \A j \in {2 * k - 1, 2 * k} :
            j \in 1 .. 2 * m /\ j \in 1 .. 2 * (m + d) /\ 2 + j \in 1 .. 2 + 2 * m
      OBVIOUS
    <3>3. \A j \in {2 * k - 1, 2 * k} : t[j] = s[j]
      BY <1>8, <1>9, <2>1, <3>2
    <3>4. QED
      BY <1>6, <3>1, <3>3
  <2>4. SamplesOf(t) = z
    BY Zenon, <1>2, <1>3, <2>1, <2>3, SamplesAgain
  <2>5. QED
    BY <1>2, <2>2, <2>4 DEF Meaning
<1>10. Means(2, 2 + 2 * m, f, q)
  BY Zenon, <1>9 DEF Means
<1>11. ASSUME ~StartsIn(q, past)
       PROVE  Quiet(f, 2 + 2 * m, Len(f))
  <2>1. ASSUME NEW i \in 1 .. d
        PROVE  /\ TwoBytes(past[i])[1] # DV3000_START_BYTE
               /\ TwoBytes(past[i])[2] # DV3000_START_BYTE
    <3>1. DOMAIN past = 1 .. d
      BY <1>1
    <3>2. DV3000_START_BYTE \notin Range(TwoBytes(past[i]))
      BY <1>11, <3>1 DEF StartsIn
    <3>3. \A a, b : a \in Range(<<a, b>>) /\ b \in Range(<<a, b>>)
      BY DEF Range
    <3>4. QED
      BY <3>2, <3>3 DEF TwoBytes
  <2>2. ASSUME NEW p \in 2 + 2 * m + 1 .. Len(f)
        PROVE  f[p] # DV3000_START_BYTE
    <3>1. PICK k \in 1 .. d : p = 2 + (2 * (m + k) - 1) \/ p = 2 + 2 * (m + k)
      <4>1. PICK h \in Int : p = 2 * h + 1 \/ p = 2 * h + 2
        <5>1. p \in Int /\ (p = 2 * ((p - 1) \div 2) + 1 \/ p = 2 * ((p - 1) \div 2) + 2)
          BY <1>8
        <5>2. QED
          BY <5>1
      <4>2. p >= 2 + 2 * m + 1 /\ p <= 2 + 2 * (m + d)
        BY <1>8
      <4>3. PICK k \in Int : k = h - m
        OBVIOUS
      <4>4. k \in 1 .. d /\ (p = 2 + (2 * (m + k) - 1) \/ p = 2 + 2 * (m + k))
        BY <4>1, <4>2, <4>3
      <4>5. QED
        BY <4>4
    <3>2. /\ m + k \in 1 .. m + d /\ x[m + k] = past[k]
          /\ 2 * (m + k) - 1 \in 1 .. 2 * (m + d) /\ 2 * (m + k) \in 1 .. 2 * (m + d)
      BY <1>5
    <3>3. /\ f[2 + (2 * (m + k) - 1)] = TwoBytes(past[k])[1]
          /\ f[2 + 2 * (m + k)] = TwoBytes(past[k])[2]
      BY <1>6, <1>8, <3>2
    <3>4. QED
      BY <2>1, <3>1, <3>3
  <2>3. QED
    BY Zenon, <2>2 DEF Quiet
<1>12. /\ 2 + 2 * m \in Nat /\ 1 <= 2 + 2 * m /\ 2 + 2 * m <= LongestField
       /\ 2 + 2 * m <= Len(f)
  BY <1>1, <1>8 DEF LongestField
<1>13. f \in Seq(Octet) /\ 2 \in Octet
  BY <1>7, <1>8
<1>14. QED
  BY Zenon, <1>2, <1>10, <1>11, <1>12, <1>13, PacketCarries DEF Carried
-----------------------------------------------------------------------------
(***************************************************************************)
(* The stream.  The operators have the state in their parameters: p is the *)
(* packet that the chip receives, o the output queue, t what is still to   *)
(* write, u what is understood and qs what was issued.                     *)
(***************************************************************************)

\* The bytes of s are those of w that follow the place a.
Piece(s, w, a) == \A i \in 1 .. Len(s) : s[i] = w[a + i]

\* The query k of qs ends with the byte ends[k] of w.
Stream(w, ends, qs) ==
  /\ ends[0] = 0 /\ ends[Len(qs)] = Len(w)
  /\ \A k \in 1 .. Len(qs) : Carries(w, ends[k - 1], ends[k], qs[k])
  /\ \A j, k \in 0 .. Len(qs) : j < k => ends[j] < ends[k]

\* The bytes behind the first m of w: received, in the queue, still to write.
At(w, m, p, o, t) ==
  /\ Len(w) = ((m + Len(p)) + Len(o)) + Len(t)
  /\ Piece(p, w, m) /\ Piece(o, w, m + Len(p)) /\ Piece(t, w, (m + Len(p)) + Len(o))

\* The chip has understood the first queries of qs.  It has received a part of the
\* packet of the next one, or there is no start byte before that packet begins.
Understands(w, ends, m, p, u, qs) ==
  /\ Len(u) <= Len(qs) /\ \A i \in 1 .. Len(u) : u[i] = qs[i]
  /\ m <= ends[Len(u)] /\ Quiet(w, m, ends[Len(u)])
  /\ p # <<>> => m = ends[Len(u)] /\ Len(u) < Len(qs) /\ Len(p) < CoreLength(w, m)

\* The queries are on their way in the stream w, and the chip has done with m bytes.
Follows(w, m, ends, p, o, t, u, qs) ==
  /\ w \in Seq(Octet) /\ m \in Nat /\ ends \in [0 .. Len(qs) -> Nat]
  /\ p \in Seq(Octet) /\ o \in Seq(Octet) /\ t \in Seq(Octet)
  /\ u \in Seq(Queries) /\ qs \in Seq(Queries)
  /\ Stream(w, ends, qs) /\ At(w, m, p, o, t) /\ Understands(w, ends, m, p, u, qs)

Tracks(p, o, t, u, qs) == \E w, m, ends : Follows(w, m, ends, p, o, t, u, qs)

\* A packet that is in another sequence, d bytes further on, carries the same.
LEMMA Moved ==
  ASSUME NEW w, NEW v, NEW d \in Nat, NEW a \in Nat, NEW e \in Nat, NEW q,
         Carries(w, a, e, q), \A i \in a + 1 .. e : v[d + i] = w[i]
  PROVE  Carries(v, d + a, d + e, q)
<1>1. PICK c \in Nat : c = CoreLength(w, a) /\ c >= 5 /\ a + c <= e
  BY DEF Carries
<1>2. \A i \in 1 .. c : v[(d + a) + i] = w[a + i]
  <2>1. \A i \in 1 .. c : a + i \in a + 1 .. e /\ (d + a) + i = d + (a + i)
    BY <1>1
  <2>2. QED
    BY <2>1
<1>3. 1 \in 1 .. c /\ 2 \in 1 .. c /\ 3 \in 1 .. c /\ 4 \in 1 .. c
  BY <1>1
<1>4. CoreLength(v, d + a) = c
  BY <1>1, <1>2, <1>3 DEF CoreLength
<1>5. v[(d + a) + 1] = DV3000_START_BYTE /\ v[(d + a) + 4] = w[a + 4]
  BY <1>2, <1>3 DEF Carries
<1>6. Means(v[(d + a) + 4], c - 4,
            [i \in 1 .. (d + e) - ((d + a) + 4) |-> v[(d + a) + (4 + i)]], q)
  <2> DEFINE f == [i \in 1 .. e - (a + 4) |-> w[a + (4 + i)]]
             g == [i \in 1 .. (d + e) - ((d + a) + 4) |-> v[(d + a) + (4 + i)]]
  <2>1. \A i \in 1 .. c - 4 : /\ i \in 1 .. e - (a + 4) /\ 4 + i \in 1 .. c
                              /\ i \in 1 .. (d + e) - ((d + a) + 4)
    BY <1>1
  <2>2. \A i \in 1 .. c - 4 : g[i] = f[i]
    BY <1>2, <2>1
  <2>3. Means(w[a + 4], c - 4, f, q)
    BY <1>1 DEF Carries
  <2> HIDE DEF f, g
  <2>4. Means(w[a + 4], c - 4, g, q)
    BY Zenon, <2>2, <2>3 DEF Means
  <2>5. QED
    BY Zenon, <1>5, <2>4 DEF g
<1>7. ASSUME NEW i \in ((d + a) + c) + 1 .. d + e
      PROVE  v[i] # DV3000_START_BYTE
  <2>1. i - d \in (a + c) + 1 .. e /\ i - d \in a + 1 .. e /\ d + (i - d) = i
    BY <1>1
  <2>2. \A j \in (a + c) + 1 .. e : w[j] # DV3000_START_BYTE
    BY <1>1 DEF Carries, Quiet
  <2>3. v[d + (i - d)] = w[i - d]
    BY <2>1
  <2>4. QED
    BY <2>1, <2>2, <2>3
<1>8. Quiet(v, (d + a) + c, d + e)
  BY Zenon, <1>7 DEF Quiet
<1>9. (d + a) + c <= d + e
  BY <1>1
<1>10. QED
  BY Zenon, <1>1, <1>4, <1>5, <1>6, <1>8, <1>9 DEF Carries

\* Two pieces that follow each other are a piece when they are joined.
LEMMA JoinedPiece ==
  ASSUME NEW w, NEW a \in Nat, NEW s \in Seq(Octet), NEW t \in Seq(Octet),
         Piece(s, w, a), Piece(t, w, a + Len(s))
  PROVE  /\ s \o t \in Seq(Octet) /\ Len(s \o t) = Len(s) + Len(t) /\ Piece(s \o t, w, a)
<1>1. PICK m \in Nat, n \in Nat : m = Len(s) /\ n = Len(t)
  BY LenProperties
<1> DEFINE b == s \o t
<1>2. b \in Seq(Octet) /\ Joins(b, s, t)
  BY Zenon, Joined
<1> HIDE DEF b
<1>3. Len(b) = m + n
  BY <1>1, <1>2 DEF Joins
<1>4. ASSUME NEW i \in 1 .. m + n
      PROVE  b[i] = w[a + i]
  <2>1. CASE i <= m
    BY <1>1, <1>2, <2>1 DEF Joins, Piece
  <2>2. CASE i > m
    <3>1. i - m \in 1 .. n /\ m + (i - m) = i /\ (a + m) + (i - m) = a + i
      BY <2>2
    <3>2. b[m + (i - m)] = t[i - m] /\ t[i - m] = w[(a + m) + (i - m)]
      BY <1>1, <1>2, <3>1 DEF Joins, Piece
    <3>3. QED
      BY <3>1, <3>2
  <2>3. QED
    BY <2>1, <2>2
<1>5. Piece(b, w, a)
  BY <1>3, <1>4 DEF Piece
<1>6. QED
  BY <1>1, <1>2, <1>3, <1>5 DEF b

\* A piece that is cut in two.
LEMMA CutPiece ==
  ASSUME NEW w, NEW a \in Nat, NEW t \in Seq(Octet), NEW n \in 1 .. Len(t), Piece(t, w, a)
  PROVE  /\ SubSeq(t, 1, n) \in Seq(Octet) /\ Len(SubSeq(t, 1, n)) = n
         /\ Piece(SubSeq(t, 1, n), w, a)
         /\ SubSeq(t, n + 1, Len(t)) \in Seq(Octet)
         /\ Len(SubSeq(t, n + 1, Len(t))) = Len(t) - n
         /\ Piece(SubSeq(t, n + 1, Len(t)), w, a + n)
<1>1. PICK l \in Nat, r \in Nat : l = Len(t) /\ l = n + r
  <2>1. Len(t) \in Nat /\ Len(t) - n \in Nat /\ Len(t) = n + (Len(t) - n)
    BY LenProperties
  <2>2. QED
    BY <2>1
<1>2. n \in Nat /\ 0 + n <= Len(t) /\ n + r <= Len(t)
  BY <1>1
<1> DEFINE f == SubSeq(t, 1, n)
           g == SubSeq(t, n + 1, Len(t))
<1>3. f \in Seq(Octet) /\ Len(f) = n /\ \A i \in 1 .. n : f[i] = t[i]
  <2>1. f = SubSeq(t, 0 + 1, 0 + n) /\ \A i \in 1 .. n : 0 + i = i
    BY <1>2
  <2>2. QED
    BY <1>2, <2>1, Between
<1>4. g \in Seq(Octet) /\ Len(g) = r /\ \A i \in 1 .. r : g[i] = t[n + i]
  <2>1. g = SubSeq(t, n + 1, n + r)
    BY <1>1
  <2>2. QED
    BY <1>2, <2>1, Between
<1> HIDE DEF f, g
<1>5. \A i \in 1 .. n : f[i] = w[a + i]
  <2>1. \A i \in 1 .. n : i \in 1 .. Len(t)
    BY <1>1
  <2>2. QED
    BY <1>3, <2>1 DEF Piece
<1>6. Piece(f, w, a)
  BY Zenon, <1>3, <1>5 DEF Piece
<1>7. ASSUME NEW i \in 1 .. r
      PROVE  g[i] = w[(a + n) + i]
  <2>1. n + i \in 1 .. l /\ a + (n + i) = (a + n) + i
    BY <1>1
  <2>2. t[n + i] = w[a + (n + i)]
    BY <1>1, <2>1 DEF Piece
  <2>3. QED
    BY <1>4, <2>1, <2>2
<1>8. Piece(g, w, a + n)
  BY Zenon, <1>4, <1>7 DEF Piece
<1>9. r = Len(t) - n
  BY <1>1
<1>10. QED
  BY Zenon, <1>3, <1>4, <1>6, <1>8, <1>9 DEF f, g

\* The loop of write moves bytes to the queue.
LEMMA WrittenTracks ==
  ASSUME NEW p, NEW o, NEW t, NEW u, NEW qs, Tracks(p, o, t, u, qs), NEW n \in 1 .. Len(t)
  PROVE  Tracks(p, o \o SubSeq(t, 1, n), SubSeq(t, n + 1, Len(t)), u, qs)
<1>1. p \in Seq(Octet) /\ o \in Seq(Octet) /\ t \in Seq(Octet)
  BY Zenon DEF Tracks, Follows
<1>2. PICK w \in Seq(Octet), m \in Nat, ends \in [0 .. Len(qs) -> Nat] :
        Stream(w, ends, qs) /\ At(w, m, p, o, t) /\ Understands(w, ends, m, p, u, qs)
  BY Zenon DEF Tracks, Follows
<1> DEFINE f == SubSeq(t, 1, n)
           g == SubSeq(t, n + 1, Len(t))
<1>3. PICK x \in Nat, y \in Nat : x = m + Len(p) /\ y = x + Len(o)
  BY <1>1, LenProperties
<1>4. Piece(o, w, x) /\ Piece(t, w, y) /\ Len(w) = y + Len(t) /\ Piece(p, w, m)
  BY <1>2, <1>3 DEF At
<1>5. /\ f \in Seq(Octet) /\ Len(f) = n /\ Piece(f, w, y)
      /\ g \in Seq(Octet) /\ Len(g) = Len(t) - n /\ Piece(g, w, y + n)
  <2>1. \A k \in 1 .. Len(t) :
          /\ SubSeq(t, 1, k) \in Seq(Octet) /\ Len(SubSeq(t, 1, k)) = k
          /\ Piece(SubSeq(t, 1, k), w, y)
          /\ SubSeq(t, k + 1, Len(t)) \in Seq(Octet)
          /\ Len(SubSeq(t, k + 1, Len(t))) = Len(t) - k
          /\ Piece(SubSeq(t, k + 1, Len(t)), w, y + k)
    BY Zenon, <1>1, <1>4, CutPiece
  <2>2. QED
    BY Zenon, <2>1
<1> HIDE DEF f, g
<1>6. o \o f \in Seq(Octet) /\ Len(o \o f) = Len(o) + Len(f) /\ Piece(o \o f, w, x)
  <2>1. Piece(f, w, x + Len(o))
    BY <1>3, <1>5
  <2>2. QED
    BY Zenon, <1>1, <1>4, <1>5, <2>1, JoinedPiece
<1>7. Len(o) + Len(f) = Len(o) + n /\ y + n = x + (Len(o) + n)
      /\ Len(w) = (x + (Len(o) + n)) + (Len(t) - n)
  BY <1>1, <1>3, <1>4, <1>5, LenProperties
<1>8. At(w, m, p, o \o f, g)
  BY Zenon, <1>3, <1>4, <1>5, <1>6, <1>7 DEF At
<1>9. Tracks(p, o \o f, g, u, qs)
  <2>1. u \in Seq(Queries) /\ qs \in Seq(Queries)
    BY Zenon DEF Tracks, Follows
  <2>2. QED
    BY Zenon, <1>1, <1>2, <1>5, <1>6, <1>8, <2>1 DEF Tracks, Follows
<1>10. QED
  BY Zenon, <1>9 DEF f, g

\* All queries end within the stream.
LEMMA EndsWithin ==
  ASSUME NEW w \in Seq(Octet), NEW qs \in Seq(Queries), NEW ends \in [0 .. Len(qs) -> Nat],
         Stream(w, ends, qs), NEW k \in 0 .. Len(qs)
  PROVE  ends[k] \in Nat /\ ends[k] <= Len(w)
<1>1. PICK n \in Nat : n = Len(qs)
  BY LenProperties
<1>2. k \in 0 .. n /\ n \in 0 .. n /\ (k = n \/ k < n)
  BY <1>1
<1>3. ends[k] \in Nat /\ ends[n] \in Nat /\ ends[n] = Len(w)
  BY <1>1, <1>2 DEF Stream
<1>4. k < n => ends[k] < ends[n]
  BY Zenon, <1>1, <1>2 DEF Stream
<1>5. QED
  BY <1>2, <1>3, <1>4

\* The packet of the query that follows the first j.
LEMMA NextPacket ==
  ASSUME NEW w \in Seq(Octet), NEW qs \in Seq(Queries), NEW ends \in [0 .. Len(qs) -> Nat],
         Stream(w, ends, qs), NEW j \in Nat, j < Len(qs)
  PROVE  /\ ends[j] \in Nat /\ ends[j + 1] \in Nat /\ ends[j + 1] <= Len(w)
         /\ Carries(w, ends[j], ends[j + 1], qs[j + 1])
         /\ CoreLength(w, ends[j]) \in Nat /\ CoreLength(w, ends[j]) >= 5
         /\ ends[j] + CoreLength(w, ends[j]) <= ends[j + 1]
         /\ j \in 0 .. Len(qs) /\ j + 1 \in 0 .. Len(qs) /\ j + 1 \in 1 .. Len(qs)
<1>1. PICK n \in Nat : n = Len(qs)
  BY LenProperties
<1>2. /\ j \in 0 .. Len(qs) /\ j + 1 \in 0 .. Len(qs) /\ j + 1 \in 1 .. Len(qs)
      /\ (j + 1) - 1 = j
  BY <1>1
<1>3. ends[j] \in Nat /\ ends[j + 1] \in Nat /\ ends[j + 1] <= Len(w)
  BY Zenon, <1>2, EndsWithin
<1>4. Carries(w, ends[(j + 1) - 1], ends[j + 1], qs[j + 1])
  BY Zenon, <1>2 DEF Stream
<1>5. Carries(w, ends[j], ends[j + 1], qs[j + 1])
  BY Zenon, <1>2, <1>4
<1>6. QED
  BY Zenon, <1>2, <1>3, <1>5 DEF Carries

\* A query is issued when the last one is written: its bytes make the stream longer.
LEMMA IssuedTracks ==
  ASSUME NEW p, NEW o, NEW u, NEW qs, Tracks(p, o, <<>>, u, qs), NEW q \in Queries,
         NEW b \in Seq(Octet), b # <<>>, Carries(b, 0, Len(b), q)
  PROVE  Tracks(p, o, b, u, Append(qs, q))
<1>1. /\ p \in Seq(Octet) /\ o \in Seq(Octet) /\ <<>> \in Seq(Octet)
      /\ u \in Seq(Queries) /\ qs \in Seq(Queries)
  BY Zenon DEF Tracks, Follows
<1>2. PICK w \in Seq(Octet), m \in Nat, ends \in [0 .. Len(qs) -> Nat] :
        Stream(w, ends, qs) /\ At(w, m, p, o, <<>>) /\ Understands(w, ends, m, p, u, qs)
  BY Zenon DEF Tracks, Follows
<1>3. PICK l \in Nat, c \in Nat, n \in Nat, j \in Nat :
        l = Len(w) /\ c = Len(b) /\ n = Len(qs) /\ j = Len(u)
  BY <1>1, LenProperties
<1>4. c >= 1
  BY <1>3
<1> DEFINE v == w \o b
           r == Append(qs, q)
           ends2 == [k \in 0 .. n + 1 |-> IF k <= n THEN ends[k] ELSE l + c]
<1>5. v \in Seq(Octet) /\ Joins(v, w, b)
  BY Zenon, Joined
<1> HIDE DEF v
<1>6. /\ Len(v) = l + c
      /\ \A i \in 1 .. l : v[i] = w[i]
      /\ \A i \in 1 .. c : v[l + i] = b[i]
  BY <1>3, <1>5 DEF Joins
<1>7. /\ r \in Seq(Queries) /\ Len(r) = n + 1 /\ r[n + 1] = q
      /\ \A k \in 1 .. n : r[k] = qs[k]
  BY <1>1, <1>3, AppendProperties
<1> HIDE DEF r
<1>8. /\ ends[0] = 0 /\ ends[n] = l /\ \A k \in 0 .. n : ends[k] \in Nat
      /\ \A i, k \in 0 .. n : i < k => ends[i] < ends[k]
      /\ \A k \in 1 .. n : Carries(w, ends[k - 1], ends[k], qs[k])
  BY <1>2, <1>3 DEF Stream
<1>9. ASSUME NEW k \in 0 .. n PROVE ends[k] \in Nat /\ ends[k] <= l
  BY Zenon, <1>1, <1>2, <1>3, EndsWithin
<1>10. /\ ends2 \in [0 .. n + 1 -> Nat] /\ ends2[n + 1] = l + c
       /\ \A k \in 0 .. n : ends2[k] = ends[k]
  BY <1>3, <1>8
<1> HIDE DEF ends2
<1>11. ASSUME NEW k \in 1 .. n
       PROVE  Carries(v, ends2[k - 1], ends2[k], r[k])
  <2>1. k \in 0 .. n /\ k - 1 \in 0 .. n
    BY <1>3
  <2>2. PICK x \in Nat, y \in Nat : x = ends[k - 1] /\ y = ends[k] /\ y <= l
    <3>1. ends[k - 1] \in Nat /\ ends[k] \in Nat /\ ends[k] <= l
      BY Zenon, <1>9, <2>1
    <3>2. QED
      BY Zenon, <3>1
  <2>3. \A i \in x + 1 .. y : v[0 + i] = w[i]
    <3>1. y <= l
      BY <2>2
    <3>2. ASSUME NEW i \in x + 1 .. y PROVE i \in 1 .. l /\ 0 + i = i
      BY <3>1
    <3>3. QED
      BY <1>6, <3>2
  <2>4. Carries(w, x, y, qs[k]) /\ 0 \in Nat
    BY <1>8, <2>2
  <2>5. Carries(v, 0 + x, 0 + y, qs[k])
    BY Zenon, <2>3, <2>4, Moved
  <2>6. 0 + x = x /\ 0 + y = y
    OBVIOUS
  <2>7. Carries(v, x, y, qs[k])
    BY <2>5, <2>6
  <2>8. ends2[k - 1] = x /\ ends2[k] = y /\ r[k] = qs[k]
    BY <1>7, <1>10, <2>1, <2>2
  <2>9. QED
    BY <2>7, <2>8
<1>12. Carries(v, ends2[(n + 1) - 1], ends2[n + 1], r[n + 1])
  <2>1. \A i \in 0 + 1 .. c : v[l + i] = b[i]
    BY <1>6
  <2>2. Carries(b, 0, c, q) /\ 0 \in Nat
    BY <1>3
  <2>3. Carries(v, l + 0, l + c, q)
    BY Zenon, <2>1, <2>2, Moved
  <2>4. l + 0 = l /\ (n + 1) - 1 = n /\ ends2[n] = l
    BY <1>8, <1>10
  <2>5. QED
    BY Zenon, <1>7, <1>10, <2>3, <2>4
<1>13. Stream(v, ends2, r)
  <2>1. \A k \in 1 .. n + 1 : k \in 1 .. n \/ k = n + 1
    OBVIOUS
  <2>2. \A k \in 1 .. n + 1 : Carries(v, ends2[k - 1], ends2[k], r[k])
    BY Zenon, <1>11, <1>12, <2>1
  <2>3. \A i, k \in 0 .. n + 1 : i < k => ends2[i] < ends2[k]
    <3>1. \A k \in 0 .. n + 1 : k \in 0 .. n \/ k = n + 1
      OBVIOUS
    <3>2. ASSUME NEW i \in 0 .. n + 1, NEW k \in 0 .. n + 1, i < k
          PROVE  ends2[i] < ends2[k]
      <4>1. CASE k \in 0 .. n
        <5>1. i \in 0 .. n
          BY <3>2, <4>1
        <5>2. QED
          BY <1>8, <1>10, <3>2, <4>1, <5>1
      <4>2. CASE k = n + 1
        <5>1. i \in 0 .. n
          BY <3>2, <4>2
        <5>2. ends[i] \in Nat /\ ends[i] <= l
          BY Zenon, <1>9, <5>1
        <5>3. QED
          BY <1>4, <1>10, <4>2, <5>1, <5>2
      <4>3. QED
        BY <3>1, <4>1, <4>2
    <3>3. QED
      BY Zenon, <3>2
  <2>4. ends2[0] = 0 /\ ends2[n + 1] = Len(v)
    BY <1>6, <1>8, <1>10
  <2>5. QED
    BY Zenon, <1>7, <2>2, <2>3, <2>4 DEF Stream
<1>14. At(v, m, p, o, b)
  <2>1. PICK x \in Nat, y \in Nat : x = Len(p) /\ y = Len(o)
    BY <1>1, LenProperties
  <2>2. l = (m + x) + y /\ Piece(p, w, m) /\ Piece(o, w, m + x)
    BY <1>2, <1>3, <2>1 DEF At
  <2>3. \A i \in 1 .. x : m + i \in 1 .. l
    BY <2>2
  <2>4. \A i \in 1 .. y : (m + x) + i \in 1 .. l
    BY <2>2
  <2>5. Piece(p, v, m) /\ Piece(o, v, m + x) /\ Piece(b, v, (m + x) + y)
    BY <1>3, <1>6, <2>1, <2>2, <2>3, <2>4 DEF Piece
  <2>6. Len(v) = ((m + x) + y) + Len(b)
    BY <1>3, <1>6, <2>2
  <2>7. QED
    BY Zenon, <2>1, <2>5, <2>6 DEF At
<1>15. Understands(v, ends2, m, p, u, r)
  <2>1. /\ j <= n /\ \A i \in 1 .. j : u[i] = qs[i]
        /\ m <= ends[j] /\ Quiet(w, m, ends[j])
        /\ p # <<>> => m = ends[j] /\ j < n /\ Len(p) < CoreLength(w, m)
    BY <1>2, <1>3 DEF Understands
  <2>2. j \in 0 .. n /\ ends2[j] = ends[j] /\ ends[j] \in Nat /\ ends[j] <= l
    BY <1>3, <1>8, <1>9, <1>10, <2>1
  <2>3. j <= n + 1 /\ \A i \in 1 .. j : u[i] = r[i]
    BY <1>7, <2>1
  <2>4. Quiet(v, m, ends[j])
    BY <1>6, <2>1, <2>2 DEF Quiet
  <2>5. ASSUME p # <<>>
        PROVE  j < n + 1 /\ CoreLength(v, m) = CoreLength(w, m)
    <3>1. m = ends[j] /\ j < n
      BY <2>1, <2>5
    <3>2. /\ ends[j + 1] \in Nat /\ ends[j + 1] <= Len(w)
          /\ CoreLength(w, ends[j]) \in Nat /\ CoreLength(w, ends[j]) >= 5
          /\ ends[j] + CoreLength(w, ends[j]) <= ends[j + 1]
      BY Zenon, <1>1, <1>2, <1>3, <3>1, NextPacket
    <3>3. m + 5 <= l
      BY <1>3, <3>1, <3>2
    <3>4. m + 2 \in 1 .. l /\ m + 3 \in 1 .. l
      BY <3>3
    <3>5. v[m + 2] = w[m + 2] /\ v[m + 3] = w[m + 3]
      BY <1>6, <3>4
    <3>6. CoreLength(v, m) = CoreLength(w, m)
      BY <3>5 DEF CoreLength
    <3>7. QED
      BY <3>1, <3>6
  <2>6. QED
    BY Zenon, <1>3, <1>7, <2>1, <2>2, <2>3, <2>4, <2>5 DEF Understands
<1>16. Tracks(p, o, b, u, r)
  <2>1. ends2 \in [0 .. Len(r) -> Nat]
    BY Zenon, <1>7, <1>10
  <2>2. QED
    BY Zenon, <1>1, <1>5, <1>7, <1>13, <1>14, <1>15, <2>1 DEF Tracks, Follows
<1>17. QED
  BY Zenon, <1>16 DEF r

\* The chip takes the first byte of the queue.
LEMMA ByteTaken ==
  ASSUME NEW w \in Seq(Octet), NEW m \in Nat, NEW p \in Seq(Octet), NEW o \in Seq(Octet),
         o # <<>>, NEW t \in Seq(Octet), At(w, m, p, o, t)
  PROVE  /\ Head(o) = w[m + (Len(p) + 1)] /\ m + Len(p) < Len(w)
         /\ Append(p, Head(o)) \in Seq(Octet) /\ Len(Append(p, Head(o))) = Len(p) + 1
         /\ Tail(o) \in Seq(Octet)
         /\ At(w, m, Append(p, Head(o)), Tail(o), t)
<1>1. PICK a \in Nat, b \in Nat, c \in Nat : a = Len(p) /\ b = Len(o) /\ c = Len(t)
  BY LenProperties
<1> DEFINE h == Head(o)
           r == Tail(o)
           s == Append(p, h)
<1>2. /\ h \in Octet /\ h = o[1] /\ b >= 1
      /\ r \in Seq(Octet) /\ Len(r) = b - 1 /\ \A i \in 1 .. b - 1 : r[i] = o[i + 1]
  BY <1>1, HeadTailProperties
<1> HIDE DEF h, r
<1>3. /\ s \in Seq(Octet) /\ Len(s) = a + 1 /\ s[a + 1] = h
      /\ \A i \in 1 .. a : s[i] = p[i]
  BY <1>1, <1>2, AppendProperties
<1> HIDE DEF s
<1>4. /\ Len(w) = ((m + a) + b) + c
      /\ \A i \in 1 .. a : p[i] = w[m + i]
      /\ \A i \in 1 .. b : o[i] = w[(m + a) + i]
      /\ \A i \in 1 .. c : t[i] = w[((m + a) + b) + i]
  BY <1>1 DEF At, Piece
<1>5. h = w[m + (a + 1)]
  <2>1. 1 \in 1 .. b /\ (m + a) + 1 = m + (a + 1)
    BY <1>2
  <2>2. QED
    BY <1>2, <1>4, <2>1
<1>6. Piece(s, w, m)
  <2>1. \A i \in 1 .. a + 1 : i \in 1 .. a \/ i = a + 1
    OBVIOUS
  <2>2. \A i \in 1 .. a + 1 : s[i] = w[m + i]
    BY <1>3, <1>4, <1>5, <2>1
  <2>3. QED
    BY Zenon, <1>3, <2>2 DEF Piece
<1>7. Piece(r, w, m + (a + 1))
  <2>1. \A i \in 1 .. b - 1 : i + 1 \in 1 .. b /\ (m + (a + 1)) + i = (m + a) + (i + 1)
    OBVIOUS
  <2>2. ASSUME NEW i \in 1 .. b - 1
        PROVE  r[i] = w[(m + (a + 1)) + i]
    <3>1. r[i] = o[i + 1]
      BY <1>2
    <3>2. o[i + 1] = w[(m + a) + (i + 1)]
      BY <1>4, <2>1
    <3>3. QED
      BY <2>1, <3>1, <3>2
  <2>3. QED
    BY Zenon, <1>2, <2>2 DEF Piece
<1>8. /\ ((m + a) + b) + c = ((m + (a + 1)) + (b - 1)) + c
      /\ (m + a) + b = (m + (a + 1)) + (b - 1)
  OBVIOUS
<1>9. Piece(t, w, (m + (a + 1)) + (b - 1))
  BY <1>1, <1>4, <1>8 DEF Piece
<1>10. At(w, m, s, r, t)
  BY Zenon, <1>1, <1>2, <1>3, <1>4, <1>6, <1>7, <1>8, <1>9 DEF At
<1>11. m + a < Len(w)
  BY <1>2, <1>4
<1>12. QED
  BY <1>1, <1>2, <1>3, <1>5, <1>10, <1>11 DEF h, r, s

\* The chip has done with the bytes of p.
LEMMA BytesDone ==
  ASSUME NEW w \in Seq(Octet), NEW m \in Nat, NEW p \in Seq(Octet), NEW o \in Seq(Octet),
         NEW t \in Seq(Octet), At(w, m, p, o, t)
  PROVE  m + Len(p) \in Nat /\ At(w, m + Len(p), <<>>, o, t)
<1>1. PICK a \in Nat, b \in Nat, c \in Nat : a = Len(p) /\ b = Len(o) /\ c = Len(t)
  BY LenProperties
<1>2. Len(<<>>) = 0 /\ (m + a) + 0 = m + a
  BY EmptySeq
<1>3. Piece(<<>>, w, m + a)
  BY <1>2 DEF Piece
<1>4. QED
  BY <1>1, <1>2, <1>3 DEF At

\* The chip passes a byte that no packet begins with.
LEMMA SkippedTracks ==
  ASSUME NEW o, NEW t, NEW u, NEW qs, Tracks(<<>>, o, t, u, qs),
         o # <<>>, Head(o) # DV3000_START_BYTE
  PROVE  Tracks(<<>>, Tail(o), t, u, qs)
<1>1. /\ <<>> \in Seq(Octet) /\ o \in Seq(Octet) /\ t \in Seq(Octet)
      /\ u \in Seq(Queries) /\ qs \in Seq(Queries)
  BY Zenon DEF Tracks, Follows
<1>2. PICK w \in Seq(Octet), m \in Nat, ends \in [0 .. Len(qs) -> Nat] :
        /\ Stream(w, ends, qs) /\ At(w, m, <<>>, o, t)
        /\ Understands(w, ends, m, <<>>, u, qs)
  BY Zenon DEF Tracks, Follows
<1> DEFINE s == Append(<<>>, Head(o))
<1>3. /\ Head(o) = w[m + (Len(<<>>) + 1)] /\ m + Len(<<>>) < Len(w)
      /\ s \in Seq(Octet) /\ Len(s) = Len(<<>>) + 1
      /\ Tail(o) \in Seq(Octet) /\ At(w, m, s, Tail(o), t)
  BY Zenon, <1>1, <1>2, ByteTaken
<1> HIDE DEF s
<1>4. m + Len(s) \in Nat /\ At(w, m + Len(s), <<>>, Tail(o), t)
  BY Zenon, <1>1, <1>3, BytesDone
<1>5. Len(<<>>) = 0 /\ Head(o) = w[m + 1] /\ m < Len(w) /\ Len(s) = 1
  BY <1>3, EmptySeq
<1>6. PICK j \in Nat, n \in Nat : j = Len(u) /\ n = Len(qs)
  BY <1>1, LenProperties
<1>7. /\ j <= n /\ \A i \in 1 .. j : u[i] = qs[i]
      /\ m <= ends[j] /\ Quiet(w, m, ends[j])
  BY <1>2, <1>6 DEF Understands
<1>8. ends[j] \in Nat /\ ends[n] = Len(w)
  <2>1. j \in 0 .. n
    BY <1>6, <1>7
  <2>2. QED
    BY <1>2, <1>6, <2>1 DEF Stream
<1>9. m # ends[j]
  <2>1. SUFFICES ASSUME m = ends[j] PROVE FALSE
    OBVIOUS
  <2>2. j < n
    BY <1>5, <1>6, <1>7, <1>8, <2>1
  <2>3. Carries(w, m, ends[j + 1], qs[j + 1])
    BY Zenon, <1>1, <1>2, <1>6, <2>1, <2>2, NextPacket
  <2>4. w[m + 1] = DV3000_START_BYTE
    BY Zenon, <2>3 DEF Carries
  <2>5. QED
    BY <1>5, <2>4
<1>10. m + 1 <= ends[j]
  BY <1>7, <1>8, <1>9
<1>11. Quiet(w, m + 1, ends[j])
  BY <1>7, <1>8 DEF Quiet
<1>12. Understands(w, ends, m + 1, <<>>, u, qs)
  BY Zenon, <1>6, <1>7, <1>10, <1>11 DEF Understands
<1>13. m + 1 \in Nat /\ At(w, m + 1, <<>>, Tail(o), t)
  BY <1>4, <1>5
<1>14. QED
  BY Zenon, <1>1, <1>2, <1>3, <1>12, <1>13 DEF Tracks, Follows

\* Where the chip is when it takes a byte of a packet, and how long that packet is.
LEMMA InPacket ==
  ASSUME NEW w, NEW m, NEW ends, NEW p, NEW o, NEW t, NEW u, NEW qs,
         Follows(w, m, ends, p, o, t, u, qs),
         o # <<>>, p # <<>> \/ Head(o) = DV3000_START_BYTE
  PROVE  /\ m = ends[Len(u)] /\ Len(u) < Len(qs)
         /\ CoreLength(w, m) \in Nat /\ CoreLength(w, m) >= 5
         /\ Len(p) + 1 <= CoreLength(w, m)
<1> USE DEF Follows
<1>1. PICK j \in Nat, n \in Nat, a \in Nat : j = Len(u) /\ n = Len(qs) /\ a = Len(p)
  BY LenProperties
<1>2. /\ j <= n /\ m <= ends[j] /\ Quiet(w, m, ends[j])
      /\ p # <<>> => m = ends[j] /\ j < n /\ a < CoreLength(w, m)
  BY <1>1 DEF Understands
<1>3. ends[j] \in Nat /\ ends[n] = Len(w)
  <2>1. j \in 0 .. n
    BY <1>1, <1>2
  <2>2. QED
    BY <1>1, <2>1 DEF Stream
<1>4. m = ends[j] /\ j < n
  <2>1. CASE p # <<>>
    BY <1>2, <2>1
  <2>2. CASE p = <<>>
    <3>1. Head(o) = w[m + (Len(p) + 1)] /\ m + Len(p) < Len(w)
      BY ByteTaken
    <3>2. a = 0 /\ w[m + 1] = DV3000_START_BYTE
      BY <1>1, <2>2, <3>1, EmptySeq
    <3>3. ~(m + 1 <= ends[j])
      <4>1. m + 1 <= ends[j] => m + 1 \in m + 1 .. ends[j]
        BY <1>3
      <4>2. QED
        BY Zenon, <1>2, <3>2, <4>1 DEF Quiet
    <3>4. m = ends[j]
      <4>1. PICK e \in Nat : e = ends[j]
        BY <1>3
      <4>2. m <= e /\ ~(m + 1 <= e)
        BY <1>2, <3>3, <4>1
      <4>3. QED
        BY <4>1, <4>2
    <3>5. j # n
      BY <1>3, <3>1, <3>2, <3>4
    <3>6. QED
      BY <1>2, <3>4, <3>5
  <2>3. QED
    BY <2>1, <2>2
<1>5. CoreLength(w, m) \in Nat /\ CoreLength(w, m) >= 5
  BY Zenon, <1>1, <1>4, NextPacket
<1>6. a + 1 <= CoreLength(w, m)
  <2>1. CASE p # <<>>
    BY <1>2, <1>5, <2>1
  <2>2. CASE p = <<>>
    <3>1. a = 0
      BY <1>1, <2>2, EmptySeq
    <3>2. QED
      BY <1>5, <3>1
  <2>3. QED
    BY <2>1, <2>2
<1>7. QED
  BY Zenon, <1>1, <1>4, <1>5, <1>6

\* A packet is whole when it is as long as its header says.
LEMMA WholeIs ==
  ASSUME NEW w \in Seq(Octet), NEW m \in Nat, NEW s \in Seq(Octet), Piece(s, w, m),
         CoreLength(w, m) \in Nat, CoreLength(w, m) >= 5
  PROVE  IsWhole(s) <=> Len(s) = CoreLength(w, m)
<1>1. PICK n \in Nat : n = Len(s)
  BY LenProperties
<1>2. CASE n > 4
  <2>1. 2 \in 1 .. n /\ 3 \in 1 .. n
    BY <1>2
  <2>2. s[2] = w[m + 2] /\ s[3] = w[m + 3] /\ s[2] \in Octet /\ s[3] \in Octet
    <3>1. s[2] \in Octet /\ s[3] \in Octet
      BY <1>1, <2>1, ElementOfSeq
    <3>2. \A i \in 1 .. n : s[i] = w[m + i]
      BY <1>1 DEF Piece
    <3>3. QED
      BY <2>1, <3>1, <3>2
  <2>3. s[2] \in Nat /\ s[3] \in Nat
    <3>1. \A b \in Octet : b \in Nat
      BY DEF Octet
    <3>2. QED
      BY Zenon, <2>2, <3>1
  <2>4. CoreLength(w, m) = 4 + s[2] * 256 + s[3]
    <3>1. CoreLength(w, m) = 4 + (256 * s[2] + s[3])
      BY <2>2 DEF CoreLength
    <3>2. PICK x \in Nat, y \in Nat : x = s[2] /\ y = s[3]
      BY Zenon, <2>3
    <3>3. 4 + (256 * x + y) = 4 + x * 256 + y
      OBVIOUS
    <3>4. QED
      BY <3>1, <3>2, <3>3
  <2>5. QED
    BY <1>1, <1>2, <2>4 DEF IsWhole
<1>3. CASE ~(n > 4)
  BY <1>1, <1>3 DEF IsWhole
<1>4. QED
  BY <1>2, <1>3

\* The chip takes a byte of a packet that is not the last one.
LEMMA ReceivedTracks ==
  ASSUME NEW p, NEW o, NEW t, NEW u, NEW qs, Tracks(p, o, t, u, qs),
         o # <<>>, p # <<>> \/ Head(o) = DV3000_START_BYTE, ~IsWhole(Append(p, Head(o)))
  PROVE  Tracks(Append(p, Head(o)), Tail(o), t, u, qs)
<1>1. /\ p \in Seq(Octet) /\ o \in Seq(Octet) /\ t \in Seq(Octet)
      /\ u \in Seq(Queries) /\ qs \in Seq(Queries)
  BY Zenon DEF Tracks, Follows
<1>2. PICK w \in Seq(Octet), m \in Nat, ends \in [0 .. Len(qs) -> Nat] :
        Stream(w, ends, qs) /\ At(w, m, p, o, t) /\ Understands(w, ends, m, p, u, qs)
  BY Zenon DEF Tracks, Follows
<1> DEFINE s == Append(p, Head(o))
           c == CoreLength(w, m)
<1>3. /\ s \in Seq(Octet) /\ Len(s) = Len(p) + 1
      /\ Tail(o) \in Seq(Octet) /\ At(w, m, s, Tail(o), t)
  BY <1>1, <1>2, ByteTaken
<1>4. /\ m = ends[Len(u)] /\ Len(u) < Len(qs) /\ c \in Nat /\ c >= 5 /\ Len(p) + 1 <= c
  <2>1. Follows(w, m, ends, p, o, t, u, qs)
    BY Zenon, <1>1, <1>2 DEF Follows
  <2>2. QED
    BY <2>1, InPacket
<1>5. ~IsWhole(s)
  OBVIOUS
<1> HIDE DEF s, c
<1>6. Len(s) # c
  <2>1. Piece(s, w, m)
    BY Zenon, <1>3 DEF At
  <2>2. QED
    BY Zenon, <1>3, <1>4, <1>5, <2>1, WholeIs DEF c
<1>7. Len(s) < c
  BY <1>1, <1>3, <1>4, <1>6, LenProperties
<1>8. Understands(w, ends, m, s, u, qs)
  BY Zenon, <1>2, <1>4, <1>7 DEF Understands, c
<1>9. Tracks(s, Tail(o), t, u, qs)
  BY Zenon, <1>1, <1>2, <1>3, <1>8 DEF Tracks, Follows
<1>10. QED
  BY Zenon, <1>9 DEF s

\* The chip takes the last byte of a packet, and understands the query it was made of.
LEMMA UnderstoodTracks ==
  ASSUME NEW p, NEW o, NEW t, NEW u, NEW qs, Tracks(p, o, t, u, qs),
         o # <<>>, p # <<>> \/ Head(o) = DV3000_START_BYTE, IsWhole(Append(p, Head(o)))
  PROVE  Tracks(<<>>, Tail(o), t,
                Append(u, Meaning(Append(p, Head(o))[4], Rest(Append(p, Head(o)), 5))), qs)
<1>1. /\ p \in Seq(Octet) /\ o \in Seq(Octet) /\ t \in Seq(Octet) /\ <<>> \in Seq(Octet)
      /\ u \in Seq(Queries) /\ qs \in Seq(Queries)
  BY Zenon, EmptySeq DEF Tracks, Follows
<1>2. PICK w, m, ends : Follows(w, m, ends, p, o, t, u, qs)
  BY Zenon DEF Tracks
<1>3. /\ w \in Seq(Octet) /\ m \in Nat /\ ends \in [0 .. Len(qs) -> Nat]
      /\ Stream(w, ends, qs) /\ At(w, m, p, o, t) /\ Understands(w, ends, m, p, u, qs)
  BY Zenon, <1>2 DEF Follows
<1> DEFINE s == Append(p, Head(o))
           g == Rest(s, 5)
<1>4. /\ s \in Seq(Octet) /\ Tail(o) \in Seq(Octet) /\ At(w, m, s, Tail(o), t)
  BY <1>1, <1>3, ByteTaken
<1>5. IsWhole(s)
  OBVIOUS
<1>6. /\ m = ends[Len(u)] /\ Len(u) < Len(qs)
      /\ CoreLength(w, m) \in Nat /\ CoreLength(w, m) >= 5
  BY <1>2, InPacket
<1> HIDE DEF s
<1>7. PICK c \in Nat : c = CoreLength(w, m) /\ c >= 5
  BY <1>6
<1>8. Piece(s, w, m)
  BY Zenon, <1>4 DEF At
<1>9. Len(s) = c
  BY Zenon, <1>3, <1>4, <1>5, <1>6, <1>7, <1>8, WholeIs
<1>10. PICK j \in Nat, n \in Nat : j = Len(u) /\ n = Len(qs) /\ j < n /\ m = ends[j]
  BY <1>1, <1>6, LenProperties
<1>11. /\ ends[j + 1] \in Nat /\ Carries(w, m, ends[j + 1], qs[j + 1])
       /\ m + c <= ends[j + 1] /\ j + 1 \in 1 .. n
  BY <1>1, <1>3, <1>7, <1>10, NextPacket
<1>12. /\ g \in Seq(Octet) /\ Len(g) = c - 4
       /\ \A i \in 1 .. c - 4 : g[i] = w[m + (4 + i)]
  <2>1. PICK d \in Nat : d = c - 4 /\ 4 \in Nat /\ 4 + d <= Len(s)
    BY <1>7, <1>9
  <2>2. g = SubSeq(s, 4 + 1, 4 + d)
    BY <1>7, <1>9, <2>1 DEF Rest
  <2> HIDE DEF g
  <2>3. g \in Seq(Octet) /\ Len(g) = d /\ \A i \in 1 .. d : g[i] = s[4 + i]
    BY <1>4, <2>1, <2>2, Between
  <2>4. \A i \in 1 .. c - 4 : 4 + i \in 1 .. Len(s)
    BY <1>7, <1>9
  <2>5. QED
    BY <1>8, <2>1, <2>3, <2>4 DEF Piece
<1> HIDE DEF g
<1>13. s[4] = w[m + 4]
  <2>1. 4 \in 1 .. Len(s)
    BY <1>7, <1>9
  <2>2. QED
    BY <1>8, <2>1 DEF Piece
<1>14. Meaning(s[4], g) = qs[j + 1]
  <2> DEFINE f == [i \in 1 .. ends[j + 1] - (m + 4) |-> w[m + (4 + i)]]
  <2>1. Means(w[m + 4], c - 4, f, qs[j + 1])
    BY Zenon, <1>7, <1>11 DEF Carries
  <2>2. ASSUME NEW i \in 1 .. c - 4 PROVE i \in 1 .. ends[j + 1] - (m + 4)
    <3>1. PICK e \in Nat : e = ends[j + 1] /\ m + c <= e
      BY Zenon, <1>11
    <3>2. i \in 1 .. e - (m + 4)
      BY <1>3, <3>1
    <3>3. QED
      BY Zenon, <3>1, <3>2
  <2>3. \A i \in 1 .. c - 4 : g[i] = f[i]
    BY <1>12, <2>2
  <2> HIDE DEF f
  <2>4. QED
    BY Zenon, <1>12, <1>13, <2>1, <2>3 DEF Means
<1> DEFINE x == Append(u, Meaning(s[4], g))
<1>15. qs[j + 1] \in Queries
  BY Zenon, <1>1, <1>10, <1>11, ElementOfSeq
<1>16. /\ x \in Seq(Queries) /\ Len(x) = j + 1 /\ x[j + 1] = qs[j + 1]
       /\ \A i \in 1 .. j : x[i] = u[i]
  BY <1>1, <1>10, <1>14, <1>15, AppendProperties
<1> HIDE DEF x
<1>17. m + c \in Nat /\ At(w, m + c, <<>>, Tail(o), t)
  BY Zenon, <1>1, <1>3, <1>4, <1>9, BytesDone
<1>18. Quiet(w, m + c, ends[j + 1])
  BY Zenon, <1>7, <1>11 DEF Carries
<1>19. j + 1 <= n /\ \A i \in 1 .. j + 1 : x[i] = qs[i]
  <2>1. \A i \in 1 .. j + 1 : i \in 1 .. j \/ i = j + 1
    OBVIOUS
  <2>2. \A i \in 1 .. j : u[i] = qs[i]
    BY Zenon, <1>3, <1>10 DEF Understands
  <2>3. QED
    BY <1>10, <1>16, <2>1, <2>2
<1>20. Understands(w, ends, m + c, <<>>, x, qs)
  BY Zenon, <1>10, <1>11, <1>16, <1>18, <1>19 DEF Understands
<1>21. Tracks(<<>>, Tail(o), t, x, qs)
  BY Zenon, <1>1, <1>3, <1>4, <1>16, <1>17, <1>20 DEF Tracks, Follows
<1>22. QED
  BY Zenon, <1>21 DEF x, g, s

\* What the chip has understood is the beginning of what was issued, and all of it when
\* all bytes have come.
LEMMA TracksIsSafe ==
  ASSUME NEW p, NEW o, NEW t, NEW u, NEW qs, Tracks(p, o, t, u, qs)
  PROVE  IsPrefix(u, qs) /\ (o = <<>> /\ t = <<>> => u = qs)
<1>1. /\ p \in Seq(Octet) /\ o \in Seq(Octet) /\ t \in Seq(Octet)
      /\ u \in Seq(Queries) /\ qs \in Seq(Queries)
  BY Zenon DEF Tracks, Follows
<1>2. PICK w, m, ends : Follows(w, m, ends, p, o, t, u, qs)
  BY Zenon DEF Tracks
<1>3. /\ w \in Seq(Octet) /\ m \in Nat /\ ends \in [0 .. Len(qs) -> Nat]
      /\ Stream(w, ends, qs) /\ At(w, m, p, o, t) /\ Understands(w, ends, m, p, u, qs)
  BY Zenon, <1>2 DEF Follows
<1>4. PICK j \in Nat, n \in Nat : j = Len(u) /\ n = Len(qs)
  BY <1>1, LenProperties
<1>5. /\ j <= n /\ \A i \in 1 .. j : u[i] = qs[i]
      /\ m <= ends[j] /\ (p # <<>> => m = ends[j] /\ j < n /\ Len(p) < CoreLength(w, m))
  BY Zenon, <1>3, <1>4 DEF Understands
<1>6. IsPrefix(u, qs)
  <2> DEFINE f == SubSeq(qs, 1, j)
  <2>1. \A i \in 1 .. j : qs[i] \in Queries
    BY <1>1, <1>4, <1>5, ElementOfSeq
  <2>2. f \in Seq(Queries) /\ Len(f) = j /\ \A i \in 1 .. j : f[i] = qs[i]
    BY <1>4, <2>1, SubSeqProperties
  <2>3. f = u /\ SubSeq(u, 1, j) = u
    BY <1>1, <1>4, <1>5, <2>2, SeqEqual
  <2>4. QED
    BY <1>4, <1>5, <2>3 DEF IsPrefix
<1>7. ASSUME o = <<>>, t = <<>>
      PROVE  j = n
  <2>1. SUFFICES ASSUME j # n PROVE FALSE
    OBVIOUS
  <2>2. j < n
    BY <1>5, <2>1
  <2>3. /\ ends[j] \in Nat /\ ends[j + 1] \in Nat /\ ends[j + 1] <= Len(w)
        /\ CoreLength(w, ends[j]) \in Nat /\ CoreLength(w, ends[j]) >= 5
        /\ ends[j] + CoreLength(w, ends[j]) <= ends[j + 1]
    BY <1>1, <1>3, <1>4, <2>2, NextPacket
  <2>4. Len(w) = m + Len(p)
    <3>1. PICK a \in Nat : a = Len(p)
      BY <1>1, LenProperties
    <3>2. Len(w) = ((m + a) + 0) + 0
      BY <1>3, <1>7, <3>1, EmptySeq DEF At
    <3>3. QED
      BY <1>3, <3>1, <3>2
  <2>5. CASE p = <<>>
    <3>1. Len(w) = m
      BY <1>3, <2>4, <2>5, EmptySeq
    <3>2. QED
      BY <1>3, <1>5, <2>3, <3>1
  <2>6. CASE p # <<>>
    <3>1. m = ends[j] /\ Len(p) < CoreLength(w, ends[j]) /\ Len(p) \in Nat
      BY <1>1, <1>5, <2>6, LenProperties
    <3>2. PICK a \in Nat, c \in Nat, e \in Nat :
            a = Len(p) /\ c = CoreLength(w, ends[j]) /\ e = ends[j + 1]
      BY <2>3, <3>1
    <3>3. a < c /\ m + c <= e /\ e <= m + a
      BY <2>3, <2>4, <3>1, <3>2
    <3>4. QED
      BY <1>3, <3>3
  <2>7. QED
    BY <2>5, <2>6
<1>8. ASSUME j = n
      PROVE  u = qs
  BY <1>1, <1>4, <1>5, <1>8, SeqEqual
<1>9. QED
  BY <1>6, <1>7, <1>8
-----------------------------------------------------------------------------
(***************************************************************************)
(* The behaviours.                                                         *)
(***************************************************************************)

\* Every query is a packet that carries it.
LEMMA QueryCarries ==
  ASSUME NEW q \in Queries, NEW past \in [1 .. Surplus -> Past]
  PROVE  Carried(q, past)
<1>1. \/ q.type = "PRODID" \/ q.type = "RATEP" \/ q.type = "GAIN"
      \/ q.type = "AUDIO" \/ q.type = "AMBE"
  BY DEF Queries
<1>2. QED
  BY Zenon, <1>1, ProdidCarries, RatepCarries, GainCarries, AudioCarries, AmbeCarries

\* What a turn of the loop leaves.
LEMMA TurnOfLoop ==
  ASSUME NEW o \in Seq(Octet), NEW t \in Seq(Octet), NEW n \in 1 .. QueueSize - Len(o),
         n <= Len(t)
  PROVE  /\ n \in 1 .. Len(t)
         /\ o \o SubSeq(t, 1, n) \in Seq(Octet) /\ Len(o \o SubSeq(t, 1, n)) <= QueueSize
         /\ SubSeq(t, n + 1, Len(t)) \in Seq(Octet)
<1>1. Len(o) \in Nat /\ Len(t) \in Nat /\ QueueSize \in Nat
  BY LenProperties, StreamAssumption
<1>2. n \in 1 .. Len(t)
  BY <1>1
<1>3. Piece(t, t, 0) /\ 0 \in Nat
  <2>1. \A i \in 1 .. Len(t) : 0 + i = i
    BY <1>1
  <2>2. QED
    BY <2>1 DEF Piece
<1>4. /\ SubSeq(t, 1, n) \in Seq(Octet) /\ Len(SubSeq(t, 1, n)) = n
      /\ SubSeq(t, n + 1, Len(t)) \in Seq(Octet)
  BY <1>2, <1>3, CutPiece
<1>5. o \o SubSeq(t, 1, n) \in Seq(Octet) /\ Len(o \o SubSeq(t, 1, n)) = Len(o) + n
  BY <1>4, ConcatProperties
<1>6. Len(o) + n <= QueueSize
  BY <1>1
<1>7. QED
  BY <1>2, <1>4, <1>5, <1>6

\* The initial state has the types.
LEMMA InitTypes == Init => TypeOK
<1>1. SUFFICES ASSUME Init PROVE TypeOK
  OBVIOUS
<1>2. <<>> \in Seq(Octet) /\ <<>> \in Seq(Queries) /\ Len(<<>>) = 0
  BY EmptySeq
<1>3. Len(<<>>) <= QueueSize /\ Len(<<>>) <= MaxQueries
  BY <1>2, StreamAssumption
<1>4. QED
  BY Zenon, <1>1, <1>2, <1>3 DEF Init, TypeOK

\* Every step keeps the types.
LEMMA NextTypes == TypeOK /\ [Next]_vars => TypeOK'
<1> SUFFICES ASSUME TypeOK, [Next]_vars PROVE TypeOK'
  OBVIOUS
<1>1. /\ writing \in BOOLEAN /\ (writing <=> toWrite # <<>>)
      /\ toWrite \in Seq(Octet) /\ packet \in Seq(Octet)
      /\ output \in Seq(Octet) /\ Len(output) <= QueueSize
      /\ issued \in Seq(Queries) /\ Len(issued) <= MaxQueries
      /\ failed \in BOOLEAN /\ strayStart \in BOOLEAN
  BY Zenon DEF TypeOK
<1>2. ASSUME NEW q \in Queries, write(q) PROVE TypeOK'
  <2>1. PICK past \in [1 .. Surplus -> Past] :
          toWrite' = bytesOf(q, past) /\ strayStart' = (strayStart \/ StartsIn(q, past))
    BY Zenon, <1>2 DEF write
  <2>2. bytesOf(q, past) \in Seq(Octet) /\ bytesOf(q, past) # <<>>
    BY Zenon, QueryCarries DEF Carried
  <2>3. /\ Len(issued) < MaxQueries /\ issued' = Append(issued, q) /\ writing' = TRUE
        /\ output' = output /\ packet' = packet /\ failed' = failed
    BY Zenon, <1>2 DEF write
  <2>4. issued' \in Seq(Queries) /\ Len(issued') <= MaxQueries
    <3>1. Len(issued) \in Nat /\ MaxQueries \in Nat
      BY <1>1, LenProperties, StreamAssumption
    <3>2. Append(issued, q) \in Seq(Queries) /\ Len(Append(issued, q)) = Len(issued) + 1
      BY <1>1, AppendProperties
    <3>3. QED
      BY <2>3, <3>1, <3>2
  <2>5. strayStart' \in BOOLEAN
    BY Zenon, <1>1, <2>1 DEF StartsIn
  <2>6. QED
    BY Zenon, <1>1, <2>1, <2>2, <2>3, <2>4, <2>5 DEF TypeOK
<1>3. ASSUME writeSome PROVE TypeOK'
  <2>1. PICK n \in 1 .. QueueSize - Len(output) :
          /\ n <= Len(toWrite)
          /\ output' = output \o SubSeq(toWrite, 1, n)
          /\ toWrite' = SubSeq(toWrite, n + 1, Len(toWrite))
    BY Zenon, <1>3 DEF writeSome
  <2>2. output' \in Seq(Octet) /\ Len(output') <= QueueSize /\ toWrite' \in Seq(Octet)
    BY Zenon, <1>1, <2>1, TurnOfLoop
  <2>3. QED
    BY Zenon, <1>1, <1>3, <2>2 DEF writeSome, TypeOK
<1>4. ASSUME writeFails PROVE TypeOK'
  <2>1. <<>> \in Seq(Octet)
    BY EmptySeq
  <2>2. QED
    BY Zenon, <1>1, <1>4, <2>1 DEF writeFails, TypeOK
<1>5. ASSUME ChipReads PROVE TypeOK'
  <2>1. output # <<>> /\ output' = Tail(output)
    BY Zenon, <1>5 DEF ChipReads
  <2>2. Head(output) \in Octet /\ output' \in Seq(Octet) /\ Len(output') <= QueueSize
    <3>1. Len(output) \in Nat /\ QueueSize \in Nat
      BY <1>1, LenProperties, StreamAssumption
    <3>2. /\ Head(output) \in Octet /\ Tail(output) \in Seq(Octet)
          /\ Len(Tail(output)) = Len(output) - 1
      BY <1>1, <2>1, HeadTailProperties
    <3>3. QED
      BY <1>1, <2>1, <3>1, <3>2
  <2>3. <<>> \in Seq(Octet) /\ Append(packet, Head(output)) \in Seq(Octet)
    BY <1>1, <2>2, EmptySeq, AppendProperties
  <2>4. packet' \in Seq(Octet)
    BY Zenon, <1>1, <1>5, <2>3 DEF ChipReads
  <2>5. QED
    BY Zenon, <1>1, <1>5, <2>2, <2>4 DEF ChipReads, TypeOK
<1>6. CASE UNCHANGED vars
  BY Zenon, <1>1, <1>6 DEF vars, TypeOK
<1>7. QED
  BY Zenon, <1>2, <1>3, <1>4, <1>5, <1>6 DEF Next

\* The bytes that are written, queued and received are bytes, the queue never holds more
\* than it has room for, and write is in its loop as long as bytes are left.
THEOREM TypeCorrectness == Spec => []TypeOK
BY InitTypes, NextTypes, PTL DEF Spec

\* The queries are on their way as long as no write failed and no surplus sample looked
\* like a packet.
StreamInv ==
  /\ TypeOK
  /\ ~failed /\ ~strayStart => Tracks(packet, output, toWrite, understood, issued)

\* At first no query is on its way.
LEMMA InitStream == Init => StreamInv
<1> SUFFICES ASSUME Init PROVE StreamInv
  OBVIOUS
<1> DEFINE e == <<>>
           ends == [k \in 0 .. 0 |-> 0]
<1>1. e \in Seq(Octet) /\ e \in Seq(Queries) /\ Len(e) = 0
  BY EmptySeq
<1>2. ends \in [0 .. 0 -> Nat] /\ ends[0] = 0
  OBVIOUS
<1> HIDE DEF ends, e
<1>3. /\ \A k \in 1 .. 0 : Carries(e, ends[k - 1], ends[k], e[k])
      /\ \A j, k \in 0 .. 0 : j < k => ends[j] < ends[k]
  OBVIOUS
<1>4. Stream(e, ends, e)
  BY Zenon, <1>1, <1>2, <1>3 DEF Stream
<1>5. At(e, 0, e, e, e)
  BY <1>1 DEF At, Piece
<1>6. Understands(e, ends, 0, e, e, e)
  BY <1>1, <1>2 DEF Understands, Quiet, e
<1>7. 0 \in Nat /\ ends \in [0 .. Len(e) -> Nat]
  BY <1>1, <1>2
<1>8. Tracks(e, e, e, e, e)
  BY Zenon, <1>1, <1>4, <1>5, <1>6, <1>7 DEF Tracks, Follows
<1>9. QED
  BY Zenon, <1>8, InitTypes DEF StreamInv, Init, e

\* Every step keeps the queries on their way, or it is a failure or a stray start byte.
LEMMA NextStream == StreamInv /\ [Next]_vars => StreamInv'
<1> SUFFICES ASSUME StreamInv, [Next]_vars PROVE StreamInv'
  OBVIOUS
<1>1. TypeOK /\ TypeOK'
  BY Zenon, NextTypes DEF StreamInv
<1> SUFFICES ASSUME ~failed', ~strayStart'
             PROVE  Tracks(packet, output, toWrite, understood, issued)'
  BY Zenon, <1>1 DEF StreamInv
<1>2. ASSUME NEW q \in Queries, write(q)
      PROVE  Tracks(packet, output, toWrite, understood, issued)'
  <2>1. PICK past \in [1 .. Surplus -> Past] :
          toWrite' = bytesOf(q, past) /\ strayStart' = (strayStart \/ StartsIn(q, past))
    BY Zenon, <1>2 DEF write
  <2>2. /\ issued' = Append(issued, q) /\ output' = output /\ packet' = packet
        /\ understood' = understood /\ failed' = failed /\ ~writing
    BY Zenon, <1>2 DEF write
  <2>3. ~failed /\ ~strayStart /\ ~StartsIn(q, past) /\ toWrite = <<>>
    BY Zenon, <1>1, <2>1, <2>2 DEF TypeOK
  <2>4. Tracks(packet, output, <<>>, understood, issued)
    BY Zenon, <2>3 DEF StreamInv
  <2>5. /\ bytesOf(q, past) \in Seq(Octet) /\ bytesOf(q, past) # <<>>
        /\ Carries(bytesOf(q, past), 0, Len(bytesOf(q, past)), q)
    BY Zenon, <2>3, QueryCarries DEF Carried
  <2>6. Tracks(packet, output, bytesOf(q, past), understood, Append(issued, q))
    BY Zenon, <2>4, <2>5, IssuedTracks
  <2>7. QED
    BY Zenon, <2>1, <2>2, <2>6
<1>3. ASSUME writeSome
      PROVE  Tracks(packet, output, toWrite, understood, issued)'
  <2>1. PICK n \in 1 .. QueueSize - Len(output) :
          /\ n <= Len(toWrite)
          /\ output' = output \o SubSeq(toWrite, 1, n)
          /\ toWrite' = SubSeq(toWrite, n + 1, Len(toWrite))
    BY Zenon, <1>3 DEF writeSome
  <2>2. /\ packet' = packet /\ understood' = understood /\ issued' = issued
        /\ ~failed /\ ~strayStart
    BY Zenon, <1>3 DEF writeSome
  <2>3. n \in 1 .. Len(toWrite)
    BY Zenon, <1>1, <2>1, TurnOfLoop DEF TypeOK
  <2>4. Tracks(packet, output, toWrite, understood, issued)
    BY Zenon, <2>2 DEF StreamInv
  <2>5. Tracks(packet, output \o SubSeq(toWrite, 1, n),
               SubSeq(toWrite, n + 1, Len(toWrite)), understood, issued)
    BY Zenon, <2>3, <2>4, WrittenTracks
  <2>6. QED
    BY Zenon, <2>1, <2>2, <2>5
<1>4. ASSUME writeFails
      PROVE  Tracks(packet, output, toWrite, understood, issued)'
  BY Zenon, <1>4 DEF writeFails
<1>5. ASSUME ChipReads
      PROVE  Tracks(packet, output, toWrite, understood, issued)'
  <2> DEFINE s == Append(packet, Head(output))
  <2>1. /\ output # <<>> /\ output' = Tail(output) /\ toWrite' = toWrite
        /\ issued' = issued /\ ~failed /\ ~strayStart
    BY Zenon, <1>5 DEF ChipReads
  <2>2. Tracks(packet, output, toWrite, understood, issued)
    BY Zenon, <2>1 DEF StreamInv
  <2>3. \/ /\ packet = <<>> /\ Head(output) # DV3000_START_BYTE
           /\ packet' = packet /\ understood' = understood
        \/ /\ packet # <<>> \/ Head(output) = DV3000_START_BYTE
           /\ packet' = IF IsWhole(s) THEN <<>> ELSE s
           /\ understood' = IF IsWhole(s)
                            THEN Append(understood, Meaning(s[4], Rest(s, 5)))
                            ELSE understood
    BY Zenon, <1>5 DEF ChipReads
  <2>4. CASE /\ packet = <<>> /\ Head(output) # DV3000_START_BYTE
             /\ packet' = packet /\ understood' = understood
    <3>1. Tracks(<<>>, Tail(output), toWrite, understood, issued)
      BY Zenon, <2>1, <2>2, <2>4, SkippedTracks
    <3>2. QED
      BY Zenon, <2>1, <2>4, <3>1
  <2>5. CASE /\ packet # <<>> \/ Head(output) = DV3000_START_BYTE
             /\ IsWhole(s) /\ packet' = <<>>
             /\ understood' = Append(understood, Meaning(s[4], Rest(s, 5)))
    <3>1. Tracks(<<>>, Tail(output), toWrite,
                 Append(understood, Meaning(s[4], Rest(s, 5))), issued)
      BY Zenon, <2>1, <2>2, <2>5, UnderstoodTracks
    <3>2. QED
      BY Zenon, <2>1, <2>5, <3>1
  <2>6. CASE /\ packet # <<>> \/ Head(output) = DV3000_START_BYTE
             /\ ~IsWhole(s) /\ packet' = s /\ understood' = understood
    <3>1. Tracks(s, Tail(output), toWrite, understood, issued)
      BY Zenon, <2>1, <2>2, <2>6, ReceivedTracks
    <3>2. QED
      BY Zenon, <2>1, <2>6, <3>1
  <2>7. QED
    BY Zenon, <2>3, <2>4, <2>5, <2>6
<1>6. CASE UNCHANGED vars
  BY Zenon, <1>6 DEF vars, StreamInv
<1>7. QED
  BY Zenon, <1>2, <1>3, <1>4, <1>5, <1>6 DEF Next

\* While the queries are on their way they are understood.
LEMMA StreamIsUnderstood == StreamInv => QueriesAreUnderstood
<1> SUFFICES ASSUME StreamInv, ~failed, ~strayStart
             PROVE  InOrder /\ (~writing /\ output = <<>> => understood = issued)
  BY Zenon DEF QueriesAreUnderstood
<1>1. /\ IsPrefix(understood, issued)
      /\ output = <<>> /\ toWrite = <<>> => understood = issued
  BY Zenon, TracksIsSafe DEF StreamInv
<1>2. ~writing => toWrite = <<>>
  BY Zenon DEF StreamInv, TypeOK
<1>3. QED
  BY Zenon, <1>1, <1>2 DEF InOrder

\* Whatever the queue takes at a time and whatever the frames hold, the chip understands
\* the queries as the caller meant them, in order and, once the bytes are there, all of
\* them, as long as no write failed and no surplus sample held a start byte.
THEOREM QueriesUnderstood == Spec => []QueriesAreUnderstood
BY InitStream, NextStream, StreamIsUnderstood, PTL DEF Spec
=============================================================================
