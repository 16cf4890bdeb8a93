----------------------------- MODULE QueryStream -----------------------------
(***************************************************************************)
(* The way of the queries, byte by byte: the packets that DVController     *)
(* builds, the loop of SerialDataController::write that hands them to an   *)
(* output queue with little room, and a chip that finds its packets in the *)
(* bytes by their start byte and length.  Both platforms have this loop;   *)
(* over UDP a query is one datagram, which is sent or not.                 *)
(***************************************************************************)
EXTENDS AmbeProtocol, SequencesExt

CONSTANTS
  MBE_AUDIO_BLOCK_SIZE,           \* samples in the caller's frame: 160
  MBE_AUDIO_BLOCK_SIZE_INTERNAL,  \* samples that encodeIn sends: 192
  Samples,        \* 16-bit samples
  Past,           \* what may be in memory past the caller's frame, as samples
  MbeFrames,      \* AMBE frames, as sequences of bytes
  ControlWords,   \* the words of a rate, as sequences of bytes
  GainLevels,     \* gains in dB, as setGain has clamped them
  QueueSize,      \* room in the output queue of the port, in bytes
  MaxQueries,     \* bound on the queries
  WriteErrors     \* may ::write, or WriteFile, fail?

Octet == 0 .. 255
SignedChar == -128 .. 127
Short == {n \in Int : -32768 <= n /\ n <= 32767}

LongestField == 65535   \* the longest that the two bytes of a length can announce

ASSUME StreamAssumption ==
  /\ MBE_AUDIO_BLOCK_SIZE \in Octet /\ MBE_AUDIO_BLOCK_SIZE_INTERNAL \in Nat
  /\ MBE_AUDIO_BLOCK_SIZE_INTERNAL >= MBE_AUDIO_BLOCK_SIZE
  /\ QueueSize \in Nat \ {0} /\ MaxQueries \in Nat /\ WriteErrors \in BOOLEAN
  /\ Samples \subseteq Short /\ Past \subseteq Short
  /\ \A w \in ControlWords : w \in Seq(Octet) /\ 1 + Len(w) <= LongestField
  /\ \A m \in MbeFrames : m \in Seq(Octet) /\ 2 + Len(m) <= LongestField
  /\ GainLevels \subseteq SignedChar

VARIABLES
  writing,     \* is write still in its loop?
  toWrite,     \* what it has not written yet
  output,      \* the output queue of the port
  packet,      \* the bytes of the packet that the chip is receiving
  understood,  \* the queries the chip has understood
  issued,      \* history: the queries that were given to write
  failed,      \* history: has a write failed?
  strayStart   \* history: did surplus samples hold a start byte?

vars == <<writing, toWrite, output, packet, understood, issued, failed, strayStart>>

DV3000_START_BYTE == 97

Surplus == MBE_AUDIO_BLOCK_SIZE_INTERNAL - MBE_AUDIO_BLOCK_SIZE

\* A query as its caller means it.  decode announces a frame with the sizes that
\* setRate has cached, or that the object has from the start: those of one rate.
Queries ==
  [type : {"PRODID"}]
    \cup [type : {"RATEP"}, words : ControlWords]
    \cup [type : {"GAIN"}, gainIn : GainLevels, gainOut : GainLevels]
    \cup [type : {"AUDIO"}, samples : [1 .. MBE_AUDIO_BLOCK_SIZE -> Samples]]
    \cup UNION {[type : {"AMBE"}, bits : {RateBits[r]},
                 mbe : {m \in MbeFrames : Len(m) = RateBytes[r]}] : r \in Programmable}

\* A number as two bytes, the high one first; the byte of a signed char.
TwoBytes(n) == <<(n \div 256) % 256, n % 256>>
Byte(n) == n % 256

\* A packet whose header announces a length; field is all that follows the type.
packetOf(length, type, field) ==
  <<DV3000_START_BYTE, TwoBytes(length)[1], TwoBytes(length)[2], type>> \o field

\* The loop of encodeIn: two bytes of each sample.
bytesOfSamples(samples) ==
  [i \in 1 .. 2 * Len(samples) |-> TwoBytes(samples[(i + 1) \div 2])[1 + ((i + 1) % 2)]]

encodeIn(samples) ==
  packetOf(2 + 2 * MBE_AUDIO_BLOCK_SIZE, 2,
           <<0, MBE_AUDIO_BLOCK_SIZE>> \o bytesOfSamples(samples))

decodeIn(bits, mbe) == packetOf(2 + Len(mbe), 1, <<1, bits>> \o mbe)

\* The bytes of a query; past are the samples behind the caller's frame.
bytesOf(q, past) ==
  CASE q.type = "PRODID" -> packetOf(1, 0, <<48>>)
    [] q.type = "RATEP" -> packetOf(1 + Len(q.words), 0, <<10>> \o q.words)
    [] q.type = "GAIN" -> packetOf(3, 0, <<75, Byte(q.gainIn), Byte(q.gainOut)>>)
    [] q.type = "AUDIO" -> encodeIn(q.samples \o past)
    [] q.type = "AMBE" -> decodeIn(q.bits, q.mbe)

-----------------------------------------------------------------------------
Init == /\ writing = FALSE /\ toWrite = <<>> /\ output = <<>> /\ packet = <<>>
        /\ understood = <<>> /\ issued = <<>> /\ failed = FALSE /\ strayStart = FALSE

\* Do the bytes that follow the packet of q hold a start byte?
StartsIn(q, past) ==
  /\ q.type = "AUDIO"
  /\ \E i \in DOMAIN past : DV3000_START_BYTE \in Range(TwoBytes(past[i]))

\* The object writes its next query, whatever has become of the last one.
write(q) ==
  /\ ~writing /\ Len(issued) < MaxQueries
  /\ writing' = TRUE
  /\ \E past \in [1 .. Surplus -> Past] :
       /\ toWrite' = bytesOf(q, past)
       /\ strayStart' = (strayStart \/ StartsIn(q, past))
  /\ issued' = Append(issued, q)
  /\ UNCHANGED <<output, packet, understood, failed>>

\* Mutation: the loop goes on when everything is written.
writeSomeAndOn ==
  /\ writing
  /\ \E n \in 1 .. QueueSize - Len(output) :
       /\ n <= Len(toWrite)
       /\ output' = output \o SubSeq(toWrite, 1, n)
       /\ toWrite' = SubSeq(toWrite, n + 1, Len(toWrite))
  /\ UNCHANGED <<writing, packet, understood, issued, failed, strayStart>>

\* Mutation: what has been written is written again.
writeSomeAgain ==
  /\ writing
  /\ \E n \in 1 .. QueueSize - Len(output) :
       /\ n <= Len(toWrite)
       /\ output' = output \o SubSeq(toWrite, 1, n)
       /\ toWrite' = IF n = Len(toWrite) THEN <<>> ELSE toWrite
  /\ writing' = (toWrite' # <<>>)
  /\ UNCHANGED <<packet, understood, issued, failed, strayStart>>

\* One turn of the loop that finds room in the queue.  The turns that find none
\* (EAGAIN) change nothing; there is no limit to them.
writeSome ==
  /\ writing
  /\ \E n \in 1 .. QueueSize - Len(output) :
       /\ n <= Len(toWrite)
       /\ output' = output \o SubSeq(toWrite, 1, n)
       /\ toWrite' = SubSeq(toWrite, n + 1, Len(toWrite))
  /\ writing' = (toWrite' # <<>>)
  /\ UNCHANGED <<packet, understood, issued, failed, strayStart>>

\* The rest of the query is never written, and no caller looks at the result.
writeFails == /\ WriteErrors /\ writing
              /\ writing' = FALSE /\ toWrite' = <<>> /\ failed' = TRUE
              /\ UNCHANGED <<output, packet, understood, issued, strayStart>>
-----------------------------------------------------------------------------
(***************************************************************************)
(* The chip.                                                               *)
(***************************************************************************)
Signed(b) == IF b > 127 THEN b - 256 ELSE b

SamplesOf(bytes) ==
  [i \in 1 .. Len(bytes) \div 2 |-> Signed(bytes[2 * i - 1]) * 256 + bytes[2 * i]]

Rest(p, n) == SubSeq(p, n, Len(p))

\* What a whole packet means to the chip.
Meaning(type, field) ==
  CASE type = 0 /\ field[1] = 48 -> [type |-> "PRODID"]
    [] type = 0 /\ field[1] = 10 -> [type |-> "RATEP", words |-> Rest(field, 2)]
    [] type = 0 /\ field[1] = 75 -> [type |-> "GAIN", gainIn |-> Signed(field[2]),
                                     gainOut |-> Signed(field[3])]
    [] type = 2 -> [type |-> "AUDIO", samples |-> SamplesOf(Rest(field, 3))]
    [] type = 1 -> [type |-> "AMBE", bits |-> field[2], mbe |-> Rest(field, 3)]
    [] OTHER -> [type |-> "UNKNOWN"]

IsWhole(p) == Len(p) > 4 /\ Len(p) = 4 + p[2] * 256 + p[3]

\* The chip takes a byte: it looks for a start byte, then for the whole packet.
ChipReads ==
  /\ output # <<>>
  /\ output' = Tail(output)
  /\ LET b == Head(output)
         p == Append(packet, b)
     IN \/ /\ packet = <<>> /\ b # DV3000_START_BYTE
           /\ UNCHANGED <<packet, understood>>
        \/ /\ packet # <<>> \/ b = DV3000_START_BYTE
           /\ packet' = IF IsWhole(p) THEN <<>> ELSE p
           /\ understood' = IF IsWhole(p) THEN Append(understood, Meaning(p[4], Rest(p, 5)))
                            ELSE understood
  /\ UNCHANGED <<writing, toWrite, issued, failed, strayStart>>

Next == (\E q \in Queries : write(q)) \/ writeSome \/ writeFails \/ ChipReads

Spec == Init /\ [][Next]_vars

\* The thread runs, and a device that is there drains the queue.
FairSpec == Spec /\ WF_vars(writeSome) /\ WF_vars(ChipReads)
-----------------------------------------------------------------------------
TypeOK == /\ writing \in BOOLEAN /\ (writing <=> toWrite # <<>>)
          /\ toWrite \in Seq(Octet) /\ packet \in Seq(Octet)
          /\ output \in Seq(Octet) /\ Len(output) <= QueueSize
          /\ issued \in Seq(Queries) /\ Len(issued) <= MaxQueries
          /\ failed \in BOOLEAN /\ strayStart \in BOOLEAN

InOrder == IsPrefix(understood, issued)

\* The chip understands the queries as they were meant, in order and, once all the
\* bytes are there, all of them: however little the queue takes at a time, whatever
\* start bytes the payloads hold, and although every audio packet is followed by
\* bytes that belong to no packet, as long as none of these is a start byte.
QueriesAreUnderstood ==
  ~failed /\ ~strayStart =>
    /\ InOrder
    /\ ~writing /\ output = <<>> => understood = issued

\* dvcontroller.h:107: 160 samples are an audio frame; Readme.md:25: each query is
\* returned a complete reply.  A chip can only reply to a query it understands.
EveryQueryIsUnderstood ==
  ~failed => /\ InOrder
             /\ ~writing /\ output = <<>> => understood = issued

\* The loop of write ends if the device drains its queue.
WriteReturns == writing ~> ~writing
=============================================================================
