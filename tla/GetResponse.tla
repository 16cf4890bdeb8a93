---------------------------- MODULE GetResponse ----------------------------
(***************************************************************************)
(* DVController::getResponse byte by byte: three loops look for a start    *)
(* byte, read the header and read the payload, and each gives up after     *)
(* MaxTries turns.  The module is what SerialPort and UdpSocket have in    *)
(* common; they say when m_serial->read returns and with which bytes.      *)
(***************************************************************************)
EXTENDS Integers, Sequences

CONSTANTS
  MaxTries,       \* turns of each loop: 2000 in the code, 100 us apart
  BUFFER_LENGTH,  \* size of the buffer that the callers provide
  Packets         \* packets of the chip, as sequences of bytes

VARIABLES
  stage,          \* the loop getResponse is in, or "init", or "idle"
  tries, packetLength, offset,
  buffer,         \* the part of the buffer that has been filled
  response        \* what getResponse returned last

reader == <<stage, tries, packetLength, offset, buffer, response>>

DV3000_START_BYTE == 97
DV3000_TYPE_CONTROL == 0
DV3000_TYPE_AMBE == 1
DV3000_TYPE_AUDIO == 2
DV3000_CONTROL_RATEP == 10
DV3000_CONTROL_GAIN == 75
DV3000_CONTROL_PRODID == 48

Byte == 0 .. 255

Loops == {"start", "header", "payload"}

ControlTypes == {"NAME", "RATEP", "GAIN", "UNKNOWN"}

\* The length that a header gives, and the largest that it can give.
headerLength(p) == p[2] * 256 + p[3]

MaxLength == 65535

IsPacket(p) == /\ p \in Seq(Byte)
               /\ Len(p) \in 5 .. BUFFER_LENGTH
               /\ p[1] = DV3000_START_BYTE
               /\ headerLength(p) = Len(p) - 4

ASSUME ReaderAssumption ==
  /\ MaxTries \in Nat \ {0}
  /\ BUFFER_LENGTH \in Nat \ {0}
  /\ \A p \in Packets : IsPacket(p)

-----------------------------------------------------------------------------
ReaderInit == /\ stage = "idle" /\ tries = 0 /\ packetLength = 0 /\ offset = 0
              /\ buffer = <<>> /\ response = "NONE"

\* The loops begin once initResponse has returned true.
begin == /\ stage' = "start" /\ tries' = 0 /\ packetLength' = 1 /\ offset' = 0
         /\ buffer' = <<>> /\ response' = "NONE"

return(type) == /\ stage' = "idle" /\ response' = type
                /\ tries' = 0 /\ packetLength' = 0 /\ offset' = 0

enter(loop, length) == /\ stage' = loop /\ tries' = 0
                       /\ packetLength' = length /\ offset' = 0
                       /\ UNCHANGED response

\* Mutation: one turn too many.
retryOnceMore(len) == IF tries < MaxTries
                        THEN /\ tries' = tries + 1
                             /\ offset' = offset + len
                             /\ UNCHANGED <<stage, packetLength, response>>
                        ELSE return("ERROR")

\* Mutation: the turns are not counted.
retryForever(len) == /\ offset' = offset + len
                     /\ UNCHANGED <<stage, tries, packetLength, response>>

\* The next turn of the loop, if there is one.
retry(len) == IF tries + 1 < MaxTries
                THEN /\ tries' = tries + 1
                     /\ offset' = offset + len
                     /\ UNCHANGED <<stage, packetLength, response>>
                ELSE return("ERROR")

\* The type of a packet.  The field of a control packet without a payload is read
\* all the same, from a byte that nothing has written.
typesOf(p) ==
  CASE p[4] = DV3000_TYPE_AUDIO -> {"AUDIO"}
    [] p[4] = DV3000_TYPE_AMBE -> {"AMBE"}
    [] p[4] = DV3000_TYPE_CONTROL /\ Len(p) = 4 -> ControlTypes
    [] p[4] = DV3000_TYPE_CONTROL /\ Len(p) > 4 ->
         CASE p[5] = DV3000_CONTROL_PRODID -> {"NAME"}
           [] p[5] = DV3000_CONTROL_RATEP -> {"RATEP"}
           [] p[5] = DV3000_CONTROL_GAIN -> {"GAIN"}
           [] OTHER -> {"UNKNOWN"}
    [] OTHER -> {"UNKNOWN"}

\* The number of bytes that the next read asks for.
wanted == packetLength - offset

\* read returns -1.
readFails == return("ERROR") /\ UNCHANGED buffer

startReturns(bytes) ==
  /\ stage = "start"
  /\ IF bytes = <<DV3000_START_BYTE>>
       THEN enter("header", 3) /\ buffer' = bytes
       ELSE retry(0) /\ UNCHANGED buffer

\* Mutation: the bytes of the length are taken in the wrong order.
headerReturnsSwapped(bytes) ==
  /\ stage = "header"
  /\ buffer' = buffer \o bytes
  /\ IF Len(bytes) = wanted
       THEN enter("payload", buffer'[2] + buffer'[3] * 256)
       ELSE retry(Len(bytes))

\* Mutation: the length is taken to include the type.
headerReturnsShort(bytes) ==
  /\ stage = "header"
  /\ buffer' = buffer \o bytes
  /\ IF Len(bytes) = wanted
       THEN enter("payload", headerLength(buffer') - 1)
       ELSE retry(Len(bytes))

headerReturns(bytes) ==
  /\ stage = "header"
  /\ buffer' = buffer \o bytes
  /\ IF Len(bytes) = wanted
       THEN enter("payload", headerLength(buffer'))
       ELSE retry(Len(bytes))

payloadReturns(bytes) ==
  /\ stage = "payload"
  /\ buffer' = buffer \o bytes
  /\ IF Len(bytes) = wanted
       THEN \E type \in typesOf(buffer') : return(type)
       ELSE retry(Len(bytes))

\* read has stored these bytes and returns their number.
readReturns(bytes) ==
  startReturns(bytes) \/ headerReturns(bytes) \/ payloadReturns(bytes)

-----------------------------------------------------------------------------
Responses == ControlTypes \cup {"NONE", "ERROR", "AMBE", "AUDIO"}

ReaderTypeOK == /\ stage \in Loops \cup {"idle", "init"}
                /\ tries \in Nat /\ tries < MaxTries
                /\ packetLength \in Nat /\ packetLength <= MaxLength
                /\ offset \in Nat /\ offset <= packetLength
                /\ buffer \in Seq(Byte)
                /\ response \in Responses

HasPacket == response \notin {"NONE", "ERROR"}

\* Nothing is stored past the end of the callers' buffer, though no length that
\* comes in a header is checked against it.
ReadsFitBuffer == stage \in Loops => Len(buffer) + wanted <= BUFFER_LENGTH
=============================================================================
