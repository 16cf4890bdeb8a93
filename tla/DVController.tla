---------------------------- MODULE DVController ----------------------------
(***************************************************************************)
(* One DVController object, the link to its device and the device itself.  *)
(*                                                                         *)
(* The object runs in one thread: every call of its interface is a chain   *)
(* of transactions, each of which writes one query and then waits in       *)
(* getResponse for one packet.  What makes this hard is on the other side  *)
(* of the link: the device takes its time, getResponse gives up after a    *)
(* while, and a reply that arrives after that stays in the receive buffer  *)
(* for whoever reads next.  Packets are whole here; their bytes are the    *)
(* subject of GetResponse.  The transport is the POSIX serial port.        *)
(***************************************************************************)
EXTENDS AmbeProtocol, Sequences

CONSTANTS
  Frames,       \* payloads the client submits, audio or AMBE
  Rates,        \* the rates the client asks for
  Gains,        \* the gains (int, dB) the client asks for
  PowerOnRate,  \* the rate the chip works at before it is given one
  MaxBacklog,   \* how many answers may be given up while still on their way
  LosesQueries, \* may the link lose, write fail on, or the surplus of an audio
                \* query (see QueryStream) swallow what the object sends?
  LosesReplies, \* may the link lose what the chip answers?
  Reports,      \* may the chip send a packet that nothing has asked for, such as
                \* READY after a reset?
  Hangs,        \* may a wait never return (see SerialPort and WindowsPort)?
  Replug,       \* may the device be power-cycled while the object is closed?
  LowLatency,   \* is low latency always granted to a port that is opened?
  Careful,      \* does the client consult isOpen() before open() and close()?
  MaxPorts,     \* bound on the transports a careless client leaves open
  NoCall, NoReply

VARIABLES
  \* the members of the object
  m_serial,           \* its transport: "none" (nullptr), "open", "shut" (no
                      \* descriptor) or "stale" (one that is closed already)
  m_open,
  m_currentRate,
  m_currentGainIn, m_currentGainOut,
  m_currentNbMbeBits, m_currentNbMbeBytes,
  \* the call in progress
  pc,                 \* where its thread is
  call,               \* the encode or decode in progress, or the last one
  got,                \* the reply delivered to the caller when it returned true
  \* outside the object
  openPorts,          \* transports the process holds open
  toDevice,           \* queries written and not yet handled by the chip
  toHost,             \* replies not yet read
  chip                \* the configuration of the chip

object == <<m_serial, m_open, m_currentRate, m_currentGainIn,
            m_currentGainOut, m_currentNbMbeBits, m_currentNbMbeBytes>>
link == <<toDevice, toHost>>
vars == <<object, pc, call, got, openPorts, link, chip>>

-----------------------------------------------------------------------------
(***************************************************************************)
(* Packets.  An AMBE query carries the number of bits the object takes a   *)
(* frame to have, and as many bytes as it takes it to have.  A reply to a  *)
(* frame query carries how the chip was configured when it handled the     *)
(* frame.  body says which frame it is made of, and intact whether it is   *)
(* the whole of that frame rather than part of it or noise.                *)
(***************************************************************************)
Levels == -90 .. 90

Query ==
  [type : {"PRODID"}]
    \cup [type : {"RATEP"}, rate : Programmable]
    \cup [type : {"GAIN"}, gainIn : Levels, gainOut : Levels]
    \cup [type : {"AUDIO"}, body : Frames]
    \cup [type : {"AMBE"}, body : Frames, bits : Nat, bytes : Nat]

FrameReply == [type : {"AMBE", "AUDIO"}, body : Frames,
               rate : Programmable, gain : Levels, bits : Nat, intact : BOOLEAN]

RespError == [type |-> "ERROR"]

Reply == [type : {"NAME", "RATEP", "GAIN", "UNKNOWN"}] \cup FrameReply

FrameCall == [op : {"encode", "decode"}, body : Frames, rate : Rates,
              gain : Gains, synced : BOOLEAN]

ASSUME ConstantsAssumption ==
  /\ Rates \subseteq DVRate
  /\ Gains \subseteq Int
  /\ PowerOnRate \in Programmable
  /\ MaxBacklog \in Nat
  /\ MaxPorts \in Nat \ {0}
  /\ LosesQueries \in BOOLEAN /\ LosesReplies \in BOOLEAN
  /\ Reports \in BOOLEAN /\ Hangs \in BOOLEAN
  /\ Replug \in BOOLEAN /\ LowLatency \in BOOLEAN /\ Careful \in BOOLEAN
  /\ NoCall \notin FrameCall
  /\ NoReply \notin FrameReply

InFlight == Len(toDevice) + Len(toHost)

\* Where the thread of an encode or a decode can be: about to compare the rate,
\* waiting in setRate, about to compare the gain, waiting in setGain, about to
\* write the frame, waiting in encodeOut or decodeOut.
FrameStages == {"rate", "setRate", "gain", "setGain", "frameIn", "frameOut"}

\* The stages that wait in getResponse; "prodid" is the wait of open.
Waiting == {"prodid", "setRate", "setGain", "frameOut"}
-----------------------------------------------------------------------------
(***************************************************************************)
(* The transport, as far as whole packets go.                              *)
(***************************************************************************)
write(q) == /\ toDevice' = Append(toDevice, q)
            /\ UNCHANGED toHost


\* What getResponse may come back with in this state: the oldest packet, or an
\* error because it timed out or a read failed.  What was in flight then adds to
\* the backlog.
Arrivals == (IF InFlight <= MaxBacklog THEN {RespError} ELSE {})
              \cup (IF toHost = <<>> THEN {} ELSE {Head(toHost)})

\* Mutation: what was received is flushed with the packet that is read.
LeftFlushed(m) == IF m = RespError THEN toHost ELSE <<>>

\* What is left to read after it has come back with m.
Left(m) == IF m = RespError THEN toHost ELSE Tail(toHost)

getResponse(m) == /\ toHost' = Left(m)
                  /\ UNCHANGED toDevice

\* The last descriptor of the device takes what was received, and not yet read,
\* with it.  Queries already written stay on their way.
closeIt(unread) == /\ m_serial' = "shut"
                   /\ openPorts' = openPorts - 1
                   /\ toHost' = IF openPorts = 1 THEN <<>> ELSE unread
-----------------------------------------------------------------------------
(***************************************************************************)
(* Opening and closing.                                                    *)
(***************************************************************************)
Init == /\ m_serial = "none" /\ openPorts = 0
        /\ m_open = FALSE
        /\ m_currentRate = "DVRateNone"
        /\ m_currentGainIn = 0 /\ m_currentGainOut = 0
        /\ m_currentNbMbeBits = 72 /\ m_currentNbMbeBytes = 9
        /\ pc = "idle" /\ call = NoCall /\ got = NoReply
        /\ toDevice = <<>> /\ toHost = <<>>
        /\ chip = [rate |-> PowerOnRate, gainIn |-> 0, gainOut |-> 0]

settings == <<m_currentRate, m_currentGainIn, m_currentGainOut,
              m_currentNbMbeBits, m_currentNbMbeBytes>>

\* The ways in which the transport fails to open: there is no descriptor; there
\* was one and it is closed again, its number kept; or low latency is refused,
\* which closes nothing.
transportFails ==
  \/ m_serial' \in {"shut", "stale"} /\ UNCHANGED openPorts
  \/ ~LowLatency /\ m_serial' = "open" /\ openPorts' = openPorts + 1

\* A new transport replaces the one in m_serial, which is not closed.
open == /\ pc = "idle"
        /\ Careful => ~m_open
        /\ openPorts < MaxPorts
        /\ m_open' = FALSE
        /\ \/ /\ m_serial' = "open" /\ openPorts' = openPorts + 1
              /\ write([type |-> "PRODID"])
              /\ pc' = "prodid"
           \/ /\ transportFails
              /\ UNCHANGED <<link, pc>>
        /\ call' = NoCall /\ got' = NoReply
        /\ UNCHANGED <<settings, chip>>

openIdentified ==
  /\ pc = "prodid"
  /\ \E m \in Arrivals : m.type = "NAME" /\ getResponse(m)
  /\ m_open' = TRUE
  /\ pc' = "idle"
  /\ UNCHANGED <<m_serial, openPorts, settings, call, got, chip>>

\* Mutation: the transport is forgotten but not closed.
openRefusedLeaks ==
  /\ pc = "prodid"
  /\ \E m \in Arrivals : m.type # "NAME" /\ getResponse(m)
  /\ m_serial' = "shut"
  /\ pc' = "idle"
  /\ UNCHANGED <<m_open, openPorts, settings, call, got, chip>>

\* Any other packet, or none, makes open give the transport up.
openRefused ==
  /\ pc = "prodid"
  /\ \E m \in Arrivals : m.type # "NAME" /\ closeIt(Left(m))
  /\ pc' = "idle"
  /\ UNCHANGED <<m_open, settings, call, got, toDevice, chip>>

\* Closing a stale descriptor fails, which nobody notices.
close == /\ pc = "idle"
         /\ Careful => m_open
         /\ \/ m_serial = "open" /\ closeIt(toHost)
            \/ m_serial = "stale" /\ m_serial' = "shut"
               /\ UNCHANGED <<openPorts, toHost>>
         /\ m_open' = FALSE
         /\ call' = NoCall /\ got' = NoReply
         /\ UNCHANGED <<settings, pc, toDevice, chip>>

\* closeIt is called through a null pointer, or its assertion that there is a
\* descriptor fails: the process ends.
closeAborts == /\ pc = "idle"
               /\ Careful => m_open
               /\ m_serial \in {"none", "shut"}
               /\ pc' = "aborted"
               /\ UNCHANGED <<object, call, got, openPorts, link, chip>>
-----------------------------------------------------------------------------
(***************************************************************************)
(* encode and decode: set the rate if it is not the current one, set the   *)
(* gain likewise, exchange the frame.  The results of the first two are    *)
(* ignored.                                                                *)
(***************************************************************************)
\* Mutation: m_open is not looked at.
startUnopened(op, f, r, g) ==
  /\ pc = "idle"
  /\ call' = [op |-> op, body |-> f, rate |-> r, gain |-> g,
              synced |-> InFlight = 0]
  /\ got' = NoReply
  /\ pc' = "rate"
  /\ UNCHANGED <<object, openPorts, link, chip>>

start(op, f, r, g) ==
  /\ pc = "idle"
  /\ call' = [op |-> op, body |-> f, rate |-> r, gain |-> g,
              synced |-> InFlight = 0]
  /\ got' = NoReply
  /\ pc' = IF m_open THEN "rate" ELSE "idle"
  /\ UNCHANGED <<object, openPorts, link, chip>>

encode(f, r, g) == start("encode", f, r, g)
decode(f, r, g) == start("decode", f, r, g)

\* Mutation: the sizes of the frames are not those of the new rate.
setRateKeepsSizes ==
  /\ pc = "rate"
  /\ \/ /\ call.rate # m_currentRate
        /\ call.rate \in Programmable
        /\ write([type |-> "RATEP", rate |-> call.rate])
        /\ pc' = "setRate"
        /\ UNCHANGED m_currentRate
     \/ /\ call.rate = m_currentRate \/ call.rate \notin Programmable
        /\ m_currentRate' = call.rate
        /\ pc' = "gain"
        /\ UNCHANGED link
  /\ UNCHANGED <<m_serial, m_open, m_currentGainIn, m_currentGainOut,
                 m_currentNbMbeBits, m_currentNbMbeBytes, openPorts, call, got, chip>>

setRate ==
  /\ pc = "rate"
  /\ \/ /\ call.rate # m_currentRate
        /\ call.rate \in Programmable
        /\ m_currentNbMbeBits' = RateBits[call.rate]
        /\ m_currentNbMbeBytes' = RateBytes[call.rate]
        /\ write([type |-> "RATEP", rate |-> call.rate])
        /\ pc' = "setRate"
        /\ UNCHANGED m_currentRate
     \/ /\ call.rate = m_currentRate \/ call.rate \notin Programmable
        /\ m_currentRate' = call.rate
        /\ pc' = "gain"
        /\ UNCHANGED <<m_currentNbMbeBits, m_currentNbMbeBytes, link>>
  /\ UNCHANGED <<m_serial, m_open, m_currentGainIn, m_currentGainOut, openPorts,
                 call, got, chip>>

\* Mutation: the reply is not waited for.
setRateReturnsAtOnce ==
  /\ pc = "setRate"
  /\ m_currentRate' = call.rate
  /\ pc' = "gain"
  /\ UNCHANGED <<m_serial, m_open, m_currentGainIn, m_currentGainOut,
                 m_currentNbMbeBits, m_currentNbMbeBytes, openPorts, call, got,
                 link, chip>>

\* Mutation: the rate becomes the current one only if the reply confirms it.
setRateReturnsConfirmed ==
  /\ pc = "setRate"
  /\ \E m \in Arrivals :
       /\ getResponse(m)
       /\ m_currentRate' = IF m.type = "RATEP" THEN call.rate ELSE m_currentRate
  /\ pc' = "gain"
  /\ UNCHANGED <<m_serial, m_open, m_currentGainIn, m_currentGainOut,
                 m_currentNbMbeBits, m_currentNbMbeBytes, openPorts, call, got,
                 chip>>

setRateReturns ==
  /\ pc = "setRate"
  /\ \E m \in Arrivals : getResponse(m)
  /\ m_currentRate' = call.rate
  /\ pc' = "gain"
  /\ UNCHANGED <<m_serial, m_open, m_currentGainIn, m_currentGainOut,
                 m_currentNbMbeBits, m_currentNbMbeBytes, openPorts, call, got,
                 chip>>

\* The gains after the call's own has been taken over.
newGainIn  == IF call.op = "encode" THEN call.gain ELSE m_currentGainIn
newGainOut == IF call.op = "decode" THEN call.gain ELSE m_currentGainOut

\* Mutation: the two levels are sent in the wrong order.
setGainSwapped ==
  /\ pc = "gain"
  /\ IF newGainIn # m_currentGainIn \/ newGainOut # m_currentGainOut
       THEN /\ write([type |-> "GAIN", gainIn |-> GainLevel(newGainOut),
                      gainOut |-> GainLevel(newGainIn)])
            /\ pc' = "setGain"
       ELSE /\ pc' = "frameIn"
            /\ UNCHANGED link
  /\ UNCHANGED <<object, openPorts, call, got, chip>>

setGain ==
  /\ pc = "gain"
  /\ IF newGainIn # m_currentGainIn \/ newGainOut # m_currentGainOut
       THEN /\ write([type |-> "GAIN", gainIn |-> GainLevel(newGainIn),
                      gainOut |-> GainLevel(newGainOut)])
            /\ pc' = "setGain"
       ELSE /\ pc' = "frameIn"
            /\ UNCHANGED link
  /\ UNCHANGED <<object, openPorts, call, got, chip>>

setGainReturns ==
  /\ pc = "setGain"
  /\ \E m \in Arrivals : getResponse(m)
  /\ m_currentGainIn' = newGainIn
  /\ m_currentGainOut' = newGainOut
  /\ pc' = "frameIn"
  /\ UNCHANGED <<m_serial, m_open, m_currentRate, m_currentNbMbeBits,
                 m_currentNbMbeBytes, openPorts, call, got, chip>>

\* Mutation: the buffer is as long as DV3000_REQ_GAIN, 5 bytes.
setGainOverrunsSooner ==
  /\ pc = "setGain"
  /\ \E m \in Arrivals :
       m.type \in {"NAME", "RATEP", "AMBE", "AUDIO"} /\ getResponse(m)
  /\ pc' = "overrun"
  /\ UNCHANGED <<object, call, got, openPorts, chip>>

\* setGain lends getResponse a buffer of DV3000_REQ_GAIN_LEN + 2 = 7 bytes.  The
\* answers to RATEP and GAIN fit into it; a product name or a frame that is read
\* here is written past its end, which setGainReturns survives and this does not.
setGainOverruns ==
  /\ pc = "setGain"
  /\ \E m \in Arrivals : m.type \in {"NAME", "AMBE", "AUDIO"} /\ getResponse(m)
  /\ pc' = "overrun"
  /\ UNCHANGED <<object, call, got, openPorts, chip>>

encodeIn == /\ call.op = "encode"
            /\ write([type |-> "AUDIO", body |-> call.body])

decodeIn == /\ call.op = "decode"
            /\ write([type |-> "AMBE", body |-> call.body,
                      bits |-> m_currentNbMbeBits, bytes |-> m_currentNbMbeBytes])

frameIn == /\ pc = "frameIn"
           /\ encodeIn \/ decodeIn
           /\ pc' = "frameOut"
           /\ UNCHANGED <<object, openPorts, call, got, chip>>

\* Mutation: a packet of any type is taken for the frame.
frameOutUnchecked ==
  /\ pc = "frameOut"
  /\ \E m \in Arrivals :
       /\ getResponse(m)
       /\ got' = IF m = RespError THEN NoReply ELSE m
  /\ pc' = "idle"
  /\ UNCHANGED <<object, openPorts, call, chip>>

\* As many bytes are copied to the caller as setRate has cached: fewer than the frame
\* has cut it off, more add what is behind it.
copied(m) == [m EXCEPT !.intact = (m_currentNbMbeBytes = BytesOf(m.bits))]

\* A packet of the right type is the result, whatever query it answers; anything
\* else makes the call return false.
encodeOut(m) == /\ call.op = "encode"
                /\ got' = IF m.type = "AMBE" THEN copied(m) ELSE NoReply

decodeOut(m) == /\ call.op = "decode"
                /\ got' = IF m.type = "AUDIO" THEN m ELSE NoReply

frameOut == /\ pc = "frameOut"
            /\ \E m \in Arrivals : getResponse(m) /\ (encodeOut(m) \/ decodeOut(m))
            /\ pc' = "idle"
            /\ UNCHANGED <<object, openPorts, call, chip>>

\* From the second byte of a part of a packet on read waits without a timeout, and
\* it spins when the line is hung up: a wait may never return.
waitHangs == /\ Hangs
             /\ pc \in Waiting
             /\ pc' = "hung"
             /\ UNCHANGED <<object, call, got, openPorts, link, chip>>
-----------------------------------------------------------------------------
(***************************************************************************)
(* The device and the link.  The chip handles its queries in order and     *)
(* answers each of them.                                                   *)
(***************************************************************************)
Configured(q) ==
  CASE q.type = "RATEP" -> [chip EXCEPT !.rate = q.rate]
    [] q.type = "GAIN"  -> [chip EXCEPT !.gainIn = q.gainIn,
                                        !.gainOut = q.gainOut]
    [] OTHER            -> chip

\* It makes sense of a frame that has the number of bits of its rate, and the bytes
\* for them.
Understood(q) == q.bits = ControlWordBits[chip.rate] /\ q.bytes = BytesOf(q.bits)

Answer(q) ==
  CASE q.type = "PRODID" -> [type |-> "NAME"]
    [] q.type = "AUDIO"  -> [type |-> "AMBE", body |-> q.body,
                             rate |-> chip.rate, gain |-> chip.gainIn,
                             bits |-> ControlWordBits[chip.rate], intact |-> TRUE]
    [] q.type = "AMBE"   -> [type |-> "AUDIO", body |-> q.body,
                             rate |-> chip.rate, gain |-> chip.gainOut,
                             bits |-> q.bits, intact |-> Understood(q)]
    [] OTHER             -> [type |-> q.type]

\* Nobody receives a reply that comes while the device is closed.
ChipAnswers ==
  /\ toDevice # <<>>
  /\ chip' = Configured(Head(toDevice))
  /\ toHost' = IF openPorts > 0 THEN Append(toHost, Answer(Head(toDevice)))
                                ELSE toHost
  /\ toDevice' = Tail(toDevice)
  /\ UNCHANGED <<object, pc, call, got, openPorts>>

\* READY is 5 bytes long, which fit wherever a reply is read into.
ChipReports ==
  /\ Reports /\ openPorts > 0 /\ InFlight <= MaxBacklog
  /\ toHost' = Append(toHost, [type |-> "UNKNOWN"])
  /\ UNCHANGED <<object, pc, call, got, openPorts, toDevice, chip>>

\* Both wires keep the order, so it is enough to lose a packet at their ends.
LoseQuery == /\ LosesQueries /\ toDevice # <<>>
             /\ toDevice' = Tail(toDevice)
             /\ UNCHANGED <<object, pc, call, got, openPorts, toHost, chip>>

LoseReply == /\ LosesReplies /\ toHost # <<>>
             /\ toHost' = Tail(toHost)
             /\ UNCHANGED <<object, pc, call, got, openPorts, toDevice, chip>>

PowerCycle ==
  /\ Replug
  /\ pc = "idle" /\ ~m_open
  /\ chip' = [rate |-> PowerOnRate, gainIn |-> 0, gainOut |-> 0]
  /\ toDevice' = <<>>
  /\ UNCHANGED <<object, pc, call, got, openPorts, toHost>>

\* What the client makes the object begin, and how the object goes on from there.
Calls ==
  \/ open \/ close \/ closeAborts
  \/ \E f \in Frames, r \in Rates, g \in Gains : encode(f, r, g) \/ decode(f, r, g)

Proceeds == \/ openIdentified \/ openRefused
            \/ setRate \/ setRateReturns \/ setGain \/ setGainReturns \/ setGainOverruns
            \/ frameIn \/ frameOut
            \/ waitHangs

Environment == ChipAnswers \/ ChipReports \/ LoseQuery \/ LoseReply \/ PowerCycle

Next == Calls \/ Proceeds \/ Environment

Spec == Init /\ [][Next]_vars

\* The thread runs: each wait of a call comes back with a packet, gives up after a
\* bounded number of turns, or hangs for good, and nothing else holds the call up.
\* And the chip gets round to every query it is sent.
FairSpec == Spec /\ WF_vars(Proceeds) /\ WF_vars(ChipAnswers)
-----------------------------------------------------------------------------
(***************************************************************************)
(* Properties.                                                             *)
(***************************************************************************)
TypeOK ==
  /\ m_serial \in {"none", "open", "shut", "stale"}
  /\ m_open \in BOOLEAN
  /\ m_currentRate \in Rates \cup {"DVRateNone"}
  /\ m_currentGainIn \in Gains \cup {0}
  /\ m_currentGainOut \in Gains \cup {0}
  /\ m_currentNbMbeBits \in Nat
  /\ m_currentNbMbeBytes \in Nat
  /\ pc \in FrameStages \cup {"idle", "prodid", "aborted", "overrun", "hung"}
  /\ call \in FrameCall \cup {NoCall}
  /\ pc \in FrameStages => call # NoCall
  /\ got \in FrameReply \cup {NoReply}
  /\ got # NoReply => call # NoCall /\ pc \in {"idle", "aborted"}
  /\ openPorts \in 0 .. MaxPorts
  /\ toDevice \in Seq(Query)
  /\ toHost \in Seq(Reply)
  /\ chip \in [rate : Programmable, gainIn : Levels, gainOut : Levels]

\* The settings with which the chip handles a frame can only be lost if the
\* link loses the query that makes them, or the chip is power-cycled.
SettingsArrive == ~LosesQueries /\ ~Replug

NoneOfType(queue, type) == \A i \in DOMAIN queue : queue[i].type # type

\* The last packet of its type in the queue.
IsLastOfType(q, queue) ==
  \E i \in DOMAIN queue :
    /\ queue[i] = q
    /\ \A j \in DOMAIN queue : j > i => queue[j].type # q.type

\* Once the chip has handled what is on its way to it, it works at rate r, or with
\* these gains.
WillHaveRate(r) ==
  \/ chip.rate = r /\ NoneOfType(toDevice, "RATEP")
  \/ IsLastOfType([type |-> "RATEP", rate |-> r], toDevice)

WillHaveGains(i, o) ==
  \/ chip.gainIn = i /\ chip.gainOut = o /\ NoneOfType(toDevice, "GAIN")
  \/ IsLastOfType([type |-> "GAIN", gainIn |-> i, gainOut |-> o], toDevice)

\* What encode and decode compare the caller's rate and gain with is what the chip
\* has or is about to have, whichever answers were given up, came late or were
\* mistaken for others, and also after the object has been closed and reopened.
SettingsAreCached ==
  SettingsArrive =>
    /\ pc \notin {"setRate", "hung"} /\ m_currentRate \in Programmable =>
         WillHaveRate(m_currentRate)
    /\ pc \notin {"setGain", "overrun", "hung"} =>
         WillHaveGains(GainLevel(m_currentGainIn), GainLevel(m_currentGainOut))

\* Readme.md: query/reply pairs.  On a prompt link, where no wait is given up while
\* its answer is still coming and nothing comes unasked, the frame a call returns
\* answers its own query, however many queries and replies get lost.
PromptLinkPairs ==
  MaxBacklog = 0 /\ ~Reports => (got # NoReply => got.body = call.body)

\* The frames have the size that the control words of the rate give them.
WholeFrames == Programmable \ {"DVRate2200"}

\* A call that finds nothing in flight is safe against every abandoned wait of
\* its own: a late answer to setRate or setGain is not taken for the frame, and
\* the frame was handled at the rate and with the gain the caller asked for,
\* although encode and decode ignore what setRate and setGain return.  It is a whole
\* frame too: the size that setRate has cached is the one the chip works with, though
\* setRate caches it whatever it returns.
SyncedCallIsServed ==
  got # NoReply /\ call.synced =>
    /\ got.body = call.body
    /\ SettingsArrive =>
         /\ got.gain = GainLevel(call.gain)
         /\ call.rate \in Programmable => got.rate = call.rate
         /\ call.rate \in WholeFrames => got.intact

\* dvcontroller.h:170: gains go from -90 to +90 dB.  A frame is amplified by such a
\* gain exactly as much as its caller asks, although the int is narrowed to a char
\* before it is clamped and the object compares the ints: a gain beyond that range
\* that wraps to the same level, or to the opposite one, does not get in its way.
DocumentedGainIsApplied ==
  got # NoReply /\ call.synced /\ SettingsArrive /\ call.gain \in Levels =>
    got.gain = call.gain

\* Nor is it taken where it does not fit.  Only what an earlier call left behind
\* can be read into the short buffer of setGain and be too long for it.
SyncedCallFitsBuffers == pc = "overrun" => ~call.synced

\* The size the object cached in setRate, the size it announces to callers and
\* the size of the frames the chip handles at that rate are the same: encodeOut
\* copies the bytes of the reply, no more and no fewer, and decodeIn announces
\* the bits the chip expects.
FrameSizesAgree ==
  got # NoReply /\ call.synced /\ SettingsArrive /\ call.rate \in Programmable =>
    /\ got.bits = ControlWordBits[got.rate]
    /\ got.bits = getNbMbeBits(call.rate)
    /\ m_currentNbMbeBytes = BytesOf(got.bits)
    /\ m_currentNbMbeBytes = getNbMbeBytes(call.rate)

\* Packets in flight that the call in progress is not waiting for.
Backlog == InFlight - (IF pc \in Waiting THEN 1 ELSE 0)

\* While the object is open its waits take one packet or none: nothing is read
\* twice and nothing skipped, so the backlog moves only by the packet that an
\* abandoned wait leaves behind, or one that comes unasked.  Nothing in the object
\* ever works it off.
BacklogIsConserved ==
  [][~LosesQueries /\ ~LosesReplies /\ m_open /\ m_open' =>
       \/ Backlog' = Backlog
       \/ Backlog' = Backlog + 1 /\ (pc' = "hung" \/ pc \in Waiting \/ ChipReports)]_vars

\* The transports that are open although no object uses them.
Strays == openPorts - (IF m_open \/ pc \in {"prodid", "hung"} THEN 1 ELSE 0)

\* A client that consults isOpen() never runs into the assertion of closeIt, and
\* every transport it has opened is closed in time, with one exception that no care
\* avoids: one that low latency was refused to stays open for good.
OnlyRefusedOpensLeak ==
  [][Careful =>
       /\ pc' # "aborted"
       /\ \/ Strays' = Strays
          \/ /\ Strays' = Strays + 1
             /\ ~LowLatency /\ pc = "idle" /\ m_serial' = "open" /\ ~m_open']_vars

-----------------------------------------------------------------------------
(***************************************************************************)
(* What the object promises, and the states of this module as states of    *)
(* the promise.                                                            *)
(***************************************************************************)
serviceRequest ==
  IF call = NoCall THEN NoCall
  ELSE [op |-> call.op, body |-> call.body, rate |-> call.rate, gain |-> call.gain]

serviceResult ==
  CASE call = NoCall -> [is |-> "none"]
    [] call # NoCall /\ pc \in FrameStages \cup {"hung"} -> [is |-> "pending"]
    [] call # NoCall /\ pc \notin FrameStages \cup {"hung"} /\ got = NoReply ->
         [is |-> "failed"]
    [] OTHER -> [is |-> "served", op |-> call.op, body |-> got.body,
                 rate |-> got.rate, gain |-> got.gain, intact |-> got.intact]

Service == INSTANCE FrameService
             WITH opened <- m_open, request <- serviceRequest,
                  result <- serviceResult

\* Readme.md: atomic operations, each returned a complete reply or an error.  On
\* a link that keeps what is written to it and whose answers are prompt or lost,
\* and if its waits return, the object implements FrameService.
ServiceIsImplemented == Service!Spec
=============================================================================
