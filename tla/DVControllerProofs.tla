------------------------- MODULE DVControllerProofs -------------------------
(***************************************************************************)
(* Theorems about DVController, for every value of its constants: types    *)
(* and queries, then the transport and the settings, then the calls that   *)
(* begin with nothing in flight, and what a client sees, down to           *)
(* FrameService.  The last part rests on all others: it is about dvtest,   *)
(* the program around the object, with which DvTest extends DVController.  *)
(***************************************************************************)
EXTENDS DvTest, SequenceTheorems, TLAPS

(***************************************************************************)
(* Lemmas about AmbeProtocol.                                              *)
(***************************************************************************)

\* Whatever int a caller passes, the level sent to the chip is in -90..90 dB.
LEMMA GainLevelIsLevel ==
  ASSUME NEW g \in Int
  PROVE  GainLevel(g) \in Levels
<1>1. ToSignedChar(g) \in Int
  BY SMT DEF ToSignedChar
<1>2. QED
  BY <1>1, SMT DEF GainLevel, ClampDb, Levels

\* The tables of setRate and of the chip have an entry for the same rates.
LEMMA RateTables ==
  ASSUME NEW r \in Programmable
  PROVE  /\ RateBits[r] \in Nat
         /\ RateBytes[r] \in Nat
         /\ ControlWordBits[r] \in Nat
  BY SMT DEF Programmable, RateBits, RateBytes, ControlWordBits

(***************************************************************************)
(* Lemmas about packets.                                                   *)
(***************************************************************************)

\* What is taken from the link is a packet or an error, and what is left is typed.
LEMMA ArrivalsAreTyped ==
  ASSUME toHost \in Seq(Reply), NEW m \in Arrivals
  PROVE  /\ m = RespError \/ m \in Reply
         /\ Left(m) \in Seq(Reply)
<1>1. CASE m = RespError
  BY <1>1 DEF Left
<1>2. CASE m # RespError
  <2>1. toHost # <<>> /\ m = Head(toHost)
    BY <1>2 DEF Arrivals
  <2>2. QED
    BY <1>2, <2>1, HeadTailProperties DEF Left
<1>3. QED
  BY <1>1, <1>2

\* An arrival is an error, within the bound on the backlog, or the oldest packet.
LEMMA ArrivalCases ==
  ASSUME NEW m \in Arrivals
  PROVE  \/ m = RespError /\ InFlight <= MaxBacklog
         \/ toHost # <<>> /\ m = Head(toHost)
<1>1. CASE m \in (IF InFlight <= MaxBacklog THEN {RespError} ELSE {})
  BY <1>1, Zenon
<1>2. CASE m \in (IF toHost = <<>> THEN {} ELSE {Head(toHost)})
  BY <1>2, Zenon
<1>3. QED
  BY <1>1, <1>2, Zenon DEF Arrivals

\* A read takes the oldest packet, or none.
LEMMA ReadTakesOldest ==
  ASSUME NEW m \in Arrivals, getResponse(m)
  PROVE  /\ UNCHANGED toDevice
         /\ \/ m = RespError /\ UNCHANGED toHost
            \/ toHost # <<>> /\ m = Head(toHost) /\ toHost' = Tail(toHost)
<1>1. UNCHANGED toDevice /\ toHost' = Left(m)
  BY DEF getResponse
<1>2. m = RespError \/ (m # RespError /\ toHost # <<>> /\ m = Head(toHost))
  BY ArrivalCases
<1>3. m = RespError => Left(m) = toHost
  BY Zenon DEF Left
<1>4. m # RespError => Left(m) = Tail(toHost)
  BY Zenon DEF Left
<1>5. QED
  BY <1>1, <1>2, <1>3, <1>4

\* A copied frame is the frame, whole or not.
LEMMA CopyIsFrame ==
  ASSUME NEW m \in FrameReply
  PROVE  /\ copied(m) \in FrameReply
         /\ copied(m).type = m.type /\ copied(m).body = m.body /\ copied(m).rate = m.rate
         /\ copied(m).gain = m.gain /\ copied(m).bits = m.bits
         /\ copied(m).intact = (m_currentNbMbeBytes = BytesOf(m.bits))
<1> DEFINE b == (m_currentNbMbeBytes = BytesOf(m.bits))
<1>1. b \in BOOLEAN
  OBVIOUS
<1>2. copied(m) = [m EXCEPT !.intact = b]
  BY DEF copied
<1> HIDE DEF b
<1>3. QED
  <2>1. /\ copied(m) \in FrameReply
        /\ copied(m).type = m.type /\ copied(m).body = m.body /\ copied(m).rate = m.rate
        /\ copied(m).gain = m.gain /\ copied(m).bits = m.bits
        /\ copied(m).intact = b
    BY <1>1, <1>2 DEF FrameReply
  <2>2. QED
    BY <2>1 DEF b

\* What encodeOut and decodeOut hand on is the frame they were given, or nothing.
LEMMA ResultIsFrame ==
  ASSUME NEW m, m = RespError \/ m \in Reply, encodeOut(m) \/ decodeOut(m)
  PROVE  \/ got' = NoReply
         \/ /\ got' \in FrameReply /\ m \in FrameReply /\ m # RespError
            /\ got'.type = m.type /\ got'.body = m.body /\ got'.rate = m.rate
            /\ got'.gain = m.gain /\ got'.bits = m.bits
            /\ got'.intact = m.intact \/ got'.intact = (m_currentNbMbeBytes = BytesOf(m.bits))
<1>1. CASE m.type \notin {"AMBE", "AUDIO"}
  BY <1>1 DEF encodeOut, decodeOut
<1>2. CASE m.type \in {"AMBE", "AUDIO"}
  <2>1. m \in FrameReply /\ m # RespError
    BY <1>2 DEF RespError, Reply, FrameReply
  <2>2. got' \in {NoReply, m, copied(m)}
    BY DEF encodeOut, decodeOut
  <2>3. QED
    BY <2>1, <2>2, CopyIsFrame
<1>3. QED
  BY <1>1, <1>2

\* The chip answers every query with a packet.
LEMMA AnswersAreReplies ==
  ASSUME chip \in [rate : Programmable, gainIn : Levels, gainOut : Levels],
         NEW q \in Query
  PROVE  /\ Answer(q) \in Reply
         /\ Configured(q) \in [rate : Programmable, gainIn : Levels, gainOut : Levels]
<1>1. CASE q \in [type : {"PRODID"}]
  BY <1>1 DEF Answer, Configured, Reply
<1>2. CASE q \in [type : {"RATEP"}, rate : Programmable]
  BY <1>2 DEF Answer, Configured, Reply
<1>3. CASE q \in [type : {"GAIN"}, gainIn : Levels, gainOut : Levels]
  BY <1>3 DEF Answer, Configured, Reply
<1>4. CASE q \in [type : {"AUDIO"}, body : Frames]
  <2>1. ControlWordBits[chip.rate] \in Nat
    BY RateTables
  <2>2. Answer(q) \in FrameReply
    BY <1>4, <2>1 DEF Answer, FrameReply
  <2>3. QED
    BY <1>4, <2>2 DEF Configured, Reply
<1>5. CASE q \in [type : {"AMBE"}, body : Frames, bits : Nat, bytes : Nat]
  <2>0. Understood(q) \in BOOLEAN
    BY DEF Understood
  <2>1. Answer(q) \in FrameReply
    BY <1>5, <2>0 DEF Answer, FrameReply
  <2>2. QED
    BY <1>5, <2>1 DEF Configured, Reply
<1>6. QED
  BY <1>1, <1>2, <1>3, <1>4, <1>5 DEF Query

(***************************************************************************)
(* The type invariant.  It is inductive together with the bookkeeping of   *)
(* the transport: closeIt counts down what open has counted up.            *)
(***************************************************************************)
Ports == /\ m_open \/ pc = "prodid" => m_serial = "open"
         /\ pc = "prodid" => ~m_open
         /\ m_serial = "open" => openPorts > 0

Typed == TypeOK /\ Ports

\* A new object, and a device nobody has written to, are typed.
LEMMA InitTyped == Init => Typed
<1> SUFFICES ASSUME Init PROVE Typed
  OBVIOUS
<1>1. chip \in [rate : Programmable, gainIn : Levels, gainOut : Levels]
  BY ConstantsAssumption, SMT DEF Init, Levels
<1>2. toDevice \in Seq(Query) /\ toHost \in Seq(Reply)
  BY DEF Init
<1>3. openPorts \in 0 .. MaxPorts
  BY ConstantsAssumption, SMT DEF Init
<1>4. QED
  BY <1>1, <1>2, <1>3 DEF Init, Typed, TypeOK, Ports, FrameStages

\* What the client makes the object begin keeps the types.
LEMMA CallsTyped ==
  ASSUME Typed, Calls
  PROVE  Typed'
<1>1. CASE open
  <2>1. openPorts + 1 \in 0 .. MaxPorts /\ openPorts \in 0 .. MaxPorts
    BY <1>1, ConstantsAssumption, SMT DEF open, Typed, TypeOK
  <2>2. [type |-> "PRODID"] \in Query
    BY DEF Query
  <2>3. Append(toDevice, [type |-> "PRODID"]) \in Seq(Query)
    BY <2>2, AppendProperties DEF Typed, TypeOK
  <2>4. TypeOK'
    BY <1>1, <2>1, <2>3 DEF open, write, transportFails, settings, link, Typed,
                            TypeOK, FrameStages
  <2>5. Ports'
    BY <1>1, <2>1, SMT DEF open, write, transportFails, settings, link, Typed, Ports
  <2>6. QED
    BY <2>4, <2>5 DEF Typed
<1>2. CASE close
  <2>1. m_serial = "open" => openPorts - 1 \in 0 .. MaxPorts
    BY ConstantsAssumption, SMT DEF Typed, TypeOK, Ports
  <2>2. openPorts' \in 0 .. MaxPorts
    BY <1>2, <2>1 DEF close, closeIt, Typed, TypeOK
  <2>3. m_serial' = "shut" /\ toHost' \in {toHost, <<>>}
    BY <1>2 DEF close, closeIt
  <2>4. TypeOK'
    <3>1. toHost' \in Seq(Reply)
      BY <2>3, EmptySeq, Zenon DEF Typed, TypeOK
    <3>2. QED
      BY <1>2, <2>2, <2>3, <3>1 DEF close, settings, Typed, TypeOK, FrameStages
  <2>5. Ports'
    BY <1>2, <2>3 DEF close, Ports
  <2>6. QED
    BY <2>4, <2>5 DEF Typed
<1>3. CASE closeAborts
  BY <1>3 DEF closeAborts, object, link, Typed, TypeOK, Ports, FrameStages
<1>4. CASE \E f \in Frames, r \in Rates, g \in Gains : encode(f, r, g) \/ decode(f, r, g)
  <2>1. PICK op \in {"encode", "decode"}, f \in Frames, r \in Rates, g \in Gains :
          start(op, f, r, g)
    BY <1>4 DEF encode, decode
  <2>2. call' \in FrameCall /\ call' # NoCall
    <3>1. (InFlight = 0) \in BOOLEAN
      OBVIOUS
    <3>2. call' \in FrameCall
      BY <2>1, <3>1, Zenon DEF start, FrameCall
    <3>3. QED
      BY <3>2, ConstantsAssumption
  <2>3. TypeOK'
    BY <2>1, <2>2 DEF start, object, link, Typed, TypeOK, FrameStages
  <2>4. Ports'
    BY <2>1 DEF start, object, link, Typed, Ports
  <2>5. QED
    BY <2>3, <2>4 DEF Typed
<1>5. QED
  BY <1>1, <1>2, <1>3, <1>4 DEF Calls

\* The gains of which setGain sends the levels are gains that callers asked for.
LEMMA NewGainsAreTyped ==
  ASSUME TypeOK, pc \in FrameStages
  PROVE  newGainIn \in Gains \cup {0} /\ newGainOut \in Gains \cup {0}
<1>1. call.gain \in Gains
  BY DEF TypeOK, FrameCall
<1>2. QED
  BY <1>1 DEF newGainIn, newGainOut, TypeOK

\* So do the steps of a call that has begun.
LEMMA ProceedsTyped ==
  ASSUME Typed, Proceeds
  PROVE  Typed'
<1>1. CASE openIdentified
  <2>1. toHost' \in Seq(Reply) /\ UNCHANGED toDevice
    BY <1>1, ArrivalsAreTyped DEF openIdentified, getResponse, Typed, TypeOK
  <2>2. TypeOK'
    BY <1>1, <2>1 DEF openIdentified, settings, Typed, TypeOK, FrameStages
  <2>3. Ports'
    BY <1>1 DEF openIdentified, Typed, Ports
  <2>4. QED
    BY <2>2, <2>3 DEF Typed
<1>2. CASE openRefused
  <2>1. openPorts - 1 \in 0 .. MaxPorts
    BY <1>2, ConstantsAssumption, SMT DEF openRefused, Typed, TypeOK, Ports
  <2>2. PICK m \in Arrivals : closeIt(Left(m))
    BY <1>2 DEF openRefused
  <2>3. openPorts' \in 0 .. MaxPorts /\ m_serial' = "shut"
    BY <2>1, <2>2 DEF closeIt
  <2>4. toHost' \in Seq(Reply)
    BY <2>2, ArrivalsAreTyped DEF closeIt, Typed, TypeOK
  <2>5. TypeOK'
    BY <1>2, <2>3, <2>4 DEF openRefused, settings, Typed, TypeOK, FrameStages
  <2>6. ~m_open' /\ pc' = "idle"
    BY <1>2 DEF openRefused, Typed, Ports
  <2>7. QED
    BY <2>3, <2>5, <2>6 DEF Typed, Ports
<1>3. CASE setRate
  <2>1. call \in FrameCall /\ call.rate \in Rates
    BY <1>3 DEF setRate, Typed, TypeOK, FrameStages, FrameCall
  <2>2. CASE call.rate # m_currentRate /\ call.rate \in Programmable /\ pc' = "setRate"
    <3>1. [type |-> "RATEP", rate |-> call.rate] \in Query
      BY <2>2 DEF Query
    <3>2. RateBits[call.rate] \in Nat /\ RateBytes[call.rate] \in Nat
      BY <2>2, RateTables
    <3>3. toDevice' \in Seq(Query) /\ UNCHANGED toHost
      <4>1. write([type |-> "RATEP", rate |-> call.rate])
        BY <1>3, <2>2 DEF setRate
      <4>2. QED
        BY <3>1, <4>1, AppendProperties DEF write, Typed, TypeOK
    <3>4. m_currentNbMbeBits' \in Nat /\ m_currentNbMbeBytes' \in Nat
          /\ UNCHANGED m_currentRate
      BY <1>3, <2>2, <3>2 DEF setRate
    <3>5. TypeOK'
      BY <1>3, <2>1, <2>2, <3>3, <3>4 DEF setRate, Typed, TypeOK, FrameStages
    <3>6. QED
      BY <1>3, <2>2, <3>5 DEF setRate, Typed, Ports
  <2>3. CASE pc' = "gain" /\ m_currentRate' = call.rate
             /\ UNCHANGED <<m_currentNbMbeBits, m_currentNbMbeBytes, link>>
    <3>1. TypeOK'
      BY <1>3, <2>1, <2>3 DEF setRate, link, Typed, TypeOK, FrameStages
    <3>2. QED
      BY <1>3, <2>3, <3>1 DEF setRate, Typed, Ports
  <2>4. QED
    BY <1>3, <2>2, <2>3 DEF setRate
<1>4. CASE setRateReturns
  <2>1. call \in FrameCall /\ call.rate \in Rates
    BY <1>4 DEF setRateReturns, Typed, TypeOK, FrameStages, FrameCall
  <2>2. toHost' \in Seq(Reply) /\ UNCHANGED toDevice
    BY <1>4, ArrivalsAreTyped DEF setRateReturns, getResponse, Typed, TypeOK
  <2>3. TypeOK'
    BY <1>4, <2>1, <2>2 DEF setRateReturns, Typed, TypeOK, FrameStages
  <2>4. QED
    BY <1>4, <2>3 DEF setRateReturns, Typed, Ports
<1>5. CASE setGain
  <2>1. newGainIn \in Int /\ newGainOut \in Int
    <3>1. newGainIn \in Gains \cup {0} /\ newGainOut \in Gains \cup {0}
      BY <1>5, NewGainsAreTyped DEF setGain, Typed, FrameStages
    <3>2. QED
      BY <3>1, ConstantsAssumption
  <2>2. [type |-> "GAIN", gainIn |-> GainLevel(newGainIn),
         gainOut |-> GainLevel(newGainOut)] \in Query
    BY <2>1, GainLevelIsLevel DEF Query
  <2>3. toDevice' \in Seq(Query) /\ UNCHANGED toHost
    <3>1. CASE write([type |-> "GAIN", gainIn |-> GainLevel(newGainIn),
                      gainOut |-> GainLevel(newGainOut)])
      BY <2>2, <3>1, AppendProperties DEF write, Typed, TypeOK
    <3>2. CASE UNCHANGED link
      BY <3>2 DEF link, Typed, TypeOK
    <3>3. QED
      BY <1>5, <3>1, <3>2 DEF setGain
  <2>4. TypeOK'
    BY <1>5, <2>3 DEF setGain, object, Typed, TypeOK, FrameStages
  <2>5. QED
    BY <1>5, <2>4 DEF setGain, object, Typed, Ports
<1>6. CASE setGainReturns
  <2>1. toHost' \in Seq(Reply) /\ UNCHANGED toDevice
    BY <1>6, ArrivalsAreTyped DEF setGainReturns, getResponse, Typed, TypeOK
  <2>2. newGainIn \in Gains \cup {0} /\ newGainOut \in Gains \cup {0}
    BY <1>6, NewGainsAreTyped DEF setGainReturns, Typed, FrameStages
  <2>3. TypeOK'
    BY <1>6, <2>1, <2>2 DEF setGainReturns, Typed, TypeOK, FrameStages
  <2>4. QED
    BY <1>6, <2>3 DEF setGainReturns, Typed, Ports
<1>7. CASE setGainOverruns
  <2>1. toHost' \in Seq(Reply) /\ UNCHANGED toDevice
    BY <1>7, ArrivalsAreTyped DEF setGainOverruns, getResponse, Typed, TypeOK
  <2>2. TypeOK'
    BY <1>7, <2>1 DEF setGainOverruns, object, Typed, TypeOK, FrameStages
  <2>3. QED
    BY <1>7, <2>2 DEF setGainOverruns, object, Typed, Ports
<1>8. CASE frameIn
  <2>1. call \in FrameCall /\ call.body \in Frames
    BY <1>8 DEF frameIn, Typed, TypeOK, FrameStages, FrameCall
  <2>2. PICK q \in Query : write(q)
    BY <1>8, <2>1 DEF frameIn, encodeIn, decodeIn, Query, Typed, TypeOK
  <2>3. toDevice' \in Seq(Query) /\ UNCHANGED toHost
    BY <2>2, AppendProperties DEF write, Typed, TypeOK
  <2>4. TypeOK'
    BY <1>8, <2>3 DEF frameIn, object, Typed, TypeOK, FrameStages
  <2>5. QED
    BY <1>8, <2>4 DEF frameIn, object, Typed, Ports
<1>9. CASE frameOut
  <2>1. call # NoCall
    BY <1>9 DEF frameOut, Typed, TypeOK, FrameStages
  <2>2. PICK m \in Arrivals : getResponse(m) /\ (encodeOut(m) \/ decodeOut(m))
    BY <1>9 DEF frameOut
  <2>3. toHost' \in Seq(Reply) /\ UNCHANGED toDevice
    BY <2>2, ArrivalsAreTyped DEF getResponse, Typed, TypeOK
  <2>4. got' \in FrameReply \cup {NoReply}
    BY <2>2, ArrivalsAreTyped, ResultIsFrame DEF Typed, TypeOK
  <2>5. TypeOK'
    BY <1>9, <2>1, <2>3, <2>4 DEF frameOut, object, Typed, TypeOK, FrameStages
  <2>6. QED
    BY <1>9, <2>5 DEF frameOut, object, Typed, Ports
<1>10. CASE waitHangs
  BY <1>10 DEF waitHangs, object, link, Typed, TypeOK, Ports, Waiting, FrameStages
<1>11. QED
  BY <1>1, <1>2, <1>3, <1>4, <1>5, <1>6, <1>7, <1>8, <1>9, <1>10 DEF Proceeds

\* So do the chip and the link.
LEMMA EnvironmentTyped ==
  ASSUME Typed, Environment
  PROVE  Typed'
<1>1. CASE ChipAnswers
  <2>1. Head(toDevice) \in Query /\ toDevice' \in Seq(Query)
    BY <1>1, HeadTailProperties DEF ChipAnswers, Typed, TypeOK
  <2>2. /\ Answer(Head(toDevice)) \in Reply
        /\ chip' \in [rate : Programmable, gainIn : Levels, gainOut : Levels]
    BY <1>1, <2>1, AnswersAreReplies DEF ChipAnswers, Typed, TypeOK
  <2>3. toHost' \in Seq(Reply)
    BY <1>1, <2>2, AppendProperties DEF ChipAnswers, Typed, TypeOK
  <2>4. TypeOK'
    BY <1>1, <2>1, <2>2, <2>3 DEF ChipAnswers, object, Typed, TypeOK
  <2>5. QED
    BY <1>1, <2>4 DEF ChipAnswers, object, Typed, Ports
<1>2. CASE LoseQuery
  <2>1. toDevice' \in Seq(Query)
    BY <1>2, HeadTailProperties DEF LoseQuery, Typed, TypeOK
  <2>2. QED
    BY <1>2, <2>1 DEF LoseQuery, object, Typed, TypeOK, Ports
<1>3. CASE LoseReply
  <2>1. toHost' \in Seq(Reply)
    BY <1>3, HeadTailProperties DEF LoseReply, Typed, TypeOK
  <2>2. QED
    BY <1>3, <2>1 DEF LoseReply, object, Typed, TypeOK, Ports
<1>4. CASE PowerCycle
  <2>1. chip' \in [rate : Programmable, gainIn : Levels, gainOut : Levels]
    BY <1>4, ConstantsAssumption, SMT DEF PowerCycle, Levels
  <2>2. toDevice' \in Seq(Query)
    BY <1>4, EmptySeq DEF PowerCycle
  <2>3. QED
    BY <1>4, <2>1, <2>2 DEF PowerCycle, object, Typed, TypeOK, Ports
<1>5. CASE ChipReports
  <2>1. [type |-> "UNKNOWN"] \in Reply
    BY DEF Reply
  <2>2. toHost' \in Seq(Reply)
    BY <1>5, <2>1, AppendProperties DEF ChipReports, Typed, TypeOK
  <2>3. QED
    BY <1>5, <2>2 DEF ChipReports, object, Typed, TypeOK, Ports
<1>6. QED
  BY <1>1, <1>2, <1>3, <1>4, <1>5 DEF Environment

\* The variables have their types and the transport its bookkeeping.
THEOREM TypingIsInvariant == Spec => []Typed
<1>1. Init => Typed
  BY InitTyped
<1>2. Typed /\ [Next]_vars => Typed'
  <2> SUFFICES ASSUME Typed, [Next]_vars PROVE Typed'
    OBVIOUS
  <2>1. CASE Next
    BY <2>1, CallsTyped, ProceedsTyped, EnvironmentTyped DEF Next
  <2>2. CASE UNCHANGED vars
    BY <2>2 DEF vars, object, link, Typed, TypeOK, Ports
  <2>3. QED
    BY <2>1, <2>2
<1>3. QED
  BY <1>1, <1>2, PTL DEF Spec

\* Every member of the object, every packet on the link and the configuration of
\* the chip have the type that the code gives them.
THEOREM TypeCorrectness == Spec => []TypeOK
<1>1. Typed => TypeOK
  BY DEF Typed
<1>2. QED
  BY <1>1, TypingIsInvariant, PTL

(***************************************************************************)
(* Prompt links.  When no wait is given up while something is in flight,   *)
(* nothing is in flight between the transactions and a transaction never   *)
(* sees more than its own packet.                                          *)
(***************************************************************************)
FrameQueryTypes == {"AUDIO", "AMBE"}

OwnFrameOnly ==
  /\ \A i \in DOMAIN toDevice :
       toDevice[i].type \in FrameQueryTypes /\ toDevice[i].body = call.body
  /\ \A i \in DOMAIN toHost : toHost[i].body = call.body

Alone == /\ InFlight <= 1
         /\ pc \notin Waiting \cup {"hung"} => InFlight = 0
         /\ pc = "frameOut" => OwnFrameOnly
         /\ got # NoReply => got.body = call.body

PromptInv == MaxBacklog = 0 /\ ~Reports => Alone

\* A write adds one packet to what is in flight.
LEMMA WriteAddsOne ==
  ASSUME Typed, NEW q \in Query, write(q)
  PROVE  /\ InFlight' = InFlight + 1
         /\ UNCHANGED toHost
         /\ DOMAIN toDevice' = 1 .. Len(toDevice) + 1
         /\ \A i \in 1 .. Len(toDevice) : toDevice'[i] = toDevice[i]
         /\ toDevice'[Len(toDevice) + 1] = q
<1>1. toDevice \in Seq(Query) /\ toHost \in Seq(Reply)
  BY DEF Typed, TypeOK
<1>2. toDevice' = Append(toDevice, q) /\ toHost' = toHost
  BY DEF write
<1>3. Len(toDevice') = Len(toDevice) + 1 /\ toDevice' \in Seq(Query)
  BY <1>1, <1>2, AppendProperties
<1>4. Len(toDevice) \in Nat /\ Len(toHost) \in Nat
  BY <1>1, LenProperties
<1>5. QED
  BY <1>1, <1>2, <1>3, <1>4, AppendProperties, LenProperties DEF InFlight

\* On a prompt link nothing is left in flight when getResponse has returned.
LEMMA PromptResponse ==
  ASSUME Typed, MaxBacklog = 0, InFlight <= 1, NEW m \in Arrivals
  PROVE  /\ toDevice = <<>> /\ Left(m) = <<>>
         /\ m # RespError => toHost # <<>> /\ m = toHost[1]
<1>1. toDevice \in Seq(Query) /\ toHost \in Seq(Reply)
  BY DEF Typed, TypeOK
<1>2. Len(toDevice) \in Nat /\ Len(toHost) \in Nat
  BY <1>1, LenProperties
<1>3. CASE m = RespError /\ InFlight <= 0
  <2>1. Len(toDevice) = 0 /\ Len(toHost) = 0
    BY <1>2, <1>3 DEF InFlight
  <2>2. toDevice = <<>> /\ toHost = <<>>
    BY <1>1, <2>1, EmptySeq
  <2>3. m = RespError
    BY <1>3
  <2>4. QED
    BY <2>2, <2>3 DEF Left
<1>4. CASE toHost # <<>> /\ m = Head(toHost)
  <2>1. Len(toHost) # 0 /\ Head(toHost) = toHost[1]
    BY <1>1, <1>4, EmptySeq
  <2>2. Len(toDevice) = 0 /\ Len(toHost) = 1
    <3>1. Len(toHost) # 0
      BY <2>1
    <3>2. Len(toDevice) + Len(toHost) <= 1
      BY DEF InFlight
    <3>3. ASSUME NEW a \in Nat, NEW b \in Nat, a + b <= 1, b # 0
          PROVE  a = 0 /\ b = 1
      BY <3>3, SMT
    <3>4. QED
      BY <1>2, <3>1, <3>2, <3>3
  <2>3. Tail(toHost) \in Seq(Reply) /\ Len(Tail(toHost)) = 0
    BY <1>1, <1>4, <2>2, HeadTailProperties
  <2>4. toDevice = <<>> /\ Tail(toHost) = <<>>
    BY <1>1, <2>2, <2>3, EmptySeq
  <2>5. m # RespError
    <3>1. m \in Reply
      BY <1>1, <1>4, HeadTailProperties
    <3>2. QED
      BY <3>1 DEF Reply, FrameReply, RespError
  <2>6. QED
    BY <1>4, <2>1, <2>4, <2>5, Zenon DEF Left
<1>5. QED
  BY <1>3, <1>4, ArrivalCases

\* With nothing in flight there are no packets.
LEMMA NothingInFlight ==
  ASSUME Typed
  PROVE  InFlight = 0 <=> toDevice = <<>> /\ toHost = <<>>
<1>1. toDevice \in Seq(Query) /\ toHost \in Seq(Reply)
  BY DEF Typed, TypeOK
<1>2. /\ Len(toDevice) \in Nat /\ Len(toHost) \in Nat
      /\ Len(toDevice) = 0 <=> toDevice = <<>>
      /\ Len(toHost) = 0 <=> toHost = <<>>
  BY <1>1, LenProperties, EmptySeq
<1>3. QED
  BY <1>2 DEF InFlight

\* A transaction that begins with nothing in flight has its own packet in flight.
LEMMA PromptWrite ==
  ASSUME Typed, Typed', InFlight = 0, NEW q \in Query, write(q)
  PROVE  /\ InFlight' <= 1
         /\ \A i \in DOMAIN toDevice' : toDevice'[i] = q
         /\ DOMAIN toHost' = {}
<1>1. toDevice = <<>> /\ toHost = <<>>
  BY NothingInFlight
<1>2. Len(toDevice) = 0
  BY <1>1, EmptySeq
<1>3. InFlight' = 1 /\ DOMAIN toDevice' = 1 .. 1 /\ toDevice'[1] = q
  BY <1>2, WriteAddsOne
<1>4. toHost' = <<>>
  BY <1>1 DEF write
<1>5. QED
  BY <1>3, <1>4

\* Where getResponse has returned, nothing is in flight.
LEMMA PromptReturn ==
  ASSUME Typed, Typed', MaxBacklog = 0, InFlight <= 1,
         NEW m \in Arrivals, getResponse(m)
  PROVE  InFlight' = 0
<1>1. toDevice' = <<>> /\ toHost' = <<>>
  BY PromptResponse DEF getResponse
<1>2. QED
  BY <1>1, EmptySeq DEF InFlight

\* Every call begins with nothing in flight.
LEMMA CallsPrompt ==
  ASSUME Typed, Typed', MaxBacklog = 0, Alone, Calls
  PROVE  Alone'
<1>1. CASE open
  <2>1. InFlight = 0 /\ got' = NoReply
    BY <1>1 DEF open, Alone, Waiting
  <2>2. CASE write([type |-> "PRODID"]) /\ pc' = "prodid"
    <3>1. [type |-> "PRODID"] \in Query
      BY DEF Query
    <3>2. InFlight' <= 1
      BY <2>1, <2>2, <3>1, PromptWrite
    <3>3. QED
      BY <2>1, <2>2, <3>2 DEF Alone, Waiting
  <2>3. CASE UNCHANGED <<link, pc>>
    <3>1. InFlight' = 0 /\ pc' = "idle"
      BY <1>1, <2>1, <2>3 DEF open, link, InFlight
    <3>2. QED
      BY <2>1, <3>1 DEF Alone
  <2>4. QED
    BY <1>1, <2>2, <2>3 DEF open
<1>2. CASE close
  <2>1. pc' = "idle" /\ got' = NoReply /\ InFlight = 0
    BY <1>2 DEF close, Alone, Waiting
  <2>2. toDevice = <<>> /\ toHost = <<>>
    BY <2>1, NothingInFlight
  <2>3. toDevice' = <<>> /\ toHost' = <<>>
    BY <1>2, <2>2 DEF close, closeIt
  <2>4. InFlight' = 0
    BY <2>3, EmptySeq DEF InFlight
  <2>5. QED
    BY <2>1, <2>4 DEF Alone
<1>3. CASE closeAborts
  <2>1. InFlight' = InFlight
    BY <1>3 DEF closeAborts, link, InFlight
  <2>2. QED
    BY <1>3, <2>1 DEF closeAborts, Alone, Waiting
<1>4. CASE \E f \in Frames, r \in Rates, g \in Gains : encode(f, r, g) \/ decode(f, r, g)
  <2>1. PICK op \in {"encode", "decode"}, f \in Frames, r \in Rates, g \in Gains :
          start(op, f, r, g)
    BY <1>4 DEF encode, decode
  <2>2. InFlight' = InFlight
    BY <2>1 DEF start, link, InFlight
  <2>3. pc' \in {"rate", "idle"} /\ got' = NoReply /\ InFlight = 0
    BY <2>1 DEF start, Alone, Waiting
  <2>4. QED
    BY <2>2, <2>3 DEF Alone
<1>5. QED
  BY <1>1, <1>2, <1>3, <1>4 DEF Calls

\* A call that goes on writes one query at a time and takes its answer or the loss
\* of it before it writes the next.
LEMMA ProceedsPrompt ==
  ASSUME Typed, Typed', MaxBacklog = 0, Alone, Proceeds
  PROVE  Alone'
<1>1. CASE openIdentified
  <2>1. InFlight' = 0
    BY <1>1, PromptReturn DEF openIdentified, Alone
  <2>2. QED
    BY <1>1, <2>1 DEF openIdentified, Alone
<1>2. CASE openRefused
  <2>1. PICK m \in Arrivals : closeIt(Left(m))
    BY <1>2 DEF openRefused
  <2>2. toDevice' = <<>> /\ toHost' = <<>>
    BY <1>2, <2>1, PromptResponse DEF openRefused, closeIt, Alone
  <2>3. InFlight' = 0
    BY <2>2, EmptySeq DEF InFlight
  <2>4. QED
    BY <1>2, <2>3 DEF openRefused, Alone
<1>3. CASE setRate
  <2>1. InFlight = 0 /\ got' = got /\ call' = call
    BY <1>3 DEF setRate, Alone, Waiting
  <2>2. CASE UNCHANGED link /\ pc' = "gain"
    <3>1. InFlight' = 0
      BY <2>1, <2>2 DEF link, InFlight
    <3>2. QED
      BY <2>1, <2>2, <3>1 DEF Alone
  <2>3. CASE /\ call.rate \in Programmable
             /\ write([type |-> "RATEP", rate |-> call.rate]) /\ pc' = "setRate"
    <3>1. [type |-> "RATEP", rate |-> call.rate] \in Query
      BY <2>3 DEF Query
    <3>2. InFlight' <= 1
      BY <2>1, <2>3, <3>1, PromptWrite
    <3>3. QED
      BY <2>1, <2>3, <3>2 DEF Alone, Waiting
  <2>4. QED
    BY <1>3, <2>2, <2>3 DEF setRate
<1>4. CASE setRateReturns
  <2>1. InFlight' = 0
    BY <1>4, PromptReturn DEF setRateReturns, Alone
  <2>2. QED
    BY <1>4, <2>1 DEF setRateReturns, Alone
<1>5. CASE setGain
  <2>1. InFlight = 0 /\ got' = got /\ call' = call
    BY <1>5 DEF setGain, Alone, Waiting
  <2>2. CASE UNCHANGED link /\ pc' = "frameIn"
    <3>1. InFlight' = 0
      BY <2>1, <2>2 DEF link, InFlight
    <3>2. QED
      BY <2>1, <2>2, <3>1 DEF Alone
  <2>3. CASE /\ write([type |-> "GAIN", gainIn |-> GainLevel(newGainIn),
                      gainOut |-> GainLevel(newGainOut)])
             /\ pc' = "setGain"
    <3>1. newGainIn \in Int /\ newGainOut \in Int
      <4>1. newGainIn \in Gains \cup {0} /\ newGainOut \in Gains \cup {0}
        BY <1>5, NewGainsAreTyped DEF setGain, Typed, FrameStages
      <4>2. QED
        BY <4>1, ConstantsAssumption
    <3>2. [type |-> "GAIN", gainIn |-> GainLevel(newGainIn),
           gainOut |-> GainLevel(newGainOut)] \in Query
      BY <3>1, GainLevelIsLevel DEF Query
    <3>3. InFlight' <= 1
      BY <2>1, <2>3, <3>2, PromptWrite
    <3>4. QED
      BY <2>1, <2>3, <3>3 DEF Alone, Waiting
  <2>4. QED
    BY <1>5, <2>2, <2>3 DEF setGain
<1>6. CASE setGainReturns
  <2>1. InFlight' = 0
    BY <1>6, PromptReturn DEF setGainReturns, Alone
  <2>2. QED
    BY <1>6, <2>1 DEF setGainReturns, Alone
<1>7. CASE setGainOverruns
  <2>1. InFlight' = 0
    BY <1>7, PromptReturn DEF setGainOverruns, Alone
  <2>2. QED
    BY <1>7, <2>1 DEF setGainOverruns, Alone
<1>8. CASE frameIn
  <2>1. call.body \in Frames
    BY <1>8 DEF frameIn, Typed, TypeOK, FrameStages, FrameCall
  <2>2. PICK q \in Query : write(q) /\ q.type \in FrameQueryTypes /\ q.body = call.body
    BY <1>8, <2>1 DEF frameIn, encodeIn, decodeIn, Query, Typed, TypeOK, FrameQueryTypes
  <2>3. InFlight = 0 /\ got' = got /\ call' = call /\ pc' = "frameOut"
    BY <1>8 DEF frameIn, Alone, Waiting
  <2>4. InFlight' <= 1 /\ OwnFrameOnly'
    BY <2>2, <2>3, PromptWrite DEF OwnFrameOnly
  <2>5. QED
    BY <2>3, <2>4 DEF Alone, Waiting
<1>9. CASE frameOut
  <2>1. PICK m \in Arrivals : getResponse(m) /\ (encodeOut(m) \/ decodeOut(m))
    BY <1>9 DEF frameOut
  <2>2. InFlight' = 0
    BY <2>1, PromptReturn DEF Alone
  <2>3. got' # NoReply => got'.body = call.body
    <3>1. \/ got' = NoReply
          \/ got'.body = m.body /\ m # RespError
      BY <2>1, ArrivalsAreTyped, ResultIsFrame DEF Typed, TypeOK
    <3>2. m # RespError => m.body = call.body
      <4>1. m # RespError => toHost # <<>> /\ m = toHost[1]
        BY PromptResponse DEF Alone
      <4>2. toHost # <<>> => 1 \in DOMAIN toHost
        BY EmptySeq, LenProperties DEF Typed, TypeOK
      <4>3. QED
        BY <1>9, <4>1, <4>2 DEF frameOut, Alone, OwnFrameOnly
    <3>3. QED
      BY <3>1, <3>2
  <2>4. QED
    BY <1>9, <2>2, <2>3 DEF frameOut, Alone, Waiting
<1>10. CASE waitHangs
  <2>1. InFlight' = InFlight /\ pc' = "hung" /\ got' = got /\ call' = call
    BY <1>10 DEF waitHangs, link, InFlight
  <2>2. QED
    BY <2>1 DEF Alone
<1>11. QED
  BY <1>1, <1>2, <1>3, <1>4, <1>5, <1>6, <1>7, <1>8, <1>9, <1>10 DEF Proceeds

\* The chip answers a frame with what became of that frame.
LEMMA AnswerKeepsBody ==
  ASSUME NEW q \in Query, q.type \in FrameQueryTypes
  PROVE  Answer(q).body = q.body
<1>1. CASE q.type = "AUDIO"
  BY <1>1 DEF Answer
<1>2. CASE q.type = "AMBE"
  BY <1>2 DEF Answer
<1>3. QED
  BY <1>1, <1>2 DEF FrameQueryTypes

\* A packet that is handled or lost leaves one packet less to be handled.
LEMMA TailTakesOne ==
  ASSUME NEW S, NEW s \in Seq(S), s # <<>>
  PROVE  /\ Head(s) = s[1] /\ 1 \in DOMAIN s
         /\ Len(s) \in Nat \ {0}
         /\ Tail(s) \in Seq(S)
         /\ Len(Tail(s)) = Len(s) - 1
         /\ DOMAIN Tail(s) = 1 .. Len(s) - 1
         /\ \A i \in 1 .. Len(s) - 1 : Tail(s)[i] = s[i + 1]
<1>1. Len(s) \in Nat \ {0}
  BY EmptySeq
<1>2. Tail(s) \in Seq(S) /\ Len(Tail(s)) = Len(s) - 1
      /\ \A i \in 1 .. Len(Tail(s)) : Tail(s)[i] = s[i + 1]
  BY HeadTailProperties
<1>3. DOMAIN s = 1 .. Len(s) /\ DOMAIN Tail(s) = 1 .. Len(Tail(s))
  BY <1>2, LenProperties
<1>4. Head(s) = s[1]
  BY <1>1
<1>5. QED
  BY <1>1, <1>2, <1>3, <1>4

\* The chip turns the one packet in flight into its answer, and the link may lose it.
LEMMA EnvironmentPrompt ==
  ASSUME Typed, Typed', Alone, ~Reports, Environment
  PROVE  Alone'
<1>0. toDevice \in Seq(Query) /\ toHost \in Seq(Reply)
  BY DEF Typed, TypeOK
<1>1. CASE ChipAnswers
  <2>1. toDevice # <<>>
    BY <1>1 DEF ChipAnswers
  <2>2. /\ Head(toDevice) = toDevice[1] /\ 1 \in DOMAIN toDevice
        /\ Head(toDevice) \in Query
    BY <1>0, <2>1, TailTakesOne, HeadTailProperties
  <2>3. Len(toDevice) = 1 /\ Len(toHost) = 0
    <3>1. Len(toDevice) \in Nat \ {0} /\ Len(toHost) \in Nat
      BY <1>0, <2>1, TailTakesOne, LenProperties
    <3>2. Len(toDevice) + Len(toHost) <= 1
      BY DEF Alone, InFlight
    <3>3. ASSUME NEW a \in Nat \ {0}, NEW b \in Nat, a + b <= 1
          PROVE  a = 1 /\ b = 0
      BY <3>3, SMT
    <3>4. QED
      BY <3>1, <3>2, <3>3
  <2>4. toHost = <<>> /\ toDevice' = <<>>
    <3>1. Tail(toDevice) \in Seq(Query) /\ Len(Tail(toDevice)) = 0
      BY <1>0, <2>1, <2>3, TailTakesOne
    <3>2. QED
      BY <1>0, <1>1, <2>3, <3>1, EmptySeq DEF ChipAnswers
  <2>5. pc \in Waiting \cup {"hung"} /\ pc' = pc /\ call' = call /\ got' = got
    <3>1. InFlight # 0
      BY <2>3 DEF InFlight
    <3>2. QED
      BY <1>1, <3>1 DEF ChipAnswers, Alone
  <2>6. toHost' = <<>> \/ toHost' = <<Answer(Head(toDevice))>>
    BY <1>1, <2>4 DEF ChipAnswers
  <2>7. InFlight' <= 1
    <3>1. Len(toDevice') = 0
      BY <2>4, EmptySeq
    <3>2. Len(toHost') = 0 \/ Len(toHost') = 1
      BY <2>6, EmptySeq
    <3>3. InFlight' = Len(toDevice') + Len(toHost')
      BY Zenon DEF InFlight
    <3>4. QED
      BY <3>1, <3>2, <3>3
  <2>8. pc = "frameOut" => Answer(Head(toDevice)).body = call.body
    BY <2>2, AnswerKeepsBody DEF Alone, OwnFrameOnly
  <2>9. pc' = "frameOut" => OwnFrameOnly'
    BY <2>4, <2>5, <2>6, <2>8 DEF OwnFrameOnly
  <2>10. QED
    BY <2>5, <2>7, <2>9 DEF Alone
<1>2. CASE LoseQuery
  <2>1. toDevice # <<>> /\ toDevice' = Tail(toDevice)
    BY <1>2 DEF LoseQuery
  <2>2. InFlight' = InFlight - 1 /\ InFlight \in Nat \ {0}
    BY <1>0, <1>2, <2>1, TailTakesOne, LenProperties DEF LoseQuery, InFlight
  <2>3. OwnFrameOnly => OwnFrameOnly'
    BY <1>0, <1>2, <2>1, TailTakesOne, LenProperties DEF LoseQuery, OwnFrameOnly
  <2>4. pc' = pc /\ call' = call /\ got' = got
    BY <1>2 DEF LoseQuery
  <2>5. QED
    BY <2>2, <2>3, <2>4 DEF Alone
<1>3. CASE LoseReply
  <2>1. toHost # <<>> /\ toHost' = Tail(toHost)
    BY <1>3 DEF LoseReply
  <2>2. InFlight' = InFlight - 1 /\ InFlight \in Nat \ {0}
    BY <1>0, <1>3, <2>1, TailTakesOne, LenProperties DEF LoseReply, InFlight
  <2>3. OwnFrameOnly => OwnFrameOnly'
    BY <1>0, <1>3, <2>1, TailTakesOne, LenProperties DEF LoseReply, OwnFrameOnly
  <2>4. pc' = pc /\ call' = call /\ got' = got
    BY <1>3 DEF LoseReply
  <2>5. QED
    BY <2>2, <2>3, <2>4 DEF Alone
<1>4. CASE PowerCycle
  <2>1. InFlight = 0
    BY <1>4 DEF PowerCycle, Alone, Waiting
  <2>2. toDevice' = <<>> /\ toHost' = <<>>
    BY <1>4, <2>1, NothingInFlight DEF PowerCycle
  <2>3. InFlight' = 0
    BY <1>0, <2>2, EmptySeq DEF InFlight
  <2>4. QED
    BY <1>4, <2>3 DEF PowerCycle, Alone
<1>5. QED
  BY <1>1, <1>2, <1>3, <1>4 DEF Environment, ChipReports

\* On a prompt link never more than the packet of one transaction is in flight, and
\* between transactions none.
THEOREM PromptIsInvariant == Spec => []PromptInv
<1>1. Init => PromptInv
  <2> SUFFICES ASSUME Init PROVE Alone
    BY DEF PromptInv
  <2>1. toDevice = <<>> /\ toHost = <<>>
    BY DEF Init
  <2>2. InFlight = 0
    BY <2>1, EmptySeq DEF InFlight
  <2>3. QED
    BY <2>2 DEF Init, Alone, Waiting
<1>2. Typed /\ Typed' /\ PromptInv /\ [Next]_vars => PromptInv'
  <2> SUFFICES ASSUME Typed, Typed', Alone, MaxBacklog = 0, ~Reports, [Next]_vars
               PROVE  Alone'
    BY DEF PromptInv
  <2>1. CASE Next
    BY <2>1, CallsPrompt, ProceedsPrompt, EnvironmentPrompt DEF Next
  <2>2. CASE UNCHANGED vars
    BY <2>2 DEF vars, link, Alone, InFlight, OwnFrameOnly
  <2>3. QED
    BY <2>1, <2>2
<1>3. QED
  BY <1>1, <1>2, TypingIsInvariant, PTL DEF Spec

\* On a prompt link to a chip that sends answers only, the frame a call returns answers
\* the call's own query, however many queries and replies the link loses, however
\* carelessly the object is used and whichever waits hang.
THEOREM PromptLinkIsPaired == Spec => []PromptLinkPairs
<1>1. PromptInv => PromptLinkPairs
  BY DEF PromptInv, Alone, PromptLinkPairs
<1>2. QED
  BY <1>1, PromptIsInvariant, PTL

-----------------------------------------------------------------------------
(***************************************************************************)
(* What the object remembers of its transport and of the settings of the   *)
(* chip is true, for every value of the constants of DVController.         *)
(***************************************************************************)

(***************************************************************************)
(* The transport of a careful client.                                      *)
(***************************************************************************)

\* A call is in progress on an open object only, and a careful client aborts nothing.
InUse == /\ pc \in FrameStages => m_open
         /\ Careful => pc # "aborted"

Leaks == /\ Strays' = Strays + 1
         /\ ~LowLatency /\ pc = "idle" /\ m_serial' = "open" /\ ~m_open'

\* Where a careful client opens and closes, the transports that nobody uses stay as they
\* are, unless an open leaks one.
LEMMA CarefulCalls ==
  ASSUME Typed, InUse, Calls
  PROVE  InUse' /\ (Careful => Strays' = Strays \/ Leaks)
<1>0. openPorts \in Nat
  BY ConstantsAssumption DEF Typed, TypeOK
<1>1. CASE open
  <2>1. pc = "idle" /\ ~m_open' /\ (Careful => ~m_open)
    BY <1>1 DEF open
  <2>2. CASE m_serial' = "open" /\ openPorts' = openPorts + 1 /\ pc' = "prodid"
    BY <1>0, <2>1, <2>2 DEF InUse, FrameStages, Strays
  <2>3. CASE transportFails /\ pc' = pc
    BY <1>0, <2>1, <2>3 DEF transportFails, InUse, FrameStages, Strays, Leaks
  <2>4. QED
    BY <1>1, <2>2, <2>3 DEF open
<1>2. CASE close
  <2>1. /\ pc = "idle" /\ pc' = pc /\ ~m_open' /\ (Careful => m_open)
        /\ m_serial = "open" => openPorts' = openPorts - 1
    BY <1>2 DEF close, closeIt
  <2>2. m_open => m_serial = "open"
    BY DEF Typed, Ports
  <2>3. QED
    BY <1>0, <2>1, <2>2 DEF InUse, FrameStages, Strays
<1>3. CASE closeAborts
  BY <1>3 DEF closeAborts, object, Typed, Ports, InUse, FrameStages, Strays
<1>4. CASE \E f \in Frames, r \in Rates, g \in Gains : encode(f, r, g) \/ decode(f, r, g)
  <2>1. /\ pc = "idle" /\ UNCHANGED <<object, openPorts>>
        /\ pc' = IF m_open THEN "rate" ELSE "idle"
    BY <1>4 DEF encode, decode, start
  <2>2. QED
    BY <2>1 DEF object, InUse, FrameStages, Strays
<1>5. QED
  BY <1>1, <1>2, <1>3, <1>4 DEF Calls

\* A call that goes on closes what it has opened, or keeps it for the open object.
LEMMA CarefulProceeds ==
  ASSUME Typed, InUse, Proceeds
  PROVE  InUse' /\ Strays' = Strays
<1>0. openPorts \in Nat
  BY ConstantsAssumption DEF Typed, TypeOK
<1>1. CASE openIdentified
  BY <1>1 DEF openIdentified, Typed, Ports, InUse, FrameStages, Strays
<1>2. CASE openRefused
  <2>1. /\ pc = "prodid" /\ pc' = "idle" /\ openPorts' = openPorts - 1
        /\ ~m_open /\ m_open' = m_open
    BY <1>2 DEF openRefused, closeIt, Typed, Ports
  <2>2. QED
    BY <1>0, <2>1 DEF InUse, FrameStages, Strays
<1>3. CASE setRate \/ setRateReturns
  BY <1>3 DEF setRate, setRateReturns, InUse, FrameStages, Strays
<1>4. CASE setGain \/ setGainReturns \/ setGainOverruns
  BY <1>4 DEF setGain, setGainReturns, setGainOverruns, object, InUse, FrameStages, Strays
<1>5. CASE frameIn \/ frameOut
  BY <1>5 DEF frameIn, frameOut, object, InUse, FrameStages, Strays
<1>6. CASE waitHangs
  BY <1>6 DEF waitHangs, object, Waiting, InUse, FrameStages, Strays
<1>7. QED
  BY <1>1, <1>2, <1>3, <1>4, <1>5, <1>6 DEF Proceeds

\* A careful client never runs into the assertion of closeIt, and of the transports it
\* opens only those that low latency is refused to are left open: each is closed by the
\* step that ends its use, none twice, whatever the link does (open, close).
THEOREM OnlyRefusedOpens == Spec => OnlyRefusedOpensLeak
<1>1. Init => InUse
  BY DEF Init, InUse, FrameStages
<1>2. Typed /\ InUse /\ [Next]_vars => InUse' /\ (Careful => Strays' = Strays \/ Leaks)
  <2> SUFFICES ASSUME Typed, InUse, [Next]_vars
               PROVE  InUse' /\ (Careful => Strays' = Strays \/ Leaks)
    OBVIOUS
  <2>1. CASE Environment
    BY <2>1 DEF Environment, ChipAnswers, ChipReports, LoseQuery, LoseReply, PowerCycle,
                object, InUse, Strays
  <2>2. CASE UNCHANGED vars
    BY <2>2 DEF vars, object, InUse, Strays
  <2>3. QED
    BY <2>1, <2>2, CarefulCalls, CarefulProceeds DEF Next
<1>3. Spec => []InUse
  BY <1>1, <1>2, TypingIsInvariant, PTL DEF Spec
<1>4. Typed /\ InUse /\ InUse' /\ [Next]_vars =>
        [Careful =>
           /\ pc' # "aborted"
           /\ \/ Strays' = Strays
              \/ /\ Strays' = Strays + 1
                 /\ ~LowLatency /\ pc = "idle" /\ m_serial' = "open" /\ ~m_open']_vars
  BY <1>2 DEF InUse, Leaks
<1>5. QED
  BY <1>3, <1>4, TypingIsInvariant, PTL DEF Spec, OnlyRefusedOpensLeak

(***************************************************************************)
(* Lemmas about the last packet of a type in a queue.                      *)
(***************************************************************************)

\* Appending a packet of another type changes nothing.
LEMMA AppendOther ==
  ASSUME NEW S, NEW queue \in Seq(S), NEW p \in S, NEW q, p.type # q.type
  PROVE  /\ NoneOfType(queue, q.type) => NoneOfType(Append(queue, p), q.type)
         /\ IsLastOfType(q, queue) => IsLastOfType(q, Append(queue, p))
<1>1. /\ Len(queue) \in Nat /\ DOMAIN queue = 1 .. Len(queue)
      /\ DOMAIN Append(queue, p) = 1 .. Len(queue) + 1
      /\ \A i \in 1 .. Len(queue) : Append(queue, p)[i] = queue[i]
      /\ Append(queue, p)[Len(queue) + 1] = p
  BY AppendProperties, LenProperties
<1>2. NoneOfType(queue, q.type) => NoneOfType(Append(queue, p), q.type)
  BY <1>1 DEF NoneOfType
<1>3. IsLastOfType(q, queue) => IsLastOfType(q, Append(queue, p))
  BY <1>1 DEF IsLastOfType
<1>4. QED
  BY <1>2, <1>3

\* An appended packet is the last of its type.
LEMMA AppendOwn ==
  ASSUME NEW S, NEW queue \in Seq(S), NEW p \in S
  PROVE  IsLastOfType(p, Append(queue, p))
<1>1. /\ Len(queue) \in Nat
      /\ DOMAIN Append(queue, p) = 1 .. Len(queue) + 1
      /\ Append(queue, p)[Len(queue) + 1] = p
  BY AppendProperties, LenProperties
<1>2. Len(queue) + 1 \in DOMAIN Append(queue, p)
  BY <1>1
<1>3. \A j \in DOMAIN Append(queue, p) : ~(j > Len(queue) + 1)
  BY <1>1
<1>4. QED
  BY <1>1, <1>2, <1>3 DEF IsLastOfType

\* When the head is taken, the last packet of a type is still in the queue, or it
\* was the head and no other of its type follows.
LEMMA TailOfQueue ==
  ASSUME NEW S, NEW queue \in Seq(S), queue # <<>>, NEW q
  PROVE  /\ NoneOfType(queue, q.type) =>
              Head(queue).type # q.type /\ NoneOfType(Tail(queue), q.type)
         /\ IsLastOfType(q, queue) =>
              \/ IsLastOfType(q, Tail(queue))
              \/ Head(queue) = q /\ NoneOfType(Tail(queue), q.type)
<1>1. /\ Head(queue) = queue[1] /\ 1 \in DOMAIN queue
      /\ Len(queue) \in Nat \ {0} /\ DOMAIN queue = 1 .. Len(queue)
      /\ DOMAIN Tail(queue) = 1 .. Len(queue) - 1
      /\ \A i \in 1 .. Len(queue) - 1 : Tail(queue)[i] = queue[i + 1]
  BY TailTakesOne, LenProperties
<1>2. \A i \in DOMAIN Tail(queue) : i + 1 \in DOMAIN queue /\ Tail(queue)[i] = queue[i + 1]
  BY <1>1
<1>3. NoneOfType(queue, q.type) =>
        Head(queue).type # q.type /\ NoneOfType(Tail(queue), q.type)
  BY <1>1, <1>2 DEF NoneOfType
<1>4. ASSUME IsLastOfType(q, queue)
      PROVE  \/ IsLastOfType(q, Tail(queue))
             \/ Head(queue) = q /\ NoneOfType(Tail(queue), q.type)
  <2>1. PICK i \in DOMAIN queue :
          queue[i] = q /\ \A j \in DOMAIN queue : j > i => queue[j].type # q.type
    BY <1>4 DEF IsLastOfType
  <2>2. CASE i = 1
    BY <1>1, <1>2, <2>1, <2>2 DEF NoneOfType
  <2>3. CASE i # 1
    <3>1. i - 1 \in DOMAIN Tail(queue) /\ Tail(queue)[i - 1] = q
      BY <1>1, <2>1, <2>3
    <3>2. \A j \in DOMAIN Tail(queue) : j > i - 1 => Tail(queue)[j].type # q.type
      BY <1>1, <1>2, <2>1
    <3>3. QED
      BY <3>1, <3>2 DEF IsLastOfType
  <2>4. QED
    BY <2>2, <2>3
<1>5. QED
  BY <1>3, <1>4

\* An empty queue has no packet of any type.
LEMMA EmptyQueue ==
  ASSUME NEW type
  PROVE  NoneOfType(<<>>, type)
BY DEF NoneOfType

(***************************************************************************)
(* The settings of the chip.  Between setRate and setRateReturns it is the *)
(* rate of the call, not the current one, that is on its way; likewise for *)
(* the gains.  With this SettingsAreCached is inductive.                   *)
(***************************************************************************)
RateAhead(c, queue, r) ==
  \/ c.rate = r /\ NoneOfType(queue, "RATEP")
  \/ IsLastOfType([type |-> "RATEP", rate |-> r], queue)

GainsAhead(c, queue, i, o) ==
  \/ c.gainIn = i /\ c.gainOut = o /\ NoneOfType(queue, "GAIN")
  \/ IsLastOfType([type |-> "GAIN", gainIn |-> i, gainOut |-> o], queue)

CachedRate ==
  /\ pc = "setRate" => RateAhead(chip, toDevice, call.rate)
  /\ pc \notin {"setRate", "hung"} /\ m_currentRate \in Programmable =>
       RateAhead(chip, toDevice, m_currentRate)

\* The gains of the object need not be the chip's until the object has sent some.
GainsKnown(sent) ==
  /\ pc = "setGain" =>
       GainsAhead(chip, toDevice, GainLevel(newGainIn), GainLevel(newGainOut))
  /\ sent /\ pc \notin {"setGain", "overrun", "hung"} =>
       GainsAhead(chip, toDevice, GainLevel(m_currentGainIn), GainLevel(m_currentGainOut))

CachedGains == GainsKnown(TRUE)

Cached == CachedRate /\ CachedGains

CachedInv == SettingsArrive => Cached

\* A packet that is no RATEP leaves the rate ahead as it is.
LEMMA WriteKeepsRate ==
  ASSUME NEW c, NEW queue \in Seq(Query), NEW q \in Query, q.type # "RATEP",
         NEW r, RateAhead(c, queue, r)
  PROVE  RateAhead(c, Append(queue, q), r)
<1> DEFINE p == [type |-> "RATEP", rate |-> r]
<1>1. p.type = "RATEP"
  OBVIOUS
<1>2. /\ NoneOfType(queue, p.type) => NoneOfType(Append(queue, q), p.type)
      /\ IsLastOfType(p, queue) => IsLastOfType(p, Append(queue, q))
  BY <1>1, AppendOther
<1>3. QED
  BY <1>1, <1>2 DEF RateAhead

\* A packet that is no GAIN leaves the gains ahead as they are.
LEMMA WriteKeepsGains ==
  ASSUME NEW c, NEW queue \in Seq(Query), NEW q \in Query, q.type # "GAIN",
         NEW i, NEW o, GainsAhead(c, queue, i, o)
  PROVE  GainsAhead(c, Append(queue, q), i, o)
<1> DEFINE p == [type |-> "GAIN", gainIn |-> i, gainOut |-> o]
<1>1. p.type = "GAIN"
  OBVIOUS
<1>2. /\ NoneOfType(queue, p.type) => NoneOfType(Append(queue, q), p.type)
      /\ IsLastOfType(p, queue) => IsLastOfType(p, Append(queue, q))
  BY <1>1, AppendOther
<1>3. QED
  BY <1>1, <1>2 DEF GainsAhead

\* The chip gets to the rate that is ahead by handling its queries in order.
LEMMA AnswerKeepsRate ==
  ASSUME chip \in [rate : Programmable, gainIn : Levels, gainOut : Levels],
         NEW queue \in Seq(Query), queue # <<>>, NEW r, RateAhead(chip, queue, r)
  PROVE  RateAhead(Configured(Head(queue)), Tail(queue), r)
<1> DEFINE p == [type |-> "RATEP", rate |-> r]
<1>1. p.type = "RATEP" /\ Configured(p).rate = r
  BY DEF Configured
<1>2. /\ NoneOfType(queue, p.type) =>
           Head(queue).type # p.type /\ NoneOfType(Tail(queue), p.type)
      /\ IsLastOfType(p, queue) =>
           \/ IsLastOfType(p, Tail(queue))
           \/ Head(queue) = p /\ NoneOfType(Tail(queue), p.type)
  BY TailOfQueue
<1>3. Head(queue).type # "RATEP" => Configured(Head(queue)).rate = chip.rate
  BY DEF Configured
<1>4. CASE chip.rate = r /\ NoneOfType(queue, "RATEP")
  BY <1>1, <1>2, <1>3, <1>4 DEF RateAhead
<1>5. CASE IsLastOfType(p, queue)
  BY <1>1, <1>2, <1>5 DEF RateAhead
<1>6. QED
  BY <1>4, <1>5 DEF RateAhead

\* It gets to the gains ahead in the same way.
LEMMA AnswerKeepsGains ==
  ASSUME chip \in [rate : Programmable, gainIn : Levels, gainOut : Levels],
         NEW queue \in Seq(Query), queue # <<>>, NEW i, NEW o,
         GainsAhead(chip, queue, i, o)
  PROVE  GainsAhead(Configured(Head(queue)), Tail(queue), i, o)
<1> DEFINE p == [type |-> "GAIN", gainIn |-> i, gainOut |-> o]
<1>1. p.type = "GAIN" /\ Configured(p).gainIn = i /\ Configured(p).gainOut = o
  BY DEF Configured
<1>2. /\ NoneOfType(queue, p.type) =>
           Head(queue).type # p.type /\ NoneOfType(Tail(queue), p.type)
      /\ IsLastOfType(p, queue) =>
           \/ IsLastOfType(p, Tail(queue))
           \/ Head(queue) = p /\ NoneOfType(Tail(queue), p.type)
  BY TailOfQueue
<1>3. Head(queue).type # "GAIN" =>
        /\ Configured(Head(queue)).gainIn = chip.gainIn
        /\ Configured(Head(queue)).gainOut = chip.gainOut
  BY DEF Configured
<1>4. CASE chip.gainIn = i /\ chip.gainOut = o /\ NoneOfType(queue, "GAIN")
  BY <1>1, <1>2, <1>3, <1>4 DEF GainsAhead
<1>5. CASE IsLastOfType(p, queue)
  BY <1>1, <1>2, <1>5 DEF GainsAhead
<1>6. QED
  BY <1>4, <1>5 DEF GainsAhead

\* The object starts with no rate and with gains of 0 dB, and so does the chip.
LEMMA InitCached == Init => Cached
<1> SUFFICES ASSUME Init PROVE Cached
  OBVIOUS
<1>1. "DVRateNone" \notin Programmable
  BY SMT DEF Programmable, RateBits
<1>2. GainLevel(0) = 0
  BY SMT DEF GainLevel, ClampDb, ToSignedChar
<1>3. GainsAhead(chip, toDevice, 0, 0)
  BY EmptyQueue DEF Init, GainsAhead
<1>4. QED
  BY <1>1, <1>2, <1>3 DEF Init, Cached, CachedRate, CachedGains, GainsKnown

\* The calls of the client write no settings.
LEMMA CallsCached ==
  ASSUME Typed, Cached, Calls
  PROVE  Cached'
<1>0. toDevice \in Seq(Query)
  BY DEF Typed, TypeOK
<1>1. pc = "idle" /\ pc' \notin {"setRate", "setGain", "hung"}
  BY DEF Calls, open, close, closeAborts, encode, decode, start
<1>2. UNCHANGED <<m_currentRate, m_currentGainIn, m_currentGainOut, chip>>
  BY DEF Calls, open, close, closeAborts, encode, decode, start, settings, object
<1>3. \/ UNCHANGED toDevice
      \/ toDevice' = Append(toDevice, [type |-> "PRODID"])
  BY DEF Calls, open, close, closeAborts, encode, decode, start, write, link
<1>4. [type |-> "PRODID"] \in Query
  BY DEF Query
<1>5. m_currentRate \in Programmable => RateAhead(chip, toDevice', m_currentRate)
  BY <1>0, <1>1, <1>3, <1>4, WriteKeepsRate DEF Cached, CachedRate
<1>6. GainsAhead(chip, toDevice', GainLevel(m_currentGainIn), GainLevel(m_currentGainOut))
  BY <1>0, <1>1, <1>3, <1>4, WriteKeepsGains DEF Cached, CachedGains, GainsKnown
<1>7. QED
  BY <1>1, <1>2, <1>5, <1>6 DEF Cached, CachedRate, CachedGains, GainsKnown

\* What setGain and frameIn write are queries.
LEMMA GainsAreSent ==
  ASSUME Typed, pc \in FrameStages
  PROVE  [type |-> "GAIN", gainIn |-> GainLevel(newGainIn),
          gainOut |-> GainLevel(newGainOut)] \in Query
<1>1. newGainIn \in Int /\ newGainOut \in Int
  <2>1. newGainIn \in Gains \cup {0} /\ newGainOut \in Gains \cup {0}
    BY NewGainsAreTyped DEF Typed
  <2>2. QED
    BY <2>1, ConstantsAssumption
<1>2. QED
  BY <1>1, GainLevelIsLevel DEF Query

\* encodeIn sends the audio frame of the call, decodeIn its AMBE frame, and nothing else.
LEMMA FramesAreSent ==
  ASSUME Typed, frameIn
  PROVE  \E q \in Query : write(q) /\ q.type \in FrameQueryTypes /\ q.body = call.body
                          /\ q.type = IF call.op = "encode" THEN "AUDIO" ELSE "AMBE"
<1>1. call.body \in Frames /\ m_currentNbMbeBits \in Nat /\ m_currentNbMbeBytes \in Nat
  BY DEF frameIn, Typed, TypeOK, FrameStages, FrameCall
<1>2. CASE encodeIn
  BY <1>1, <1>2 DEF encodeIn, Query, FrameQueryTypes
<1>3. CASE decodeIn
  BY <1>1, <1>3 DEF decodeIn, Query, FrameQueryTypes
<1>4. QED
  BY <1>2, <1>3 DEF frameIn

\* setRate writes what its caller then remembers, whatever comes back.
LEMMA ProceedsKeepRate ==
  ASSUME Typed, CachedRate, Proceeds
  PROVE  CachedRate'
<1>0. toDevice \in Seq(Query)
  BY DEF Typed, TypeOK
<1>1. CASE openIdentified \/ openRefused
  BY <1>1 DEF openIdentified, openRefused, getResponse, settings, CachedRate
<1>2. CASE setRate
  <2>1. UNCHANGED <<chip, call>> /\ pc = "rate" /\ pc' \in {"setRate", "gain"}
    BY <1>2 DEF setRate
  <2>2. CASE /\ call.rate \in Programmable
             /\ write([type |-> "RATEP", rate |-> call.rate]) /\ pc' = "setRate"
    <3>1. [type |-> "RATEP", rate |-> call.rate] \in Query
      BY <2>2 DEF Query
    <3>2. toDevice' = Append(toDevice, [type |-> "RATEP", rate |-> call.rate])
      BY <2>2 DEF write
    <3>3. RateAhead(chip, toDevice', call.rate)
      BY <1>0, <3>1, <3>2, AppendOwn DEF RateAhead
    <3>4. QED
      BY <2>1, <2>2, <3>3 DEF CachedRate
  <2>3. CASE /\ call.rate = m_currentRate \/ call.rate \notin Programmable
             /\ m_currentRate' = call.rate /\ pc' = "gain" /\ UNCHANGED link
    BY <2>1, <2>3 DEF link, CachedRate
  <2>4. QED
    BY <1>2, <2>2, <2>3 DEF setRate
<1>3. CASE setRateReturns
  BY <1>3 DEF setRateReturns, getResponse, CachedRate
<1>4. CASE setGain
  <2>1. UNCHANGED <<m_currentRate, chip, call>> /\ pc = "gain" /\ pc' \in {"setGain", "frameIn"}
    BY <1>4 DEF setGain, object
  <2> DEFINE q == [type |-> "GAIN", gainIn |-> GainLevel(newGainIn),
                   gainOut |-> GainLevel(newGainOut)]
  <2>2. CASE write(q)
    <3>1. q \in Query
      BY <2>1, GainsAreSent DEF FrameStages
    <3>2. m_currentRate \in Programmable => RateAhead(chip, toDevice', m_currentRate)
      BY <1>0, <2>1, <2>2, <3>1, WriteKeepsRate DEF write, CachedRate
    <3>3. QED
      BY <2>1, <3>2 DEF CachedRate
  <2>3. CASE UNCHANGED link
    BY <2>1, <2>3 DEF link, CachedRate
  <2>4. QED
    BY <1>4, <2>2, <2>3 DEF setGain
<1>5. CASE setGainReturns \/ setGainOverruns
  BY <1>5 DEF setGainReturns, setGainOverruns, object, getResponse, CachedRate
<1>6. CASE frameIn
  <2>1. UNCHANGED <<m_currentRate, chip>> /\ pc = "frameIn" /\ pc' = "frameOut"
    BY <1>6 DEF frameIn, object
  <2>2. PICK q \in Query : write(q) /\ q.type \in FrameQueryTypes
    BY <1>6, FramesAreSent
  <2>3. m_currentRate \in Programmable => RateAhead(chip, toDevice', m_currentRate)
    BY <1>0, <2>1, <2>2, WriteKeepsRate DEF write, FrameQueryTypes, CachedRate
  <2>4. QED
    BY <2>1, <2>3 DEF CachedRate
<1>7. CASE frameOut
  BY <1>7 DEF frameOut, object, getResponse, CachedRate
<1>8. CASE waitHangs
  BY <1>8 DEF waitHangs, CachedRate
<1>9. QED
  BY <1>1, <1>2, <1>3, <1>4, <1>5, <1>6, <1>7, <1>8 DEF Proceeds

\* So does setGain, and once it returns the gains of the object are the chip's.
LEMMA ProceedsKeepGains ==
  ASSUME Typed, NEW sent \in BOOLEAN, GainsKnown(sent), Proceeds
  PROVE  GainsKnown(sent)' /\ (pc = "setGain" => GainsKnown(TRUE)')
<1>0. toDevice \in Seq(Query)
  BY DEF Typed, TypeOK
<1>1. CASE openIdentified \/ openRefused
  BY <1>1 DEF openIdentified, openRefused, getResponse, settings, GainsKnown
<1>2. CASE setRate
  <2>1. UNCHANGED <<m_currentGainIn, m_currentGainOut, chip>>
        /\ pc = "rate" /\ pc' \in {"setRate", "gain"}
    BY <1>2 DEF setRate
  <2>2. CASE call.rate \in Programmable /\ write([type |-> "RATEP", rate |-> call.rate])
    <3>1. [type |-> "RATEP", rate |-> call.rate] \in Query
      BY <2>2 DEF Query
    <3>2. sent => GainsAhead(chip, toDevice', GainLevel(m_currentGainIn),
                             GainLevel(m_currentGainOut))
      BY <1>0, <2>1, <2>2, <3>1, WriteKeepsGains DEF write, GainsKnown
    <3>3. QED
      BY <2>1, <3>2 DEF GainsKnown
  <2>3. CASE UNCHANGED link
    BY <2>1, <2>3 DEF link, GainsKnown
  <2>4. QED
    BY <1>2, <2>2, <2>3 DEF setRate
<1>3. CASE setRateReturns
  BY <1>3 DEF setRateReturns, getResponse, GainsKnown
<1>4. CASE setGain
  <2>1. UNCHANGED <<m_currentGainIn, m_currentGainOut, chip, call>>
        /\ pc = "gain" /\ pc' \in {"setGain", "frameIn"}
    BY <1>4 DEF setGain, object
  <2>2. newGainIn' = newGainIn /\ newGainOut' = newGainOut
    BY <2>1 DEF newGainIn, newGainOut
  <2> DEFINE q == [type |-> "GAIN", gainIn |-> GainLevel(newGainIn),
                   gainOut |-> GainLevel(newGainOut)]
  <2>3. CASE write(q) /\ pc' = "setGain"
    <3>1. q \in Query
      BY <2>1, GainsAreSent DEF FrameStages
    <3>2. toDevice' = Append(toDevice, q)
      BY <2>3 DEF write
    <3>3. GainsAhead(chip, toDevice', GainLevel(newGainIn), GainLevel(newGainOut))
      BY <1>0, <3>1, <3>2, AppendOwn DEF GainsAhead
    <3>4. QED
      BY <2>1, <2>2, <2>3, <3>3 DEF GainsKnown
  <2>4. CASE pc' = "frameIn" /\ UNCHANGED link
    BY <2>1, <2>4 DEF link, GainsKnown
  <2>5. QED
    BY <1>4, <2>3, <2>4 DEF setGain
<1>5. CASE setGainReturns
  BY <1>5 DEF setGainReturns, getResponse, GainsKnown
<1>6. CASE setGainOverruns
  BY <1>6 DEF setGainOverruns, GainsKnown
<1>7. CASE frameIn
  <2>1. UNCHANGED <<m_currentGainIn, m_currentGainOut, chip>>
        /\ pc = "frameIn" /\ pc' = "frameOut"
    BY <1>7 DEF frameIn, object
  <2>2. PICK q \in Query : write(q) /\ q.type \in FrameQueryTypes
    BY <1>7, FramesAreSent
  <2>3. sent => GainsAhead(chip, toDevice', GainLevel(m_currentGainIn),
                           GainLevel(m_currentGainOut))
    BY <1>0, <2>1, <2>2, WriteKeepsGains DEF write, FrameQueryTypes, GainsKnown
  <2>4. QED
    BY <2>1, <2>3 DEF GainsKnown
<1>8. CASE frameOut
  BY <1>8 DEF frameOut, object, getResponse, GainsKnown
<1>9. CASE waitHangs
  BY <1>9 DEF waitHangs, GainsKnown
<1>10. QED
  BY <1>1, <1>2, <1>3, <1>4, <1>5, <1>6, <1>7, <1>8, <1>9 DEF Proceeds

\* The chip gets nearer to the settings ahead of it.
LEMMA ChipKeepsSettings ==
  ASSUME Typed, ChipAnswers
  PROVE  /\ CachedRate => CachedRate'
         /\ \A sent \in BOOLEAN : GainsKnown(sent) => GainsKnown(sent)'
<1>1. /\ UNCHANGED <<m_currentRate, m_currentGainIn, m_currentGainOut, pc, call>>
      /\ toDevice # <<>> /\ toDevice' = Tail(toDevice)
      /\ chip' = Configured(Head(toDevice))
  BY DEF ChipAnswers, object
<1>2. newGainIn' = newGainIn /\ newGainOut' = newGainOut
  BY <1>1 DEF newGainIn, newGainOut
<1>3. ASSUME NEW r, RateAhead(chip, toDevice, r)
      PROVE  RateAhead(chip', toDevice', r)
  BY <1>1, <1>3, AnswerKeepsRate DEF Typed, TypeOK
<1>4. ASSUME NEW i, NEW o, GainsAhead(chip, toDevice, i, o)
      PROVE  GainsAhead(chip', toDevice', i, o)
  BY <1>1, <1>4, AnswerKeepsGains DEF Typed, TypeOK
<1>5. QED
  BY <1>1, <1>2, <1>3, <1>4 DEF CachedRate, GainsKnown

\* Neither the chip nor a link that keeps what is written to it changes them.
LEMMA EnvironmentCached ==
  ASSUME Typed, SettingsArrive, Cached, Environment
  PROVE  Cached'
<1>1. CASE ChipAnswers
  BY <1>1, ChipKeepsSettings DEF Cached, CachedGains
<1>2. CASE ChipReports \/ LoseReply
  BY <1>2 DEF ChipReports, LoseReply, object, Cached, CachedRate, CachedGains, GainsKnown,
              newGainIn, newGainOut
<1>3. QED
  BY <1>1, <1>2 DEF Environment, LoseQuery, PowerCycle, SettingsArrive

\* The settings are cached, and what is not cached yet is on its way.
THEOREM CachedIsInvariant == Spec => []CachedInv
<1>1. Init => CachedInv
  BY InitCached DEF CachedInv
<1>2. Typed /\ CachedInv /\ [Next]_vars => CachedInv'
  <2> SUFFICES ASSUME Typed, SettingsArrive, Cached, [Next]_vars PROVE Cached'
    BY DEF CachedInv, SettingsArrive
  <2>1. CASE Next
    BY <2>1, CallsCached, ProceedsKeepRate, ProceedsKeepGains, EnvironmentCached
       DEF Next, Cached, CachedGains
  <2>2. CASE UNCHANGED vars
    BY <2>2 DEF vars, object, link, Cached, CachedRate, CachedGains, GainsKnown, newGainIn, newGainOut
  <2>3. QED
    BY <2>1, <2>2
<1>3. QED
  BY <1>1, <1>2, TypingIsInvariant, PTL DEF Spec

\* What encode and decode compare the caller's rate and gain with is what the chip
\* has or is about to have, although neither looks at what came of sending it.
THEOREM SettingsAreTrue == Spec => []SettingsAreCached
<1>1. CachedInv => SettingsAreCached
  BY DEF CachedInv, Cached, CachedRate, CachedGains, GainsKnown, SettingsAreCached, RateAhead,
         GainsAhead, WillHaveRate, WillHaveGains
<1>2. QED
  BY <1>1, CachedIsInvariant, PTL

-----------------------------------------------------------------------------
(***************************************************************************)
(* A call that begins with nothing in flight is safe against every wait    *)
(* that it gives up itself, for every value of the constants.  What it has *)
(* in flight besides its frame are the answers to RATEP and GAIN, which    *)
(* fit every buffer and which encodeOut and decodeOut do not accept.       *)
(***************************************************************************)

\* What the chip sends unasked is no frame either.
SettingTypes == {"RATEP", "GAIN", "UNKNOWN"}

OwnQuery(q) == /\ q.type = IF call.op = "encode" THEN "AUDIO" ELSE "AMBE"
               /\ q.body = call.body

OwnReply(m) == /\ m.body = call.body
               /\ SettingsArrive => /\ m.gain = GainLevel(call.gain)
                                    /\ call.rate \in Programmable => m.rate = call.rate

\* The frame comes last on its way to the chip.
OwnPackets ==
  /\ \A i \in DOMAIN toDevice :
       \/ toDevice[i].type \in SettingTypes
       \/ pc = "frameOut" /\ i = Len(toDevice) /\ OwnQuery(toDevice[i])
  /\ \A i \in DOMAIN toHost :
       \/ toHost[i].type \in SettingTypes
       \/ pc = "frameOut" /\ OwnReply(toHost[i])

\* Rate and gain of the call are the current ones once they have been dealt with.
Adopted ==
  /\ pc \in {"gain", "setGain", "frameIn", "frameOut"} => m_currentRate = call.rate
  /\ pc \in {"frameIn", "frameOut"} =>
       /\ call.op = "encode" => m_currentGainIn = call.gain
       /\ call.op = "decode" => m_currentGainOut = call.gain

ServedAsAsked ==
  got # NoReply /\ call.synced =>
    /\ got.body = call.body
    /\ SettingsArrive => /\ got.gain = GainLevel(call.gain)
                         /\ call.rate \in Programmable => got.rate = call.rate

SyncedInv == /\ Adopted
             /\ pc \in FrameStages /\ call.synced => OwnPackets
             /\ ServedAsAsked
             /\ SyncedCallFitsBuffers

\* A call is synced if both wires are empty, and then has no packets but its own.
LEMMA CallsSynced ==
  ASSUME Typed, SyncedInv, Calls
  PROVE  SyncedInv'
<1>1. CASE open \/ close
  <2>1. pc' \in {"idle", "prodid"} /\ got' = NoReply
    BY <1>1 DEF open, close
  <2>2. QED
    BY <2>1 DEF SyncedInv, Adopted, FrameStages, ServedAsAsked, SyncedCallFitsBuffers
<1>2. CASE closeAborts
  BY <1>2 DEF closeAborts, SyncedInv, Adopted, FrameStages, ServedAsAsked,
              SyncedCallFitsBuffers
<1>3. CASE \E f \in Frames, r \in Rates, g \in Gains : encode(f, r, g) \/ decode(f, r, g)
  <2>1. PICK op \in {"encode", "decode"}, f \in Frames, r \in Rates, g \in Gains :
          start(op, f, r, g)
    BY <1>3 DEF encode, decode
  <2>2. pc' \in {"rate", "idle"} /\ got' = NoReply
    BY <2>1 DEF start
  <2>3. call'.synced = (InFlight = 0) /\ UNCHANGED link
    BY <2>1 DEF start
  <2>4. call'.synced => OwnPackets'
    <3>1. SUFFICES ASSUME InFlight = 0 PROVE OwnPackets'
      BY <2>3
    <3>2. toDevice' = <<>> /\ toHost' = <<>>
      BY <2>3, <3>1, NothingInFlight DEF link
    <3>3. QED
      BY <3>2 DEF OwnPackets
  <2>5. QED
    BY <2>2, <2>4 DEF SyncedInv, Adopted, ServedAsAsked, SyncedCallFitsBuffers
<1>4. QED
  BY <1>1, <1>2, <1>3 DEF Calls

\* Before its frame is written a synced call has only settings in flight.
LEMMA OnlySettings ==
  ASSUME OwnPackets, pc # "frameOut"
  PROVE  /\ \A i \in DOMAIN toDevice : toDevice[i].type \in SettingTypes
         /\ \A i \in DOMAIN toHost : toHost[i].type \in SettingTypes
BY DEF OwnPackets

\* A write of settings leaves a synced call with its own packets.
LEMMA WriteSettings ==
  ASSUME Typed, OwnPackets, pc # "frameOut",
         NEW q \in Query, q.type \in SettingTypes, write(q)
  PROVE  OwnPackets'
<1>1. /\ DOMAIN toDevice' = 1 .. Len(toDevice) + 1 /\ UNCHANGED toHost
      /\ \A i \in 1 .. Len(toDevice) : toDevice'[i] = toDevice[i]
      /\ toDevice'[Len(toDevice) + 1] = q
  BY WriteAddsOne
<1>2. DOMAIN toDevice = 1 .. Len(toDevice) /\ Len(toDevice) \in Nat
  BY LenProperties DEF Typed, TypeOK
<1>3. \A i \in DOMAIN toDevice' : toDevice'[i].type \in SettingTypes
  BY <1>1, <1>2, OnlySettings
<1>4. \A i \in DOMAIN toHost' : toHost'[i].type \in SettingTypes
  BY <1>1, OnlySettings
<1>5. QED
  BY <1>3, <1>4 DEF OwnPackets

\* So does the end of a wait.
LEMMA ReadSettings ==
  ASSUME Typed, OwnPackets, pc # "frameOut", NEW m \in Arrivals, getResponse(m)
  PROVE  OwnPackets'
<1>1. UNCHANGED toDevice /\ (toHost' = toHost \/ (toHost # <<>> /\ toHost' = Tail(toHost)))
  BY ReadTakesOldest
<1>2. \A i \in DOMAIN toHost' : toHost'[i].type \in SettingTypes
  <2>1. CASE toHost' = toHost
    BY <2>1, OnlySettings
  <2>2. CASE toHost # <<>> /\ toHost' = Tail(toHost)
    <3>1. /\ DOMAIN toHost = 1 .. Len(toHost) /\ Len(toHost) \in Nat \ {0}
          /\ DOMAIN toHost' = 1 .. Len(toHost) - 1
          /\ \A i \in 1 .. Len(toHost) - 1 : toHost'[i] = toHost[i + 1]
      BY <2>2, TailTakesOne, LenProperties DEF Typed, TypeOK
    <3>2. \A i \in DOMAIN toHost : toHost[i].type \in SettingTypes
      BY OnlySettings
    <3>3. \A i \in DOMAIN toHost' : i + 1 \in DOMAIN toHost /\ toHost'[i] = toHost[i + 1]
      BY <3>1
    <3>4. QED
      BY <3>2, <3>3
  <2>3. QED
    BY <1>1, <2>1, <2>2
<1>3. QED
  BY <1>1, <1>2, OnlySettings DEF OwnPackets

\* What a synced call gets as its result is its own frame.
LEMMA ReadResult ==
  ASSUME Typed, OwnPackets, NEW m \in Arrivals, encodeOut(m) \/ decodeOut(m)
  PROVE  got' = NoReply \/ OwnReply(got')
<1>1. SUFFICES ASSUME got' # NoReply PROVE OwnReply(got')
  OBVIOUS
<1>2. m = RespError \/ m \in Reply
  BY ArrivalsAreTyped DEF Typed, TypeOK
<1>3. /\ m \in FrameReply /\ m # RespError
      /\ got'.body = m.body /\ got'.rate = m.rate /\ got'.gain = m.gain
  BY <1>1, <1>2, ResultIsFrame
<1>4. toHost # <<>> /\ m = Head(toHost)
  BY <1>3, ArrivalCases
<1>5. m = toHost[1] /\ 1 \in DOMAIN toHost
  BY <1>4, TailTakesOne DEF Typed, TypeOK
<1>6. m.type \notin SettingTypes
  BY <1>3 DEF FrameReply, SettingTypes
<1>7. QED
  BY <1>3, <1>5, <1>6 DEF OwnPackets, OwnReply

\* A synced call that goes on has written its settings before its frame, and has
\* taken them over when it writes the frame.
LEMMA ProceedsSynced ==
  ASSUME Typed, Typed', SyncedInv, Proceeds
  PROVE  SyncedInv'
<1>0. UNCHANGED call
  BY DEF Proceeds, openIdentified, openRefused, setRate, setRateReturns, setGain,
         setGainReturns, setGainOverruns, frameIn, frameOut, waitHangs
<1>1. CASE openIdentified \/ openRefused
  <2>1. pc' = "idle" /\ got' = NoReply
    BY <1>1 DEF openIdentified, openRefused, Typed, TypeOK, FrameStages
  <2>2. QED
    BY <2>1 DEF SyncedInv, Adopted, FrameStages, ServedAsAsked, SyncedCallFitsBuffers
<1>2. ASSUME pc \in FrameStages, pc' \in FrameStages, Adopted',
             (call.synced /\ OwnPackets) => OwnPackets'
      PROVE  SyncedInv'
  <2>1. got' = NoReply
    BY <1>2 DEF Typed, TypeOK, FrameStages
  <2>2. QED
    BY <1>0, <1>2, <2>1 DEF SyncedInv, FrameStages, ServedAsAsked, SyncedCallFitsBuffers
<1>3. CASE setRate
  <2>1. /\ pc = "rate" /\ pc' \in {"setRate", "gain"}
        /\ pc' = "gain" => m_currentRate' = call.rate
    BY <1>3 DEF setRate
  <2>2. Adopted'
    BY <1>0, <2>1 DEF Adopted
  <2>3. ASSUME OwnPackets PROVE OwnPackets'
    <3>1. CASE call.rate \in Programmable /\ write([type |-> "RATEP", rate |-> call.rate])
      <4>1. [type |-> "RATEP", rate |-> call.rate] \in Query
        BY <3>1 DEF Query
      <4>2. QED
        BY <2>1, <2>3, <3>1, <4>1, WriteSettings DEF SettingTypes
    <3>2. CASE UNCHANGED link
      BY <2>1, <2>3, <3>2, OnlySettings DEF link, OwnPackets
    <3>3. QED
      BY <1>3, <3>1, <3>2 DEF setRate
  <2>4. QED
    BY <1>2, <2>1, <2>2, <2>3 DEF FrameStages
<1>4. CASE setRateReturns
  <2>1. pc = "setRate" /\ pc' = "gain" /\ m_currentRate' = call.rate
    BY <1>4 DEF setRateReturns
  <2>2. Adopted'
    BY <1>0, <2>1 DEF Adopted
  <2>3. OwnPackets => OwnPackets'
    BY <1>4, <2>1, ReadSettings DEF setRateReturns
  <2>4. QED
    BY <1>2, <2>1, <2>2, <2>3 DEF FrameStages
<1>5. CASE setGain
  <2>1. pc = "gain" /\ pc' \in {"setGain", "frameIn"}
        /\ UNCHANGED <<m_currentRate, m_currentGainIn, m_currentGainOut>>
    BY <1>5 DEF setGain, object
  <2>2. pc' = "frameIn" => newGainIn = m_currentGainIn /\ newGainOut = m_currentGainOut
    BY <1>5 DEF setGain
  <2>3. Adopted'
    BY <1>0, <2>1, <2>2 DEF SyncedInv, Adopted, newGainIn, newGainOut
  <2>4. ASSUME OwnPackets PROVE OwnPackets'
    <3> DEFINE q == [type |-> "GAIN", gainIn |-> GainLevel(newGainIn),
                     gainOut |-> GainLevel(newGainOut)]
    <3>1. CASE write(q)
      <4>1. newGainIn \in Int /\ newGainOut \in Int
        <5>1. newGainIn \in Gains \cup {0} /\ newGainOut \in Gains \cup {0}
          BY <2>1, NewGainsAreTyped DEF Typed, FrameStages
        <5>2. QED
          BY <5>1, ConstantsAssumption
      <4>2. q \in Query
        BY <4>1, GainLevelIsLevel DEF Query
      <4>3. QED
        BY <2>1, <2>4, <3>1, <4>2, WriteSettings DEF SettingTypes
    <3>2. CASE UNCHANGED link
      BY <2>1, <2>4, <3>2, OnlySettings DEF link, OwnPackets
    <3>3. QED
      BY <1>5, <3>1, <3>2 DEF setGain
  <2>5. QED
    BY <1>2, <2>1, <2>3, <2>4 DEF FrameStages
<1>6. CASE setGainReturns
  <2>1. pc = "setGain" /\ pc' = "frameIn" /\ UNCHANGED m_currentRate
        /\ m_currentGainIn' = newGainIn /\ m_currentGainOut' = newGainOut
    BY <1>6 DEF setGainReturns
  <2>2. Adopted'
    BY <1>0, <2>1 DEF SyncedInv, Adopted, newGainIn, newGainOut
  <2>3. OwnPackets => OwnPackets'
    BY <1>6, <2>1, ReadSettings DEF setGainReturns
  <2>4. QED
    BY <1>2, <2>1, <2>2, <2>3 DEF FrameStages
<1>7. CASE setGainOverruns
  <2>1. PICK m \in Arrivals : m.type \in {"NAME", "AMBE", "AUDIO"}
    BY <1>7 DEF setGainOverruns
  <2>2. pc = "setGain" /\ pc' = "overrun" /\ UNCHANGED got
    BY <1>7 DEF setGainOverruns
  <2>3. ~(call.synced /\ OwnPackets)
    <3>1. SUFFICES ASSUME OwnPackets PROVE FALSE
      OBVIOUS
    <3>2. toHost # <<>> /\ m = Head(toHost)
      BY <2>1, ArrivalCases DEF RespError
    <3>3. m = toHost[1] /\ 1 \in DOMAIN toHost
      BY <3>2, TailTakesOne DEF Typed, TypeOK
    <3>4. QED
      BY <2>1, <2>2, <3>1, <3>3, OnlySettings DEF SettingTypes
  <2>4. ~call.synced
    BY <2>2, <2>3 DEF SyncedInv, FrameStages
  <2>5. QED
    BY <1>0, <2>2, <2>4 DEF SyncedInv, Adopted, FrameStages, ServedAsAsked,
                            SyncedCallFitsBuffers
<1>8. CASE frameIn
  <2>1. pc = "frameIn" /\ pc' = "frameOut"
        /\ UNCHANGED <<m_currentRate, m_currentGainIn, m_currentGainOut>>
    BY <1>8 DEF frameIn, object
  <2>2. Adopted'
    BY <1>0, <2>1 DEF SyncedInv, Adopted
  <2>3. ASSUME OwnPackets PROVE OwnPackets'
    <3>1. call.body \in Frames
      BY <2>1 DEF Typed, TypeOK, FrameStages, FrameCall
    <3>2. PICK q \in Query : write(q) /\ OwnQuery(q)
      <4>1. m_currentNbMbeBits \in Nat /\ m_currentNbMbeBytes \in Nat
        BY DEF Typed, TypeOK
      <4>2. CASE encodeIn
        BY <3>1, <4>2 DEF encodeIn, Query, OwnQuery
      <4>3. CASE decodeIn
        BY <3>1, <4>1, <4>3 DEF decodeIn, Query, OwnQuery
      <4>4. QED
        BY <1>8, <4>2, <4>3 DEF frameIn
    <3>3. /\ DOMAIN toDevice' = 1 .. Len(toDevice) + 1 /\ UNCHANGED toHost
          /\ \A i \in 1 .. Len(toDevice) : toDevice'[i] = toDevice[i]
          /\ toDevice'[Len(toDevice) + 1] = q
      BY <3>2, WriteAddsOne
    <3>4. DOMAIN toDevice = 1 .. Len(toDevice) /\ Len(toDevice) \in Nat
      BY LenProperties DEF Typed, TypeOK
    <3>5. Len(toDevice') = Len(toDevice) + 1
      BY <3>2, AppendProperties DEF write, Typed, TypeOK
    <3>6. OwnQuery(q)'
      BY <1>0, <3>2 DEF OwnQuery
    <3>7. /\ \A i \in 1 .. Len(toDevice) : toDevice[i].type \in SettingTypes
          /\ \A i \in DOMAIN toHost : toHost[i].type \in SettingTypes
      BY <2>1, <2>3, <3>4, OnlySettings
    <3>8. \A i \in DOMAIN toDevice' :
            \/ toDevice'[i].type \in SettingTypes
            \/ i = Len(toDevice') /\ toDevice'[i] = q
      BY <3>3, <3>4, <3>5, <3>7
    <3>9. QED
      BY <2>1, <3>3, <3>6, <3>7, <3>8 DEF OwnPackets
  <2>4. QED
    BY <1>2, <2>1, <2>2, <2>3 DEF FrameStages
<1>9. CASE frameOut
  <2>1. PICK m \in Arrivals : encodeOut(m) \/ decodeOut(m)
    BY <1>9 DEF frameOut
  <2>2. pc = "frameOut" /\ pc' = "idle"
    BY <1>9 DEF frameOut
  <2>3. call.synced => got' = NoReply \/ OwnReply(got')
    BY <2>1, <2>2, ReadResult DEF SyncedInv, FrameStages
  <2>4. ServedAsAsked'
    BY <1>0, <2>3 DEF ServedAsAsked, OwnReply, SettingsArrive
  <2>5. QED
    BY <2>2, <2>4 DEF SyncedInv, Adopted, FrameStages, SyncedCallFitsBuffers
<1>10. CASE waitHangs
  <2>1. pc \in Waiting /\ pc' = "hung" /\ UNCHANGED got
    BY <1>10 DEF waitHangs
  <2>2. got = NoReply
    BY <2>1 DEF Typed, TypeOK, Waiting
  <2>3. QED
    BY <2>1, <2>2 DEF SyncedInv, Adopted, FrameStages, ServedAsAsked,
                      SyncedCallFitsBuffers
<1>11. QED
  BY <1>1, <1>3, <1>4, <1>5, <1>6, <1>7, <1>8, <1>9, <1>10 DEF Proceeds

\* The frame of a synced call is answered with the settings of the call.
LEMMA AnswerIsOwn ==
  ASSUME Typed, Adopted, CachedInv, pc = "frameOut",
         toDevice # <<>>, Len(toDevice) = 1, OwnQuery(Head(toDevice))
  PROVE  OwnReply(Answer(Head(toDevice)))
<1> DEFINE q == Head(toDevice)
<1>1. /\ q = toDevice[1] /\ DOMAIN toDevice = 1 .. 1
  BY TailTakesOne, LenProperties DEF Typed, TypeOK
<1>2. call.op \in {"encode", "decode"}
  BY DEF Typed, TypeOK, FrameStages, FrameCall
<1>3. /\ q.type = IF call.op = "encode" THEN "AUDIO" ELSE "AMBE"
      /\ q.body = call.body
  BY DEF OwnQuery
<1>4. q.type \notin SettingTypes
  BY <1>3 DEF SettingTypes
<1>5. ASSUME SettingsArrive, call.rate \in Programmable
      PROVE  chip.rate = call.rate
  <2>1. RateAhead(chip, toDevice, call.rate)
    BY <1>5 DEF CachedInv, Cached, CachedRate, Adopted
  <2>2. ~IsLastOfType([type |-> "RATEP", rate |-> call.rate], toDevice)
    BY <1>1, <1>4 DEF IsLastOfType, SettingTypes
  <2>3. QED
    BY <2>1, <2>2 DEF RateAhead
<1>6. ASSUME SettingsArrive
      PROVE  /\ chip.gainIn = GainLevel(m_currentGainIn)
             /\ chip.gainOut = GainLevel(m_currentGainOut)
  <2>1. GainsAhead(chip, toDevice, GainLevel(m_currentGainIn), GainLevel(m_currentGainOut))
    BY <1>6 DEF CachedInv, Cached, CachedGains, GainsKnown
  <2>2. ~IsLastOfType([type |-> "GAIN", gainIn |-> GainLevel(m_currentGainIn),
                       gainOut |-> GainLevel(m_currentGainOut)], toDevice)
    BY <1>1, <1>4 DEF IsLastOfType, SettingTypes
  <2>3. QED
    BY <2>1, <2>2 DEF GainsAhead
<1>7. CASE call.op = "encode"
  <2>1. Answer(q).body = q.body /\ Answer(q).rate = chip.rate /\ Answer(q).gain = chip.gainIn
    BY <1>3, <1>7 DEF Answer
  <2>2. m_currentGainIn = call.gain
    BY <1>7 DEF Adopted
  <2>3. QED
    BY <1>3, <1>5, <1>6, <2>1, <2>2 DEF OwnReply
<1>8. CASE call.op = "decode"
  <2>1. Answer(q).body = q.body /\ Answer(q).rate = chip.rate /\ Answer(q).gain = chip.gainOut
    BY <1>3, <1>8 DEF Answer
  <2>2. m_currentGainOut = call.gain
    BY <1>8 DEF Adopted
  <2>3. QED
    BY <1>3, <1>5, <1>6, <2>1, <2>2 DEF OwnReply
<1>9. QED
  BY <1>2, <1>7, <1>8

\* RATEP and GAIN are answered in kind.
LEMMA SettingIsAnswered ==
  ASSUME NEW q \in Query, q.type \in SettingTypes
  PROVE  Answer(q).type \in SettingTypes
<1>1. CASE q.type = "RATEP"
  BY <1>1 DEF Answer, SettingTypes
<1>2. CASE q.type = "GAIN"
  BY <1>2 DEF Answer, SettingTypes
<1>3. CASE q.type = "UNKNOWN"
  BY <1>3 DEF Answer, SettingTypes
<1>4. QED
  BY <1>1, <1>2, <1>3 DEF SettingTypes

\* When the oldest query is taken, the frame is still the last.
LEMMA TailIsOwn ==
  ASSUME Typed, OwnPackets, toDevice # <<>>
  PROVE  /\ \A i \in DOMAIN Tail(toDevice) :
              \/ Tail(toDevice)[i].type \in SettingTypes
              \/ /\ pc = "frameOut" /\ i = Len(Tail(toDevice))
                 /\ OwnQuery(Tail(toDevice)[i])
         /\ \/ Head(toDevice).type \in SettingTypes
            \/ pc = "frameOut" /\ Len(toDevice) = 1 /\ OwnQuery(Head(toDevice))
<1>1. /\ DOMAIN toDevice = 1 .. Len(toDevice) /\ Len(toDevice) \in Nat \ {0}
      /\ Head(toDevice) = toDevice[1]
      /\ Len(Tail(toDevice)) = Len(toDevice) - 1
      /\ DOMAIN Tail(toDevice) = 1 .. Len(toDevice) - 1
      /\ \A i \in 1 .. Len(toDevice) - 1 : Tail(toDevice)[i] = toDevice[i + 1]
  BY TailTakesOne, LenProperties DEF Typed, TypeOK
<1>2. \A i \in DOMAIN Tail(toDevice) :
        /\ i + 1 \in DOMAIN toDevice /\ Tail(toDevice)[i] = toDevice[i + 1]
        /\ i + 1 = Len(toDevice) => i = Len(Tail(toDevice))
  BY <1>1
<1>3. 1 \in DOMAIN toDevice
  BY <1>1
<1>4. QED
  BY <1>1, <1>2, <1>3 DEF OwnPackets

\* Neither the chip nor the link brings packets into a call that are not its own.
LEMMA EnvironmentSynced ==
  ASSUME Typed, CachedInv, SyncedInv, Environment
  PROVE  SyncedInv'
<1>1. UNCHANGED <<object, pc, call, got>>
  BY DEF Environment, ChipAnswers, ChipReports, LoseQuery, LoseReply, PowerCycle
<1>2. Adopted' /\ ServedAsAsked' /\ SyncedCallFitsBuffers'
  BY <1>1 DEF object, SyncedInv, Adopted, ServedAsAsked, SyncedCallFitsBuffers,
              SettingsArrive
<1>3. \A q : OwnQuery(q)' <=> OwnQuery(q)
  BY <1>1 DEF OwnQuery
<1>4. \A m : OwnReply(m)' <=> OwnReply(m)
  BY <1>1 DEF OwnReply, SettingsArrive
<1>5. ASSUME pc \in FrameStages, OwnPackets PROVE OwnPackets'
  <2>1. CASE ChipAnswers
    <3> DEFINE a == Answer(Head(toDevice))
    <3>1. toDevice # <<>> /\ toDevice' = Tail(toDevice)
          /\ (toHost' = toHost \/ toHost' = Append(toHost, a))
      BY <2>1 DEF ChipAnswers
    <3>2. Head(toDevice) \in Query
      BY <3>1, HeadTailProperties DEF Typed, TypeOK
    <3>3. a.type \in SettingTypes \/ (pc = "frameOut" /\ OwnReply(a))
      BY <1>5, <3>1, <3>2, TailIsOwn, SettingIsAnswered, AnswerIsOwn DEF SyncedInv
    <3>4. a \in Reply
      BY <3>2, AnswersAreReplies DEF Typed, TypeOK
    <3>5. \A i \in DOMAIN toHost' :
            toHost'[i].type \in SettingTypes \/ (pc = "frameOut" /\ OwnReply(toHost'[i]))
      <4>1. CASE toHost' = toHost
        BY <1>5, <4>1 DEF OwnPackets
      <4>2. CASE toHost' = Append(toHost, a)
        <5>1. /\ DOMAIN toHost = 1 .. Len(toHost) /\ Len(toHost) \in Nat
              /\ DOMAIN toHost' = 1 .. Len(toHost) + 1
              /\ \A i \in 1 .. Len(toHost) : toHost'[i] = toHost[i]
              /\ toHost'[Len(toHost) + 1] = a
          BY <3>4, <4>2, AppendProperties, LenProperties DEF Typed, TypeOK
        <5>2. \A i \in DOMAIN toHost' : i \in DOMAIN toHost \/ toHost'[i] = a
          BY <5>1
        <5>3. QED
          BY <1>5, <3>3, <5>1, <5>2 DEF OwnPackets
      <4>3. QED
        BY <3>1, <4>1, <4>2
    <3>6. QED
      BY <1>1, <1>3, <1>4, <1>5, <3>1, <3>5, TailIsOwn DEF OwnPackets
  <2>2. CASE LoseQuery
    <3>1. toDevice # <<>> /\ toDevice' = Tail(toDevice) /\ toHost' = toHost
      BY <2>2 DEF LoseQuery
    <3>2. QED
      BY <1>1, <1>3, <1>4, <1>5, <3>1, TailIsOwn DEF OwnPackets
  <2>3. CASE LoseReply
    <3>1. toHost # <<>> /\ toHost' = Tail(toHost) /\ toDevice' = toDevice
      BY <2>3 DEF LoseReply
    <3>2. \A i \in DOMAIN toHost' : i + 1 \in DOMAIN toHost /\ toHost'[i] = toHost[i + 1]
      BY <3>1, TailTakesOne, LenProperties DEF Typed, TypeOK
    <3>3. QED
      BY <1>1, <1>3, <1>4, <1>5, <3>1, <3>2 DEF OwnPackets
  <2>4. CASE ChipReports
    <3> DEFINE a == [type |-> "UNKNOWN"]
    <3>1. toDevice' = toDevice /\ toHost' = Append(toHost, a)
      BY <2>4 DEF ChipReports
    <3>2. a \in Reply /\ a.type \in SettingTypes
      BY DEF Reply, SettingTypes
    <3>3. \A i \in DOMAIN toHost' :
            (i \in DOMAIN toHost /\ toHost'[i] = toHost[i]) \/ toHost'[i] = a
      BY <3>1, <3>2, AppendProperties, LenProperties DEF Typed, TypeOK
    <3>4. QED
      BY <1>1, <1>3, <1>4, <1>5, <3>1, <3>2, <3>3 DEF OwnPackets
  <2>5. CASE PowerCycle
    BY <1>5, <2>5 DEF PowerCycle, FrameStages
  <2>6. QED
    BY <2>1, <2>2, <2>3, <2>4, <2>5 DEF Environment
<1>6. QED
  BY <1>1, <1>2, <1>5 DEF SyncedInv

\* What a synced call has in flight is its own, and it gets no more than that.
THEOREM SyncedIsInvariant == Spec => []SyncedInv
<1>1. Init => SyncedInv
  BY DEF Init, SyncedInv, Adopted, FrameStages, ServedAsAsked, SyncedCallFitsBuffers
<1>2. Typed /\ Typed' /\ CachedInv /\ SyncedInv /\ [Next]_vars => SyncedInv'
  <2> SUFFICES ASSUME Typed, Typed', CachedInv, SyncedInv, [Next]_vars PROVE SyncedInv'
    OBVIOUS
  <2>1. CASE Next
    BY <2>1, CallsSynced, ProceedsSynced, EnvironmentSynced DEF Next
  <2>2. CASE UNCHANGED vars
    BY <2>2 DEF vars, object, link, SyncedInv, Adopted, OwnPackets, OwnQuery, OwnReply,
                ServedAsAsked, SyncedCallFitsBuffers, SettingsArrive
  <2>3. QED
    BY <2>1, <2>2
<1>3. QED
  BY <1>1, <1>2, TypingIsInvariant, CachedIsInvariant, PTL DEF Spec

\* Such a call never reads a packet that its buffer is too short for.
THEOREM SyncedCallsFitBuffers == Spec => []SyncedCallFitsBuffers
<1>1. SyncedInv => SyncedCallFitsBuffers
  BY DEF SyncedInv
<1>2. QED
  BY <1>1, SyncedIsInvariant, PTL

\* A documented gain survives the conversion to a level as it is.
LEMMA DocumentedGainIsItsLevel ==
  ASSUME NEW g \in Levels
  PROVE  GainLevel(g) = g
<1>1. g \in Int /\ g >= -90 /\ g <= 90
  BY SMT DEF Levels
<1>2. ToSignedChar(g) = g
  BY <1>1, SMT DEF ToSignedChar
<1>3. QED
  BY <1>1, <1>2, SMT DEF GainLevel, ClampDb

\* The frame of such a call is amplified by what the caller asked for, if that is
\* within the documented range, whatever was asked for before.
THEOREM DocumentedGainsAreApplied == Spec => []DocumentedGainIsApplied
<1>1. SyncedInv => DocumentedGainIsApplied
  BY DocumentedGainIsItsLevel DEF SyncedInv, ServedAsAsked, DocumentedGainIsApplied
<1>2. QED
  BY <1>1, SyncedIsInvariant, PTL

-----------------------------------------------------------------------------
(***************************************************************************)
(* What a client sees of a DVController, for every value of the constants: *)
(* the sizes of frames, the packets its calls leave behind, and that the   *)
(* object implements FrameService.                                         *)
(***************************************************************************)

(***************************************************************************)
(* The sizes of frames.                                                    *)
(***************************************************************************)

\* The tables of setRate, of the control words and of the sizes announced to callers
\* agree for every rate but one.
LEMMA TablesAgree ==
  ASSUME NEW r \in WholeFrames
  PROVE  /\ RateBits[r] = ControlWordBits[r]
         /\ RateBits[r] = getNbMbeBits(r)
         /\ RateBytes[r] = BytesOf(RateBits[r])
         /\ RateBytes[r] = getNbMbeBytes(r)
<1>1. RateBits[r] = ControlWordBits[r] /\ RateBytes[r] = BytesOf(RateBits[r])
  BY SMT DEF WholeFrames, Programmable, RateBits, RateBytes, ControlWordBits, BytesOf
<1>2. RateBits[r] = getNbMbeBits(r)
  BY SMT DEF WholeFrames, Programmable, RateBits, getNbMbeBits
<1>3. RateBytes[r] = getNbMbeBytes(r)
  BY SMT DEF WholeFrames, Programmable, RateBits, RateBytes, getNbMbeBytes
<1>4. QED
  BY <1>1, <1>2, <1>3

\* The cached sizes are those of the cached rate, or of the rate that setRate is
\* about to cache.
SizesCached ==
  /\ pc = "setRate" =>
       /\ call.rate \in Programmable
       /\ m_currentNbMbeBits = RateBits[call.rate]
       /\ m_currentNbMbeBytes = RateBytes[call.rate]
  /\ pc \notin {"setRate", "hung"} /\ m_currentRate \in Programmable =>
       /\ m_currentNbMbeBits = RateBits[m_currentRate]
       /\ m_currentNbMbeBytes = RateBytes[m_currentRate]

\* A frame was returned by a call whose rate is still the cached one.
RateOfResult == got # NoReply => m_currentRate = call.rate

\* The frames in flight of a synced call have the size that belongs to its rate.
OwnSizes ==
  /\ \A i \in DOMAIN toDevice :
       toDevice[i].type = "AMBE" => /\ toDevice[i].bits = RateBits[call.rate]
                                    /\ toDevice[i].bytes = RateBytes[call.rate]
  /\ \A i \in DOMAIN toHost :
       toHost[i].type \in FrameQueryTypes => /\ toHost[i].bits = RateBits[call.rate]
                                             /\ toHost[i].intact

\* The calls whose sizes are known: those that find the link quiet and can set their
\* rate, but for the one at which the tables differ.
Sized == call.synced /\ SettingsArrive /\ call.rate \in WholeFrames

SizesInv == /\ SizesCached
            /\ RateOfResult
            /\ pc = "frameOut" /\ Sized => OwnSizes
            /\ got # NoReply /\ Sized => got.bits = RateBits[call.rate] /\ got.intact

\* What the client makes the object begin leaves its sizes alone.
LEMMA CallsSized ==
  ASSUME Typed, SizesInv, Calls
  PROVE  SizesInv'
<1>1. /\ pc = "idle" /\ pc' \notin {"setRate", "frameOut", "hung"}
      /\ UNCHANGED <<m_currentRate, m_currentNbMbeBits, m_currentNbMbeBytes>>
      /\ got' = NoReply \/ UNCHANGED <<got, call>>
  BY DEF Calls, open, close, closeAborts, encode, decode, start, settings, object
<1>2. SizesCached'
  BY <1>1 DEF SizesInv, SizesCached
<1>3. QED
  BY <1>1, <1>2 DEF SizesInv, RateOfResult, Sized, SettingsArrive

\* The frame that is written has the cached size, which is that of the call's rate.
LEMMA FrameIsSized ==
  ASSUME Typed, SyncedInv, SizesInv, frameIn, Sized
  PROVE  OwnSizes'
<1>1. pc = "frameIn" /\ UNCHANGED <<call, object>>
  BY DEF frameIn
<1>2. m_currentNbMbeBits = RateBits[call.rate] /\ m_currentNbMbeBytes = RateBytes[call.rate]
  BY <1>1 DEF SizesInv, SizesCached, SyncedInv, Adopted, Sized, WholeFrames
<1>3. OwnPackets
  BY <1>1 DEF SyncedInv, FrameStages, Sized
<1>4. PICK q \in Query :
        /\ write(q)
        /\ q.type = "AMBE" => q.bits = RateBits[call.rate] /\ q.bytes = RateBytes[call.rate]
  <2>1. call.body \in Frames /\ m_currentNbMbeBits \in Nat /\ m_currentNbMbeBytes \in Nat
    BY <1>1 DEF Typed, TypeOK, FrameStages, FrameCall
  <2>2. CASE encodeIn
    BY <2>1, <2>2 DEF encodeIn, Query
  <2>3. CASE decodeIn
    BY <1>2, <2>1, <2>3 DEF decodeIn, Query
  <2>4. QED
    BY <2>2, <2>3 DEF frameIn
<1>5. /\ DOMAIN toDevice' = 1 .. Len(toDevice) + 1 /\ UNCHANGED toHost
      /\ \A i \in 1 .. Len(toDevice) : toDevice'[i] = toDevice[i]
      /\ toDevice'[Len(toDevice) + 1] = q
      /\ DOMAIN toDevice = 1 .. Len(toDevice) /\ Len(toDevice) \in Nat
  BY <1>4, WriteAddsOne, LenProperties DEF Typed, TypeOK
<1>6. \A i \in DOMAIN toDevice' : i \in DOMAIN toDevice \/ toDevice'[i] = q
  BY <1>5
<1>7. /\ \A i \in DOMAIN toDevice : toDevice[i].type \in SettingTypes
      /\ \A i \in DOMAIN toHost : toHost[i].type \in SettingTypes
  BY <1>1, <1>3, OnlySettings
<1>8. QED
  BY <1>1, <1>4, <1>5, <1>6, <1>7 DEF OwnSizes, SettingTypes, FrameQueryTypes

\* What a call returns has the size of the packet it was returned.
LEMMA ResultIsSized ==
  ASSUME Typed, OwnSizes, NEW m \in Arrivals, encodeOut(m) \/ decodeOut(m), got' # NoReply,
         call.rate \in WholeFrames, m_currentNbMbeBytes = RateBytes[call.rate]
  PROVE  got'.bits = RateBits[call.rate] /\ got'.intact
<1>1. /\ m \in FrameReply /\ m # RespError /\ got'.bits = m.bits
      /\ got'.intact = m.intact \/ got'.intact = (m_currentNbMbeBytes = BytesOf(m.bits))
  BY ArrivalsAreTyped, ResultIsFrame DEF Typed, TypeOK
<1>2. toHost # <<>> /\ m = Head(toHost)
  BY <1>1, ArrivalCases
<1>3. m = toHost[1] /\ 1 \in DOMAIN toHost
  BY <1>2, TailTakesOne DEF Typed, TypeOK
<1>4. m.type \in FrameQueryTypes
  BY <1>1 DEF FrameReply, FrameQueryTypes
<1>5. m.bits = RateBits[call.rate] /\ m.intact
  BY <1>3, <1>4 DEF OwnSizes
<1>6. m_currentNbMbeBytes = BytesOf(m.bits)
  BY <1>5, TablesAgree
<1>7. QED
  BY <1>1, <1>5, <1>6

\* setRate caches the sizes together with the rate.
LEMMA ProceedsCacheSizes ==
  ASSUME SizesCached, Proceeds, UNCHANGED call
  PROVE  SizesCached'
<1>1. CASE setRate
  BY <1>1 DEF setRate, SizesCached
<1>2. CASE setRateReturns
  BY <1>2 DEF setRateReturns, SizesCached
<1>3. CASE waitHangs
  BY <1>3 DEF waitHangs, SizesCached
<1>4. CASE ~setRate /\ ~setRateReturns /\ ~waitHangs
  <2>1. /\ pc \notin {"rate", "setRate"} /\ pc' # "setRate"
        /\ UNCHANGED <<m_currentRate, m_currentNbMbeBits, m_currentNbMbeBytes>>
    BY <1>4 DEF Proceeds, openIdentified, openRefused, setGain, setGainReturns,
                setGainOverruns, frameIn, frameOut, object, settings
  <2>2. pc # "hung"
    BY <1>4 DEF Proceeds, openIdentified, openRefused, setGain, setGainReturns,
                setGainOverruns, frameIn, frameOut
  <2>3. QED
    BY <2>1, <2>2 DEF SizesCached
<1>5. QED
  BY <1>1, <1>2, <1>3, <1>4

\* The frame is sized by the cached sizes.
LEMMA ProceedsSized ==
  ASSUME Typed, SyncedInv, SizesInv, Proceeds
  PROVE  SizesInv'
<1>0. UNCHANGED call
  BY DEF Proceeds, openIdentified, openRefused, setRate, setRateReturns, setGain,
         setGainReturns, setGainOverruns, frameIn, frameOut, waitHangs
<1>1. SizesCached'
  BY <1>0, ProceedsCacheSizes DEF SizesInv
<1>2. CASE pc \notin {"frameIn", "frameOut"} \/ waitHangs
  <2>1. pc' # "frameOut" /\ got' = NoReply
    BY <1>2 DEF Proceeds, openIdentified, openRefused, setRate, setRateReturns, setGain,
                setGainReturns, setGainOverruns, frameIn, frameOut, waitHangs, Waiting,
                Typed, TypeOK, FrameStages
  <2>2. QED
    BY <1>1, <2>1 DEF SizesInv, RateOfResult
<1>3. CASE frameIn
  <2>1. got' = NoReply
    BY <1>3 DEF frameIn, Typed, TypeOK
  <2>2. Sized => OwnSizes'
    BY <1>3, FrameIsSized
  <2>3. QED
    BY <1>0, <1>1, <2>1, <2>2 DEF SizesInv, RateOfResult, Sized, SettingsArrive
<1>4. CASE frameOut
  <2>1. PICK m \in Arrivals : encodeOut(m) \/ decodeOut(m)
    BY <1>4 DEF frameOut
  <2>2. pc = "frameOut" /\ pc' = "idle" /\ UNCHANGED m_currentRate
    BY <1>4 DEF frameOut, object
  <2>3. m_currentRate' = call.rate
    BY <2>2 DEF SyncedInv, Adopted
  <2>4. ASSUME Sized, got' # NoReply
        PROVE  got'.bits = RateBits[call.rate] /\ got'.intact
    <3>1. m_currentNbMbeBytes = RateBytes[call.rate]
      BY <2>2, <2>4 DEF SizesInv, SizesCached, SyncedInv, Adopted, Sized, WholeFrames
    <3>2. QED
      BY <2>1, <2>2, <2>4, <3>1, ResultIsSized DEF SizesInv, Sized
  <2>5. QED
    BY <1>0, <1>1, <2>2, <2>3, <2>4 DEF SizesInv, RateOfResult, Sized, SettingsArrive
<1>5. QED
  BY <1>2, <1>3, <1>4 DEF Proceeds, openIdentified, openRefused, setRate, setRateReturns,
                          setGain, setGainReturns, setGainOverruns

\* The chip answers a frame with one of the size that belongs to the call's rate.
LEMMA AnswerIsSized ==
  ASSUME Typed, CachedInv, Adopted, OwnPackets, OwnSizes, Sized, pc = "frameOut",
         toDevice # <<>>, Answer(Head(toDevice)).type \in FrameQueryTypes
  PROVE  Answer(Head(toDevice)).bits = RateBits[call.rate] /\ Answer(Head(toDevice)).intact
<1> DEFINE q == Head(toDevice)
<1>1. q \in Query /\ q = toDevice[1] /\ 1 \in DOMAIN toDevice
  BY TailTakesOne, HeadTailProperties DEF Typed, TypeOK
<1>2. q.type \notin SettingTypes
  BY <1>1, SettingIsAnswered DEF SettingTypes, FrameQueryTypes
<1>3. Len(toDevice) = 1 /\ OwnQuery(q)
  BY <1>2, TailIsOwn
<1>4. Answer(q).rate = call.rate
  BY <1>3, AnswerIsOwn DEF OwnReply, Sized, WholeFrames
<1>5. CASE q.type = "AUDIO"
  <2>1. /\ Answer(q).rate = chip.rate /\ Answer(q).bits = ControlWordBits[chip.rate]
        /\ Answer(q).intact
    BY <1>5 DEF Answer
  <2>2. QED
    BY <1>4, <2>1, TablesAgree DEF Sized
<1>6. CASE q.type = "AMBE"
  <2>1. /\ Answer(q).rate = chip.rate /\ Answer(q).bits = q.bits
        /\ Answer(q).intact = Understood(q)
    BY <1>6 DEF Answer
  <2>2. q.bits = RateBits[call.rate] /\ q.bytes = RateBytes[call.rate]
    BY <1>1, <1>6 DEF OwnSizes
  <2>3. Understood(q)
    BY <1>4, <2>1, <2>2, TablesAgree DEF Understood, Sized
  <2>4. QED
    BY <2>1, <2>2, <2>3
<1>7. QED
  BY <1>3, <1>5, <1>6 DEF OwnQuery

\* Neither the chip nor the link changes the size of a frame.
LEMMA EnvironmentSized ==
  ASSUME Typed, CachedInv, SyncedInv, SizesInv, Environment
  PROVE  SizesInv'
<1>1. UNCHANGED <<object, pc, call, got>>
  BY DEF Environment, ChipAnswers, ChipReports, LoseQuery, LoseReply, PowerCycle
<1>2. ASSUME pc = "frameOut", Sized, OwnSizes PROVE OwnSizes'
  <2>0. toDevice \in Seq(Query) /\ toHost \in Seq(Reply)
    BY DEF Typed, TypeOK
  <2>1. CASE ChipAnswers
    <3> DEFINE a == Answer(Head(toDevice))
    <3>1. toDevice # <<>> /\ toDevice' = Tail(toDevice)
          /\ (toHost' = toHost \/ toHost' = Append(toHost, a))
      BY <2>1 DEF ChipAnswers
    <3>2. OwnPackets /\ Adopted
      BY <1>2 DEF SyncedInv, FrameStages, Sized
    <3>3. a.type \in FrameQueryTypes => a.bits = RateBits[call.rate] /\ a.intact
      BY <1>2, <2>0, <3>1, <3>2, AnswerIsSized
    <3>4. a \in Reply
      BY <2>0, <3>1, HeadTailProperties, AnswersAreReplies DEF Typed, TypeOK
    <3>5. \A i \in DOMAIN toDevice' : i + 1 \in DOMAIN toDevice /\ toDevice'[i] = toDevice[i + 1]
      BY <2>0, <3>1, TailTakesOne, LenProperties
    <3>6. \A i \in DOMAIN toHost' : (i \in DOMAIN toHost /\ toHost'[i] = toHost[i]) \/ toHost'[i] = a
      <4>1. CASE toHost' = toHost
        BY <4>1
      <4>2. CASE toHost' = Append(toHost, a)
        BY <2>0, <3>4, <4>2, AppendProperties, LenProperties
      <4>3. QED
        BY <3>1, <4>1, <4>2
    <3>7. QED
      BY <1>1, <1>2, <3>3, <3>5, <3>6 DEF OwnSizes
  <2>2. CASE LoseQuery
    <3>1. \A i \in DOMAIN toDevice' : i + 1 \in DOMAIN toDevice /\ toDevice'[i] = toDevice[i + 1]
      BY <2>0, <2>2, TailTakesOne, LenProperties DEF LoseQuery
    <3>2. QED
      BY <1>1, <1>2, <2>2, <3>1 DEF LoseQuery, OwnSizes
  <2>3. CASE LoseReply
    <3>1. \A i \in DOMAIN toHost' : i + 1 \in DOMAIN toHost /\ toHost'[i] = toHost[i + 1]
      BY <2>0, <2>3, TailTakesOne, LenProperties DEF LoseReply
    <3>2. QED
      BY <1>1, <1>2, <2>3, <3>1 DEF LoseReply, OwnSizes
  <2>4. CASE ChipReports
    <3> DEFINE a == [type |-> "UNKNOWN"]
    <3>1. toDevice' = toDevice /\ toHost' = Append(toHost, a)
      BY <2>4 DEF ChipReports
    <3>2. a \in Reply /\ a.type \notin FrameQueryTypes
      BY DEF Reply, FrameQueryTypes
    <3>3. \A i \in DOMAIN toHost' :
            (i \in DOMAIN toHost /\ toHost'[i] = toHost[i]) \/ toHost'[i] = a
      BY <2>0, <3>1, <3>2, AppendProperties, LenProperties
    <3>4. QED
      BY <1>1, <1>2, <3>1, <3>2, <3>3 DEF OwnSizes
  <2>5. CASE PowerCycle
    BY <1>2, <2>5 DEF PowerCycle
  <2>6. QED
    BY <2>1, <2>2, <2>3, <2>4, <2>5 DEF Environment
<1>3. QED
  BY <1>1, <1>2 DEF object, SizesInv, SizesCached, RateOfResult, Sized, SettingsArrive

\* Cached and sent sizes are right, but for the rate at which the tables differ.
THEOREM SizesAreInvariant == Spec => []SizesInv
<1>1. Init => SizesInv
  <2>1. "DVRateNone" \notin Programmable
    BY SMT DEF Programmable, RateBits
  <2>2. QED
    BY <2>1 DEF Init, SizesInv, SizesCached, RateOfResult
<1>2. Typed /\ CachedInv /\ SyncedInv /\ SizesInv /\ [Next]_vars => SizesInv'
  <2> SUFFICES ASSUME Typed, CachedInv, SyncedInv, SizesInv, [Next]_vars PROVE SizesInv'
    OBVIOUS
  <2>1. CASE Next
    BY <2>1, CallsSized, ProceedsSized, EnvironmentSized DEF Next
  <2>2. CASE UNCHANGED vars
    BY <2>2 DEF vars, object, link, SizesInv, SizesCached, RateOfResult, OwnSizes, Sized,
                SettingsArrive
  <2>3. QED
    BY <2>1, <2>2
<1>3. QED
  BY <1>1, <1>2, TypingIsInvariant, CachedIsInvariant, SyncedIsInvariant, PTL DEF Spec

\* A call that begins with nothing in flight gets its own frame, handled at the rate
\* and with the gain it asked for, and the whole of it, whichever of its own waits it
\* gives up.
THEOREM SyncedCallsAreServed == Spec => []SyncedCallIsServed
<1>1. SyncedInv /\ SizesInv => SyncedCallIsServed
  BY DEF SyncedInv, ServedAsAsked, SizesInv, Sized, SyncedCallIsServed
<1>2. QED
  BY <1>1, SyncedIsInvariant, SizesAreInvariant, PTL

\* A frame that a synced call is served has the size that the object announces for
\* its rate, the size it has cached and the size that the chip gives it.
THEOREM SizesOfFramesAgree ==
  ASSUME "DVRate2200" \notin Rates
  PROVE  Spec => []FrameSizesAgree
<1>1. Typed /\ SyncedInv /\ SizesInv => FrameSizesAgree
  <2> SUFFICES ASSUME Typed, SyncedInv, SizesInv, got # NoReply, call.synced,
                      SettingsArrive, call.rate \in Programmable
               PROVE  /\ got.bits = ControlWordBits[got.rate]
                      /\ got.bits = getNbMbeBits(call.rate)
                      /\ m_currentNbMbeBytes = BytesOf(got.bits)
                      /\ m_currentNbMbeBytes = getNbMbeBytes(call.rate)
    BY DEF FrameSizesAgree
  <2>1. call.rate \in WholeFrames /\ Sized /\ got.rate = call.rate
    BY DEF Typed, TypeOK, FrameCall, WholeFrames, Sized, SyncedInv, ServedAsAsked
  <2>2. m_currentRate = call.rate /\ got.bits = RateBits[call.rate]
    BY <2>1 DEF SizesInv, RateOfResult
  <2>3. pc \notin {"setRate", "hung"}
    BY DEF Typed, TypeOK
  <2>4. m_currentNbMbeBytes = RateBytes[call.rate]
    BY <2>1, <2>2, <2>3 DEF SizesInv, SizesCached
  <2>5. QED
    BY <2>1, <2>2, <2>4, TablesAgree
<1>2. QED
  BY <1>1, TypingIsInvariant, SyncedIsInvariant, SizesAreInvariant, PTL

(***************************************************************************)
(* The packets that a call leaves behind.                                  *)
(***************************************************************************)

\* The number of packets in flight is a number.
LEMMA InFlightIsNat ==
  ASSUME Typed
  PROVE  InFlight \in Nat
BY LenProperties DEF Typed, TypeOK, InFlight

\* A wait takes one packet or none.
LEMMA ReturnTakesOne ==
  ASSUME Typed, NEW m \in Arrivals, getResponse(m)
  PROVE  InFlight' = InFlight \/ InFlight' = InFlight - 1
<1>1. CASE UNCHANGED <<toDevice, toHost>>
  BY <1>1 DEF InFlight
<1>2. CASE toHost # <<>> /\ toDevice' = toDevice /\ toHost' = Tail(toHost)
  <2>1. /\ Len(toHost') = Len(toHost) - 1
        /\ Len(toHost) \in Nat /\ Len(toDevice) \in Nat
    BY <1>2, TailTakesOne, LenProperties DEF Typed, TypeOK
  <2>2. QED
    BY <1>2, <2>1 DEF InFlight
<1>3. QED
  BY <1>1, <1>2, ReadTakesOldest

\* A write adds the packet that is waited for.
LEMMA WriteKeepsBacklog ==
  ASSUME Typed, NEW q \in Query, write(q), pc \notin Waiting, pc' \in Waiting
  PROVE  Backlog' = Backlog
<1>1. InFlight' = InFlight + 1 /\ InFlight \in Nat
  BY WriteAddsOne, InFlightIsNat
<1>2. Backlog = InFlight - 0 /\ Backlog' = InFlight' - 1
  BY Zenon DEF Backlog
<1>3. QED
  BY <1>1, <1>2

\* The end of a wait leaves the packet it was for, or another in its place.
LEMMA ReturnKeepsBacklog ==
  ASSUME Typed, NEW m \in Arrivals, getResponse(m), pc \in Waiting, pc' \notin Waiting
  PROVE  Backlog' \in {Backlog, Backlog + 1}
<1>1. (InFlight' = InFlight \/ InFlight' = InFlight - 1) /\ InFlight \in Nat
  BY ReturnTakesOne, InFlightIsNat
<1>2. Backlog = InFlight - 1 /\ Backlog' = InFlight' - 0
  BY Zenon DEF Backlog
<1>3. Backlog' = Backlog \/ Backlog' = Backlog + 1
  BY <1>1, <1>2
<1>4. QED
  BY <1>3

\* While the object is open the packets nobody waits for become fewer by no step, and
\* more only by a wait that is given up or never returns, or by a packet that comes
\* unasked: a link that has fallen behind stays behind.
THEOREM BacklogOnlyGrows == Spec => BacklogIsConserved
<1> DEFINE Kept == \/ Backlog' = Backlog
                   \/ Backlog' = Backlog + 1 /\ (pc' = "hung" \/ pc \in Waiting \/ ChipReports)
           Lossless == ~LosesQueries /\ ~LosesReplies /\ m_open /\ m_open'
<1>1. ASSUME Typed, Lossless, Next PROVE Kept
  <2>0. pc # "prodid"
    BY <1>1 DEF Typed, Ports
  <2>1. CASE Calls
    <3>1. CASE open \/ close
      BY <1>1, <3>1 DEF open, close
    <3>2. CASE ~open /\ ~close
      <4>1. UNCHANGED link /\ pc \notin Waiting /\ pc' \notin Waiting
        BY <2>1, <3>2 DEF Calls, closeAborts, encode, decode, start, Waiting
      <4>2. QED
        BY <4>1 DEF link, Backlog, InFlight
    <3>3. QED
      BY <3>1, <3>2
  <2>2. CASE openIdentified \/ openRefused
    BY <2>0, <2>2 DEF openIdentified, openRefused
  <2>3. CASE setRate
    <3>1. /\ pc \notin Waiting
          /\ \/ UNCHANGED link /\ pc' \notin Waiting
             \/ /\ call.rate \in Programmable /\ pc' \in Waiting
                /\ write([type |-> "RATEP", rate |-> call.rate])
      BY <2>3 DEF setRate, Waiting
    <3>2. call.rate \in Programmable => [type |-> "RATEP", rate |-> call.rate] \in Query
      BY DEF Query
    <3>3. QED
      BY <1>1, <3>1, <3>2, WriteKeepsBacklog DEF link, Backlog, InFlight
  <2>4. CASE setGain
    <3> DEFINE q == [type |-> "GAIN", gainIn |-> GainLevel(newGainIn),
                     gainOut |-> GainLevel(newGainOut)]
    <3>1. CASE newGainIn # m_currentGainIn \/ newGainOut # m_currentGainOut
      <4>1. pc = "gain" /\ write(q) /\ pc' = "setGain"
        BY <2>4, <3>1 DEF setGain
      <4>2. newGainIn \in Gains \cup {0} /\ newGainOut \in Gains \cup {0}
        BY <1>1, <2>4, NewGainsAreTyped DEF setGain, Typed, FrameStages
      <4>3. q \in Query
        BY <4>2, ConstantsAssumption, GainLevelIsLevel DEF Query
      <4>4. QED
        BY <1>1, <4>1, <4>3, WriteKeepsBacklog DEF Waiting
    <3>2. CASE ~(newGainIn # m_currentGainIn \/ newGainOut # m_currentGainOut)
      <4>1. pc = "gain" /\ UNCHANGED link /\ pc' = "frameIn"
        BY <2>4, <3>2 DEF setGain
      <4>2. Backlog' = Backlog
        BY <4>1 DEF link, Backlog, InFlight, Waiting
      <4>3. QED
        BY <4>2
    <3>3. QED
      BY <3>1, <3>2
  <2>5. CASE frameIn
    <3>1. pc \notin Waiting /\ pc' \in Waiting
      BY <2>5 DEF frameIn, Waiting
    <3>2. call.body \in Frames /\ m_currentNbMbeBits \in Nat /\ m_currentNbMbeBytes \in Nat
      BY <1>1, <2>5 DEF frameIn, Typed, TypeOK, FrameStages, FrameCall
    <3>3. PICK q \in Query : write(q)
      BY <2>5, <3>2 DEF frameIn, encodeIn, decodeIn, Query
    <3>4. QED
      BY <1>1, <3>1, <3>3, WriteKeepsBacklog
  <2>6. CASE setRateReturns \/ setGainReturns \/ setGainOverruns \/ frameOut
    <3>1. /\ pc \in Waiting /\ pc' \notin Waiting
          /\ \E m \in Arrivals : getResponse(m)
      BY <2>6 DEF setRateReturns, setGainReturns, setGainOverruns, frameOut, Waiting
    <3>2. QED
      BY <1>1, <3>1, ReturnKeepsBacklog
  <2>7. CASE ChipAnswers
    <3>1. /\ toDevice # <<>> /\ toDevice' = Tail(toDevice)
          /\ toHost' = Append(toHost, Answer(Head(toDevice)))
          /\ UNCHANGED pc
      BY <1>1, <2>7 DEF ChipAnswers, Typed, Ports
    <3>2. Answer(Head(toDevice)) \in Reply
      BY <1>1, <3>1, HeadTailProperties, AnswersAreReplies DEF Typed, TypeOK
    <3>3. /\ Len(toDevice') = Len(toDevice) - 1 /\ Len(toDevice) \in Nat
          /\ Len(toHost') = Len(toHost) + 1 /\ Len(toHost) \in Nat
      BY <1>1, <3>1, <3>2, TailTakesOne, AppendProperties, LenProperties DEF Typed, TypeOK
    <3>4. InFlight' = InFlight
      BY <3>3 DEF InFlight
    <3>5. QED
      BY <3>1, <3>4 DEF Backlog
  <2>8. CASE LoseQuery \/ LoseReply \/ PowerCycle
    BY <1>1, <2>8 DEF LoseQuery, LoseReply, PowerCycle
  <2>9. CASE waitHangs
    <3>1. pc \in Waiting /\ pc' = "hung" /\ UNCHANGED link
      BY <2>9 DEF waitHangs
    <3>2. InFlight' = InFlight /\ InFlight \in Nat
      BY <1>1, <3>1, InFlightIsNat DEF link, InFlight
    <3>3. Backlog = InFlight - 1 /\ Backlog' = InFlight' - 0
      BY <3>1, Zenon DEF Backlog, Waiting
    <3>4. Backlog' = Backlog + 1
      BY <3>2, <3>3
    <3>5. QED
      BY <3>1, <3>4
  <2>10. CASE ChipReports
    <3> DEFINE a == [type |-> "UNKNOWN"]
    <3>1. UNCHANGED <<toDevice, pc>> /\ toHost' = Append(toHost, a)
      BY <2>10 DEF ChipReports
    <3>2. a \in Reply
      BY DEF Reply
    <3>3. /\ Len(toHost') = Len(toHost) + 1 /\ Len(toHost) \in Nat
          /\ Len(toDevice') = Len(toDevice) /\ Len(toDevice) \in Nat
      BY <1>1, <3>1, <3>2, AppendProperties, LenProperties DEF Typed, TypeOK
    <3>4. InFlight' = InFlight + 1 /\ InFlight \in Nat
      BY <3>3 DEF InFlight
    <3>5. Backlog' = Backlog + 1
      <4>1. CASE pc \in Waiting
        <5>1. Backlog = InFlight - 1 /\ Backlog' = InFlight' - 1
          BY <3>1, <4>1, Zenon DEF Backlog
        <5>2. QED
          BY <3>4, <5>1
      <4>2. CASE pc \notin Waiting
        <5>1. Backlog = InFlight - 0 /\ Backlog' = InFlight' - 0
          BY <3>1, <4>2, Zenon DEF Backlog
        <5>2. QED
          BY <3>4, <5>1
      <4>3. QED
        BY <4>1, <4>2
    <3>6. QED
      BY <2>10, <3>5
  <2>11. QED
    BY <1>1, <2>1, <2>2, <2>3, <2>4, <2>5, <2>6, <2>7, <2>8, <2>9, <2>10
       DEF Next, Proceeds, Environment
<1>2. Typed /\ [Next]_vars => [Lossless => Kept]_vars
  BY <1>1
<1>3. QED
  BY <1>2, TypingIsInvariant, PTL DEF Spec, BacklogIsConserved

(***************************************************************************)
(* The abstract specification.  On a link that is prompt and keeps what is *)
(* written to it every call is synced, so that what it is served is what   *)
(* FrameService says; the other steps of the object begin a call, fail one *)
(* or are not to be seen.                                                  *)
(***************************************************************************)
OneAtATime == /\ pc \in FrameStages => call.synced
              /\ pc = "prodid" => call = NoCall

\* On a prompt link every call finds nothing in flight.
THEOREM CallsComeOneAtATime ==
  ASSUME MaxBacklog = 0, ~Reports
  PROVE  Spec => []OneAtATime
<1>1. Init => OneAtATime
  BY DEF Init, OneAtATime, FrameStages
<1>2. Alone /\ OneAtATime /\ [Next]_vars => OneAtATime'
  <2> SUFFICES ASSUME Alone, OneAtATime, [Next]_vars PROVE OneAtATime'
    OBVIOUS
  <2>1. CASE open \/ close \/ closeAborts
    BY <2>1 DEF open, close, closeAborts, OneAtATime, FrameStages
  <2>2. CASE \E f \in Frames, r \in Rates, g \in Gains : encode(f, r, g) \/ decode(f, r, g)
    <3>1. PICK op, f, r, g : start(op, f, r, g)
      BY <2>2 DEF encode, decode
    <3>2. InFlight = 0
      BY <3>1 DEF start, Alone, Waiting
    <3>3. pc' # "prodid" /\ call'.synced
      BY <3>1, <3>2 DEF start
    <3>4. QED
      BY <3>3 DEF OneAtATime
  <2>3. CASE Proceeds
    <3>1. /\ UNCHANGED call /\ pc' # "prodid"
          /\ pc' \in FrameStages => pc \in FrameStages
      BY <2>3 DEF Proceeds, openIdentified, openRefused, setRate, setRateReturns, setGain,
                  setGainReturns, setGainOverruns, frameIn, frameOut, waitHangs,
                  FrameStages
    <3>2. QED
      BY <3>1 DEF OneAtATime
  <2>4. CASE Environment \/ UNCHANGED vars
    <3>1. UNCHANGED <<pc, call>>
      BY <2>4 DEF Environment, ChipAnswers, ChipReports, LoseQuery, LoseReply, PowerCycle, vars
    <3>2. QED
      BY <3>1 DEF OneAtATime
  <2>5. QED
    BY <2>1, <2>2, <2>3, <2>4 DEF Next, Calls
<1>3. PromptInv => Alone
  BY DEF PromptInv
<1>4. QED
  BY <1>1, <1>2, <1>3, PromptIsInvariant, PTL DEF Spec

\* The abstract specification knows the same rates and levels.
LEMMA SameProtocol ==
  /\ Service!Programmable = Programmable
  /\ \A g : Service!GainLevel(g) = GainLevel(g)
BY DEF Programmable, RateBits, Service!Programmable, Service!RateBits,
       GainLevel, ClampDb, ToSignedChar,
       Service!GainLevel, Service!ClampDb, Service!ToSignedChar

\* What a call is served is what the abstract specification serves it.
LEMMA ServedAsPromised ==
  ASSUME NEW c \in FrameCall, NEW g \in FrameReply, g.body = c.body,
         g.gain = GainLevel(c.gain), c.rate \in Programmable => g.rate = c.rate,
         c.rate \in WholeFrames => g.intact
  PROVE  [is |-> "served", op |-> c.op, body |-> g.body, rate |-> g.rate, gain |-> g.gain,
          intact |-> g.intact]
           \in Service!Served([op |-> c.op, body |-> c.body, rate |-> c.rate,
                               gain |-> c.gain])
<1>1. g.rate \in Programmable /\ g.intact \in BOOLEAN
  BY DEF FrameReply
<1>2. QED
  BY <1>1, SameProtocol DEF Service!Served, WholeFrames

\* A step that leaves the client's view alone is a stutter of the promise.
LEMMA SameView ==
  ASSUME UNCHANGED <<m_open, call, got>>,
         \/ pc \in FrameStages \cup {"hung"} <=> pc' \in FrameStages \cup {"hung"}
         \/ call = NoCall
  PROVE  UNCHANGED Service!serviceVars
<1>1. UNCHANGED <<serviceRequest, serviceResult>>
  BY DEF serviceRequest, serviceResult
<1>2. QED
  BY <1>1 DEF Service!serviceVars

\* What the client makes the object begin is a step of the promise.
LEMMA CallsArePromised ==
  ASSUME Typed, Typed', Calls
  PROVE  [Service!Next]_(Service!serviceVars)
<1>1. CASE open \/ close
  <2>1. pc \notin FrameStages \cup {"hung"}
    BY <1>1 DEF open, close, FrameStages
  <2>2. serviceResult # Service!Pending
    BY <2>1 DEF serviceResult, Service!Pending
  <2>3. m_open' = FALSE /\ call' = NoCall
    BY <1>1 DEF open, close, FrameStages
  <2>4. serviceRequest' = NoCall
    BY <2>3 DEF serviceRequest
  <2>5. serviceResult' = Service!None
    BY <2>3 DEF serviceResult, Service!None
  <2>6. QED
    BY <2>2, <2>3, <2>4, <2>5 DEF Service!Next, Service!Reset
<1>2. CASE closeAborts
  BY <1>2, SameView DEF closeAborts, object, FrameStages
<1>3. CASE \E f \in Frames, r \in Rates, g \in Gains : encode(f, r, g) \/ decode(f, r, g)
  <2>1. PICK op \in {"encode", "decode"}, f \in Frames, r \in Rates, g \in Gains :
          start(op, f, r, g)
    BY <1>3 DEF encode, decode
  <2> DEFINE req == [op |-> op, body |-> f, rate |-> r, gain |-> g]
  <2>2. serviceResult # Service!Pending
    BY <2>1 DEF start, serviceResult, FrameStages, Service!Pending
  <2>3. /\ call' # NoCall /\ got' = NoReply /\ m_open' = m_open
        /\ call' = [op |-> op, body |-> f, rate |-> r, gain |-> g, synced |-> InFlight = 0]
        /\ pc' = IF m_open THEN "rate" ELSE "idle"
    <3>1. [op |-> op, body |-> f, rate |-> r, gain |-> g, synced |-> InFlight = 0] \in FrameCall
      BY DEF FrameCall
    <3>2. QED
      BY <2>1, <3>1, ConstantsAssumption DEF start, object
  <2>4. serviceRequest' = req
    BY <2>3 DEF serviceRequest
  <2>5. serviceResult' = IF m_open THEN Service!Pending ELSE Service!Failed
    BY <2>3 DEF serviceResult, FrameStages, Service!Pending, Service!Failed
  <2>6. req \in Service!Request
    BY DEF Service!Request
  <2>7. QED
    BY <2>2, <2>3, <2>4, <2>5, <2>6 DEF Service!Next, Service!Begin
<1>4. QED
  BY <1>1, <1>2, <1>3 DEF Calls

\* A call that goes on is served what it was promised, or fails, or is not seen to.
LEMMA ProceedsArePromised ==
  ASSUME Typed, Typed', OneAtATime, OneAtATime', SyncedInv, SyncedInv', SettingsArrive,
         SettingsArrive', SyncedCallIsServed', Proceeds
  PROVE  [Service!Next]_(Service!serviceVars)
<1>1. CASE openIdentified
  <2>1. pc = "prodid" /\ pc' = "idle" /\ m_open' = TRUE /\ UNCHANGED <<call, got>>
    BY <1>1 DEF openIdentified
  <2>2. ~m_open /\ call = NoCall
    BY <2>1 DEF Typed, Ports, OneAtATime
  <2>3. serviceRequest = NoCall /\ UNCHANGED <<serviceRequest, serviceResult>>
    BY <2>1, <2>2 DEF serviceRequest, serviceResult, FrameStages
  <2>4. QED
    BY <2>1, <2>2, <2>3 DEF Service!Next, Service!Open
<1>2. CASE openRefused
  BY <1>2, SameView DEF openRefused, FrameStages
<1>3. CASE setRate \/ setRateReturns \/ setGain \/ setGainReturns \/ frameIn
  BY <1>3, SameView DEF setRate, setRateReturns, setGain, setGainReturns, frameIn, object,
                        FrameStages
<1>4. CASE setGainOverruns
  <2>1. pc = "setGain" /\ pc' = "overrun" /\ UNCHANGED call
    BY <1>4 DEF setGainOverruns
  <2>2. QED
    BY <2>1 DEF OneAtATime, SyncedInv, SyncedCallFitsBuffers, FrameStages
<1>5. CASE frameOut
  <2>1. pc = "frameOut" /\ pc' = "idle" /\ UNCHANGED <<m_open, call>>
    BY <1>5 DEF frameOut, object
  <2>2. call # NoCall /\ call.synced
    BY <2>1 DEF Typed, TypeOK, OneAtATime, FrameStages
  <2>3. serviceResult = Service!Pending /\ UNCHANGED serviceRequest
    BY <2>1, <2>2 DEF serviceResult, serviceRequest, FrameStages, Service!Pending
  <2>4. CASE got' = NoReply
    <3>1. serviceResult' = Service!Failed
      BY <2>1, <2>2, <2>4 DEF serviceResult, FrameStages, Service!Failed
    <3>2. QED
      BY <2>1, <2>3, <3>1 DEF Service!Next, Service!Finish, Service!Fail
  <2>5. CASE got' # NoReply
    <3>1. call \in FrameCall /\ got' \in FrameReply
      BY <2>2, <2>5 DEF Typed, TypeOK
    <3>2. /\ got'.body = call.body /\ got'.gain = GainLevel(call.gain)
          /\ call.rate \in Programmable => got'.rate = call.rate
          /\ call.rate \in WholeFrames => got'.intact
      BY <2>1, <2>2, <2>5 DEF SyncedCallIsServed
    <3>3. /\ serviceRequest = [op |-> call.op, body |-> call.body, rate |-> call.rate,
                               gain |-> call.gain]
          /\ serviceResult' = [is |-> "served", op |-> call.op, body |-> got'.body,
                               rate |-> got'.rate, gain |-> got'.gain,
                               intact |-> got'.intact]
      BY <2>1, <2>2, <2>5 DEF serviceRequest, serviceResult, FrameStages
    <3>4. serviceResult' \in Service!Served(serviceRequest)
      BY <3>1, <3>2, <3>3, ServedAsPromised
    <3>5. QED
      BY <2>1, <2>3, <3>4 DEF Service!Next, Service!Finish, Service!Serve
  <2>6. QED
    BY <2>4, <2>5
<1>6. CASE waitHangs
  <2>1. pc \in Waiting /\ pc' = "hung" /\ UNCHANGED <<m_open, call, got>>
    BY <1>6 DEF waitHangs, object
  <2>2. pc \in FrameStages \/ call = NoCall
    BY <2>1 DEF Waiting, FrameStages, OneAtATime
  <2>3. QED
    BY <2>1, <2>2, SameView
<1>7. QED
  BY <1>1, <1>2, <1>3, <1>4, <1>5, <1>6 DEF Proceeds

\* On a link that is prompt and keeps what is written to it, whatever answers it
\* loses, every step of the object is a step of FrameService or none: each encode or
\* decode is one atomic operation that returns its own complete reply or an error.
THEOREM ServiceIsSafe ==
  ASSUME MaxBacklog = 0, ~Reports, SettingsArrive
  PROVE  Spec => Service!Init /\ [][Service!Next]_(Service!serviceVars)
<1>1. Init => Service!Init
  <2> SUFFICES ASSUME Init PROVE Service!Init
    OBVIOUS
  <2>1. m_open = FALSE /\ call = NoCall /\ pc \notin FrameStages
    BY DEF Init, FrameStages
  <2>2. serviceRequest = NoCall
    BY <2>1 DEF serviceRequest
  <2>3. serviceResult = Service!None
    BY <2>1 DEF serviceResult, Service!None
  <2>4. QED
    BY <2>1, <2>2, <2>3 DEF Service!Init
<1>2. /\ Typed /\ Typed' /\ OneAtATime /\ OneAtATime' /\ SyncedInv /\ SyncedInv'
      /\ SyncedCallIsServed' /\ [Next]_vars
      => [Service!Next]_(Service!serviceVars)
  <2> SUFFICES ASSUME Typed, Typed', OneAtATime, OneAtATime', SyncedInv, SyncedInv',
                      SyncedCallIsServed', [Next]_vars
               PROVE  [Service!Next]_(Service!serviceVars)
    OBVIOUS
  <2>1. CASE Environment \/ UNCHANGED vars
    <3>1. UNCHANGED <<m_open, call, got, pc>>
      BY <2>1 DEF Environment, ChipAnswers, ChipReports, LoseQuery, LoseReply, PowerCycle,
                  vars, object
    <3>2. QED
      BY <3>1, SameView
  <2>2. CASE Calls
    BY <2>2, CallsArePromised
  <2>3. CASE Proceeds
    <3>1. SettingsArrive'
      BY DEF SettingsArrive
    <3>2. QED
      BY <2>3, <3>1, ProceedsArePromised
  <2>4. QED
    BY <2>1, <2>2, <2>3 DEF Next
<1>3. QED
  BY <1>1, <1>2, TypingIsInvariant, CallsComeOneAtATime, SyncedIsInvariant,
     SyncedCallsAreServed, PTL DEF Spec
-----------------------------------------------------------------------------
(***************************************************************************)
(* dvtest.                                                                 *)
(*                                                                         *)
(* Whatever the link does with the answers, and whenever runs of dvtest    *)
(* are killed, what a run writes is what it has read.  Opening the device  *)
(* is what sorts out the past: it succeeds only if the oldest packet is a  *)
(* product name, and everything behind that has been sent by this run or   *)
(* asks for a product name as well.  From there on only one frame is under *)
(* way at a time, and no query is behind it.                               *)
(***************************************************************************)

WrittenFrame == [frame : [body : Frames, rate : Programmable, gain : Levels, intact : BOOLEAN],
                 whole : BOOLEAN]

\* Where main is and where its object is.
Stages ==
  /\ step = "exited" => pc = "idle" /\ toHost = <<>>
  /\ pc = "prodid" => step = "opening"
  /\ pc \in FrameStages \cup {"overrun"} => step \in {"encoding", "decoding"}
  /\ pc = "hung" => step \in {"opening", "encoding", "decoding"}
  /\ step \in {"reading", "encoding", "decoding", "closing"} => m_open
  /\ step = "closing" => pc = "idle"
  /\ step \in {"exited", "opening"} => m_currentRate = "DVRateNone" /\ m_currentGainOut = 0
  /\ step \in {"encoding", "decoding"} =>
       /\ at < Len(input) /\ call # NoCall
       /\ call.op = IF step = "encoding" THEN "encode" ELSE "decode"
       /\ call.rate = options.rate
       /\ step = "decoding" => call.gain = options.gain

RunTyped == Typed /\ TestTypeOK /\ output \in Seq(WrittenFrame) /\ Stages

\* Names, settings and reports, which neither encodeOut nor decodeOut takes for a frame.
MinorTypes == {"PRODID", "NAME", "RATEP", "GAIN", "UNKNOWN"}

Minor(queue) == \A i \in DOMAIN queue : queue[i].type \in MinorTypes

\* While the name is waited for, the oldest packet that is no report may be anything,
\* and all behind it are about names or reports.
OldestIsAnything ==
  /\ \A i \in DOMAIN toDevice :
       \/ toDevice[i].type = "PRODID"
       \/ i = 1 /\ \A j \in DOMAIN toHost : toHost[j].type = "UNKNOWN"
  /\ \A i \in DOMAIN toHost :
       \/ toHost[i].type \in {"NAME", "UNKNOWN"}
       \/ \A j \in DOMAIN toHost : j < i => toHost[j].type = "UNKNOWN"

FramesQuery(q) == /\ q.type = IF call.op = "encode" THEN "AUDIO" ELSE "AMBE"
                  /\ q.body = call.body
                  /\ call.op = "decode" /\ call.rate \in WholeFrames =>
                       q.bits = RateBits[call.rate] /\ q.bytes = RateBytes[call.rate]

FramesReply(m) ==
  /\ m.body = call.body
  /\ call.rate \in Programmable => m.rate = call.rate
  /\ call.op = "decode" /\ call.gain # 0 => m.gain = GainLevel(call.gain)
  /\ call.rate \in WholeFrames => m.bits = RateBits[call.rate] /\ m.intact

\* While a frame is waited for no query is behind it, and no other frame anywhere.
FrameIsAlone ==
  /\ \A i \in DOMAIN toDevice :
       \/ toDevice[i].type \in MinorTypes
       \/ i = Len(toDevice) /\ FramesQuery(toDevice[i])
  /\ \A i \in DOMAIN toHost :
       \/ toHost[i].type \in MinorTypes
       \/ /\ toDevice = <<>> /\ FramesReply(toHost[i])
          /\ \A j \in DOMAIN toHost : j # i => toHost[j].type \in MinorTypes

Pipeline ==
  /\ pc = "prodid" => OldestIsAnything
  /\ pc = "frameOut" => FrameIsAlone
  /\ \/ pc \in FrameStages \ {"frameOut"}
     \/ pc = "idle" /\ m_open /\ step \in {"opening", "reading"}
     \/ pc = "idle" /\ step \in {"encoding", "decoding"} /\ got # NoReply
     => Minor(toDevice) /\ Minor(toHost)

\* What the object remembers of the chip since it was opened.  A gain of 0 dB may
\* be what an earlier run made something else of.
Remembered == m_open => CachedRate /\ GainsKnown(m_currentGainOut # 0)

TakenOver ==
  /\ pc \in {"gain", "setGain", "frameIn", "frameOut"} => m_currentRate = call.rate
  /\ pc \in {"frameIn", "frameOut"} /\ call.op = "decode" => m_currentGainOut = call.gain

ResultIsOwn == got # NoReply => FramesReply(got)

FrameIsCurrent == step \in {"encoding", "decoding"} => call.body = input[at + 1]

\* A run with a format decodes whole frames.
EncodedWhole == step = "decoding" /\ options.rate \in WholeFrames => mbe

RunInv == /\ FrameIsCurrent /\ EncodedWhole
          /\ Pipeline /\ Remembered /\ SizesCached /\ TakenOver
          /\ ResultIsOwn

(***************************************************************************)
(* Types and stages.                                                       *)
(***************************************************************************)

\* A run that ends leaves nothing behind but the queries it had written.
LEMMA EndsTyped ==
  ASSUME RunTyped, processEnds
  PROVE  RunTyped'
<1>1. 0 \in 0 .. MaxPorts
  BY ConstantsAssumption
<1>2. Typed'
  <2>1. toHost' \in Seq(Reply) /\ UNCHANGED <<toDevice, chip>>
    BY DEF processEnds
  <2>2. TypeOK'
    BY <1>1, <2>1 DEF processEnds, RunTyped, Typed, TypeOK, FrameStages
  <2>3. Ports'
    BY DEF processEnds, Ports
  <2>4. QED
    BY <2>2, <2>3 DEF Typed
<1>3. TestTypeOK' /\ (output \in Seq(WrittenFrame))'
  BY <1>2 DEF processEnds, files, RunTyped, TestTypeOK, Typed, Steps
<1>4. Stages'
  BY DEF processEnds, Stages, FrameStages
<1>5. QED
  BY <1>2, <1>3, <1>4 DEF RunTyped

\* A run begins with a new object.
LEMMA StartTyped ==
  ASSUME RunTyped, Start
  PROVE  RunTyped'
<1>1. Typed'
  BY CallsTyped DEF Start, Calls, RunTyped
<1>2. /\ step' = "opening" /\ runs' = runs + 1 /\ runs < MaxRuns
      /\ input' \in Inputs /\ options' \in [rate : Rates, gain : Gains]
      /\ at' = 0 /\ mbe' = FALSE /\ output' = <<>>
  BY DEF Start
<1>3. runs' \in 0 .. MaxRuns
  BY <1>2, DvTestAssumption DEF RunTyped, TestTypeOK
<1>4. Len(input') \in Nat /\ Len(output') = 0
  BY <1>2, DvTestAssumption, LenProperties, EmptySeq
<1>5. TestTypeOK' /\ output' \in Seq(WrittenFrame)
  <2>1. mbe' \in BOOLEAN
    BY <1>2, Zenon
  <2>2. output' \in Seq(WrittenFrame)
    BY <1>2, EmptySeq
  <2>3. QED
    BY <1>1, <1>2, <1>3, <1>4, <2>1, <2>2 DEF TestTypeOK, Typed, Steps
<1>6. Stages'
  <2>1. m_currentRate = "DVRateNone" /\ m_currentGainOut = 0 /\ pc = "idle"
    BY DEF Start, RunTyped, Stages
  <2>2. pc' \in {"idle", "prodid"} /\ UNCHANGED <<m_currentRate, m_currentGainOut>>
    BY <2>1 DEF Start, open, settings
  <2>3. QED
    BY <1>2, <2>1, <2>2 DEF Stages, FrameStages
<1>7. QED
  BY <1>1, <1>5, <1>6 DEF RunTyped

\* The frame that main encodes and the one it decodes are frames.
LEMMA FramesOfRun ==
  ASSUME RunTyped
  PROVE  /\ options.rate \in Rates /\ options.gain \in Gains /\ 0 \in Gains
         /\ at \in Nat /\ Len(input) \in Nat
         /\ at < Len(input) => input[at + 1] \in Frames
         /\ got # NoReply => got.body \in Frames
<1>1. input \in Seq(Frames) /\ at \in 0 .. Len(input)
  BY DvTestAssumption DEF RunTyped, TestTypeOK
<1>2. Len(input) \in Nat /\ DOMAIN input = 1 .. Len(input)
  BY <1>1, LenProperties
<1>3. at < Len(input) => input[at + 1] \in Frames
  <2>1. at < Len(input) => at + 1 \in 1 .. Len(input)
    BY <1>1, <1>2
  <2>2. QED
    BY <1>1, <2>1, ElementOfSeq
<1>4. got # NoReply => got.body \in Frames
  BY DEF RunTyped, Typed, TypeOK, FrameReply
<1>5. QED
  BY <1>1, <1>2, <1>3, <1>4, DvTestAssumption DEF RunTyped, TestTypeOK

\* What main begins is an encode of the current frame or a decode of the result.
LEMMA CallsOfMain ==
  ASSUME RunTyped, ReadFrame \/ (Encoded /\ got # NoReply)
  PROVE  \E op \in {"encode", "decode"}, f \in Frames, g \in Gains :
           /\ start(op, f, options.rate, g)
           /\ UNCHANGED <<input, options, at, output, runs>> /\ at < Len(input)
           /\ op = "encode" => /\ step = "reading" /\ step' = "encoding"
                               /\ f = input[at + 1] /\ mbe' = mbe
           /\ op = "decode" => /\ step = "encoding" /\ step' = "decoding" /\ got # NoReply
                               /\ f = got.body /\ g = options.gain /\ mbe' = got.intact
<1>1. CASE ReadFrame
  <2>1. /\ start("encode", input[at + 1], options.rate, 0)
        /\ UNCHANGED files /\ at < Len(input) /\ step = "reading" /\ step' = "encoding"
    BY <1>1 DEF ReadFrame, encode
  <2>2. input[at + 1] \in Frames /\ 0 \in Gains
    BY <2>1, FramesOfRun
  <2>3. QED
    BY <2>1, <2>2 DEF files
<1>2. CASE Encoded /\ got # NoReply
  <2>1. /\ start("decode", got.body, options.rate, options.gain)
        /\ UNCHANGED <<input, options, at, output, runs>> /\ mbe' = got.intact
        /\ step = "encoding" /\ step' = "decoding" /\ got # NoReply
    BY <1>2 DEF Encoded, decode
  <2>2. got.body \in Frames /\ options.gain \in Gains /\ at < Len(input)
    BY <2>1, FramesOfRun DEF RunTyped, Stages
  <2>3. QED
    BY <2>1, <2>2
<1>3. QED
  BY <1>1, <1>2

\* Such a call is typed.
LEMMA CallsOfMainTyped ==
  ASSUME RunTyped, ReadFrame \/ (Encoded /\ got # NoReply)
  PROVE  RunTyped'
<1>1. PICK op \in {"encode", "decode"}, f \in Frames, g \in Gains :
        /\ start(op, f, options.rate, g)
        /\ UNCHANGED <<input, options, at, output, runs>> /\ at < Len(input)
        /\ op = "encode" => /\ step = "reading" /\ step' = "encoding"
                            /\ f = input[at + 1] /\ mbe' = mbe
        /\ op = "decode" => /\ step = "encoding" /\ step' = "decoding" /\ got # NoReply
                            /\ f = got.body /\ g = options.gain /\ mbe' = got.intact
  BY CallsOfMain
<1>2. options.rate \in Rates
  BY FramesOfRun
<1>3. Typed'
  BY <1>1, <1>2, CallsTyped DEF Calls, encode, decode, RunTyped
<1>4. /\ UNCHANGED <<object, openPorts, link, chip>> /\ pc = "idle" /\ m_open
      /\ pc' = "rate"
      /\ call' = [op |-> op, body |-> f, rate |-> options.rate, gain |-> g,
                  synced |-> InFlight = 0]
  BY <1>1 DEF start, RunTyped, Stages
<1>5. call' \in FrameCall /\ call' # NoCall
  <2>1. [op |-> op, body |-> f, rate |-> options.rate, gain |-> g,
         synced |-> InFlight = 0] \in FrameCall
    BY <1>2 DEF FrameCall
  <2>2. QED
    BY <1>4, <2>1, ConstantsAssumption
<1>6. TestTypeOK' /\ output' \in Seq(WrittenFrame)
  <2>1. mbe' \in BOOLEAN
    BY <1>1 DEF RunTyped, TestTypeOK, Typed, TypeOK, FrameReply
  <2>2. QED
    BY <1>1, <1>3, <1>4, <2>1 DEF RunTyped, TestTypeOK, Typed, Steps
<1>7. Stages'
  <2>1. m_open' /\ step' # "exited" /\ step' \in {"encoding", "decoding"}
    BY <1>1, <1>4 DEF object
  <2>2. /\ call'.op = IF step' = "encoding" THEN "encode" ELSE "decode"
        /\ call'.rate = options'.rate /\ at' < Len(input')
        /\ step' = "decoding" => call'.gain = options'.gain
    BY <1>1, <1>4
  <2>3. QED
    BY <1>4, <1>5, <2>1, <2>2 DEF Stages
<1>8. QED
  BY <1>3, <1>6, <1>7 DEF RunTyped

\* The other steps of main leave its object alone or close it.
LEMMA MainTyped ==
  ASSUME RunTyped, Main
  PROVE  RunTyped'
<1>1. CASE Opened \/ ReadNoFrame \/ (Encoded /\ got = NoReply)
  <2>1. UNCHANGED <<vars, files>> /\ step' \in {"reading", "closing"} /\ pc = "idle" /\ m_open
    BY <1>1 DEF Opened, ReadNoFrame, Encoded, RunTyped, TestTypeOK, Stages, files
  <2>2. Typed'
    BY <2>1 DEF vars, object, link, RunTyped, Typed, TypeOK, Ports
  <2>3. TestTypeOK' /\ output' \in Seq(WrittenFrame)
    BY <2>1, <2>2 DEF vars, object, files, RunTyped, TestTypeOK, Typed, Steps
  <2>4. Stages'
    BY <2>1 DEF vars, object, Stages, FrameStages
  <2>5. QED
    BY <2>2, <2>3, <2>4 DEF RunTyped
<1>2. CASE OpenFailed \/ Exit
  BY <1>2, EndsTyped DEF OpenFailed, Exit
<1>3. CASE ReadFrame \/ (Encoded /\ got # NoReply)
  BY <1>3, CallsOfMainTyped
<1>4. CASE Decoded
  <2>1. /\ UNCHANGED <<vars, input, options, mbe, runs>> /\ step = "decoding" /\ pc = "idle"
        /\ step' \in {"reading", "closing"} /\ m_open
    BY <1>4 DEF Decoded, RunTyped, Stages
  <2>2. Typed'
    BY <2>1 DEF vars, object, link, RunTyped, Typed, TypeOK, Ports
  <2> DEFINE frame == [body |-> got.body, rate |-> got.rate, gain |-> got.gain,
                       intact |-> mbe /\ got.intact]
  <2>3. \/ UNCHANGED <<at, output>>
        \/ /\ at' = at + 1 /\ got # NoReply
           /\ \E w \in BOOLEAN : output' \in {output, Append(output, [frame |-> frame, whole |-> w])}
    BY <1>4 DEF Decoded, writesFrame
  <2>4. got # NoReply => \A w \in BOOLEAN : [frame |-> frame, whole |-> w] \in WrittenFrame
    BY DEF RunTyped, TestTypeOK, Typed, TypeOK, FrameReply, WrittenFrame
  <2>5. at \in Nat /\ Len(input) \in Nat /\ at < Len(input) /\ Len(output) \in Nat
        /\ output \in Seq(WrittenFrame) /\ Len(output) <= at
    BY <2>1, FramesOfRun, LenProperties DEF RunTyped, TestTypeOK, Stages
  <2>6. output' \in Seq(WrittenFrame) /\ at' \in 0 .. Len(input) /\ Len(output') <= at'
    <3>1. CASE UNCHANGED <<at, output>>
      BY <2>5, <3>1
    <3>2. CASE at' = at + 1 /\ output' = output
      BY <2>5, <3>2
    <3>3. ASSUME NEW e \in WrittenFrame, at' = at + 1, output' = Append(output, e)
          PROVE  /\ output' \in Seq(WrittenFrame)
                 /\ at' \in 0 .. Len(input) /\ Len(output') <= at'
      <4>1. output' \in Seq(WrittenFrame) /\ Len(output') = Len(output) + 1
        BY <2>5, <3>3, AppendProperties
      <4>2. QED
        BY <2>5, <3>3, <4>1
    <3>4. QED
      BY <2>3, <2>4, <3>1, <3>2, <3>3
  <2>7. TestTypeOK'
    BY <2>1, <2>2, <2>6 DEF vars, object, RunTyped, TestTypeOK, Typed, Steps
  <2>8. Stages'
    BY <2>1 DEF vars, object, Stages, FrameStages
  <2>9. QED
    BY <2>2, <2>6, <2>7, <2>8 DEF RunTyped
<1>5. CASE Close
  <2>1. close /\ step' = "closed" /\ UNCHANGED files
    BY <1>5 DEF Close
  <2>2. Typed'
    BY <2>1, CallsTyped DEF Calls, RunTyped
  <2>3. TestTypeOK' /\ output' \in Seq(WrittenFrame)
    BY <2>1, <2>2 DEF files, RunTyped, TestTypeOK, Typed, Steps
  <2>4. Stages'
    BY <2>1 DEF close, Stages, FrameStages
  <2>5. QED
    BY <2>2, <2>3, <2>4 DEF RunTyped
<1>6. QED
  BY <1>1, <1>2, <1>3, <1>4, <1>5 DEF Main

\* The object goes on, and the device, only where main waits for it.
LEMMA ControllerTyped ==
  ASSUME RunTyped, Controller
  PROVE  RunTyped'
<1>1. Typed'
  BY ProceedsTyped, EnvironmentTyped DEF Controller, RunTyped
<1>2. UNCHANGED <<step, input, options, at, mbe, output, runs>>
  BY DEF Controller, dvtest, files
<1>3. CASE Proceeds
  <2>1. /\ UNCHANGED call
        /\ pc \in FrameStages => m_open' = m_open
        /\ pc \in FrameStages \cup {"prodid"}
        /\ pc' \in FrameStages \cup {"overrun", "idle", "hung"}
        /\ pc' \in FrameStages \cup {"overrun"} => pc \in FrameStages
        /\ pc = "prodid" => UNCHANGED <<m_currentRate, m_currentGainOut>>
    BY <1>3 DEF Proceeds, openIdentified, openRefused, setRate, setRateReturns, setGain,
                setGainReturns, setGainOverruns, frameIn, frameOut, waitHangs, Waiting,
                FrameStages, object, settings
  <2>2. step \in {"opening", "encoding", "decoding"}
    BY <2>1 DEF RunTyped, Stages
  <2>3. step = "opening" <=> pc = "prodid"
    BY <2>1, <2>2 DEF RunTyped, Stages, FrameStages
  <2>4. TestTypeOK'
    BY <1>1, <1>2, <2>2 DEF RunTyped, TestTypeOK, Typed
  <2>5. Stages'
    BY <1>2, <2>1, <2>2, <2>3 DEF RunTyped, Stages, FrameStages
  <2>6. QED
    BY <1>1, <1>2, <2>4, <2>5 DEF RunTyped
<1>4. CASE Environment
  <2>1. UNCHANGED <<object, pc, call, got, openPorts>>
    BY <1>4 DEF Environment, ChipAnswers, ChipReports, LoseQuery, LoseReply, PowerCycle
  <2>2. openPorts = 0 /\ toHost = <<>> => toHost' = <<>>
    BY <1>4 DEF Environment, ChipAnswers, ChipReports, LoseQuery, LoseReply, PowerCycle
  <2>3. TestTypeOK'
    BY <1>1, <1>2, <2>1 DEF RunTyped, TestTypeOK, Typed, object
  <2>4. Stages'
    BY <1>2, <2>1, <2>2 DEF RunTyped, TestTypeOK, Stages, object
  <2>5. QED
    BY <1>1, <1>2, <2>3, <2>4 DEF RunTyped
<1>5. QED
  BY <1>3, <1>4 DEF Controller

\* The types of dvtest and of its object, whatever is lost, late or killed.
THEOREM RunTypingIsInvariant == TestSpec => []RunTyped
<1>1. TestInit => RunTyped
  <2> SUFFICES ASSUME TestInit PROVE RunTyped
    OBVIOUS
  <2>1. Typed
    BY InitTyped DEF TestInit
  <2>2. input \in Seq(Frames) /\ Len(input) \in Nat /\ Len(output) = 0
        /\ output \in Seq(WrittenFrame)
    BY DvTestAssumption, LenProperties, EmptySeq DEF TestInit
  <2>3. mbe \in BOOLEAN
    BY Zenon DEF TestInit
  <2>4. TestTypeOK
    BY <2>1, <2>2, <2>3, DvTestAssumption DEF TestInit, Init, Typed, TestTypeOK, Steps, Defaults
  <2>5. Stages
    BY DEF TestInit, Init, Stages, FrameStages
  <2>6. QED
    BY <2>1, <2>2, <2>4, <2>5 DEF RunTyped
<1>2. RunTyped /\ [TestNext]_allVars => RunTyped'
  <2> SUFFICES ASSUME RunTyped, [TestNext]_allVars PROVE RunTyped'
    OBVIOUS
  <2>1. CASE TestNext
    BY <2>1, StartTyped, MainTyped, EndsTyped, ControllerTyped DEF TestNext, Killed
  <2>2. CASE UNCHANGED allVars
    BY <2>2 DEF allVars, vars, object, link, dvtest, files, RunTyped, Typed, TypeOK, Ports,
                TestTypeOK, Stages
  <2>3. QED
    BY <2>1, <2>2
<1>3. QED
  BY <1>1, <1>2, PTL DEF TestSpec

\* Every variable of dvtest, of its object and of the chip has its type in every reachable
\* state, whatever runs were killed and whatever files and options they were given.
THEOREM TestTypeCorrectness == TestSpec => []TestTypeOK
<1>1. RunTyped => TestTypeOK
  BY DEF RunTyped
<1>2. QED
  BY <1>1, RunTypingIsInvariant, PTL

(***************************************************************************)
(* The pipeline.                                                           *)
(***************************************************************************)

\* Packets that are no frames stay that when others join or the oldest leaves.
LEMMA MinorAppend ==
  ASSUME NEW S, NEW queue \in Seq(S), NEW p \in S, p.type \in MinorTypes, Minor(queue)
  PROVE  Minor(Append(queue, p))
<1>1. /\ Len(queue) \in Nat /\ DOMAIN queue = 1 .. Len(queue)
      /\ DOMAIN Append(queue, p) = 1 .. Len(queue) + 1
      /\ \A i \in 1 .. Len(queue) : Append(queue, p)[i] = queue[i]
      /\ Append(queue, p)[Len(queue) + 1] = p
  BY AppendProperties, LenProperties
<1>2. QED
  BY <1>1 DEF Minor

\* What is left of minor packets when one is read are minor packets.
LEMMA MinorTail ==
  ASSUME NEW S, NEW queue \in Seq(S), queue # <<>>, Minor(queue)
  PROVE  Minor(Tail(queue)) /\ Head(queue).type \in MinorTypes
<1>1. /\ Head(queue) = queue[1] /\ 1 \in DOMAIN queue
      /\ DOMAIN queue = 1 .. Len(queue) /\ Len(queue) \in Nat \ {0}
      /\ DOMAIN Tail(queue) = 1 .. Len(queue) - 1
      /\ \A i \in 1 .. Len(queue) - 1 : Tail(queue)[i] = queue[i + 1]
  BY TailTakesOne, LenProperties
<1>2. \A i \in DOMAIN Tail(queue) : i + 1 \in DOMAIN queue /\ Tail(queue)[i] = queue[i + 1]
  BY <1>1
<1>3. QED
  BY <1>1, <1>2 DEF Minor

\* The wait of setRate or setGain leaves no frames where there were none.
LEMMA MinorRead ==
  ASSUME Typed, Minor(toDevice), Minor(toHost), NEW m \in Arrivals, getResponse(m)
  PROVE  Minor(toDevice') /\ Minor(toHost')
<1>1. toHost # <<>> => Minor(Tail(toHost))
  BY MinorTail DEF Typed, TypeOK
<1>2. QED
  BY <1>1, ReadTakesOldest

\* A device that has one query yet to handle is asked for its name.
LEMMA StartPipeline ==
  ASSUME RunTyped, MaxLeft <= 1, Start
  PROVE  Pipeline'
<1>1. /\ toHost = <<>> /\ Len(toDevice) <= MaxLeft /\ step' = "opening" /\ m_open' = FALSE
      /\ open
  BY DEF Start, open, RunTyped, Stages
<1>2. CASE write([type |-> "PRODID"]) /\ pc' = "prodid"
  <2>1. [type |-> "PRODID"] \in Query
    BY DEF Query
  <2>2. /\ DOMAIN toDevice' = 1 .. Len(toDevice) + 1 /\ toHost' = toHost
        /\ toDevice'[Len(toDevice) + 1] = [type |-> "PRODID"]
    BY <1>2, <2>1, WriteAddsOne DEF RunTyped
  <2>3. Len(toDevice) \in Nat /\ Len(toDevice) <= 1
    BY <1>1, LenProperties, DvTestAssumption DEF RunTyped, Typed, TypeOK
  <2>4. \A i \in DOMAIN toDevice' : i > 1 => toDevice'[i].type = "PRODID"
    BY <2>2, <2>3
  <2>5. OldestIsAnything'
    <3>1. \A i \in DOMAIN toDevice' : i = 1 \/ toDevice'[i].type = "PRODID"
      BY <2>2, <2>3, <2>4
    <3>2. DOMAIN toHost' = {}
      BY <1>1, <2>2, EmptySeq
    <3>3. QED
      BY <3>1, <3>2 DEF OldestIsAnything
  <2>6. QED
    BY <1>2, <2>5 DEF Pipeline, FrameStages
<1>3. CASE pc' = pc
  <2>1. pc' = "idle"
    BY <1>1, <1>3 DEF open
  <2>2. QED
    BY <1>1, <2>1 DEF Pipeline, FrameStages
<1>4. QED
  BY <1>1, <1>2, <1>3 DEF open

\* Behind a product name that is read there are only names, asked for or given.
LEMMA IdentifiedPipeline ==
  ASSUME Typed, OldestIsAnything, NEW m \in Arrivals, m.type = "NAME", getResponse(m)
  PROVE  Minor(toDevice') /\ Minor(toHost')
<1>1. UNCHANGED toDevice /\ toHost # <<>> /\ toHost' = Tail(toHost)
  BY ReadTakesOldest DEF RespError
<1>2. m = toHost[1] /\ 1 \in DOMAIN toHost /\ toHost[1].type = "NAME"
  BY <1>1, ArrivalCases, TailTakesOne DEF RespError, Typed, TypeOK
<1>3. Minor(toDevice')
  BY <1>1, <1>2 DEF OldestIsAnything, Minor, MinorTypes
<1>4. /\ DOMAIN toHost = 1 .. Len(toHost) /\ Len(toHost) \in Nat \ {0}
      /\ DOMAIN toHost' = 1 .. Len(toHost) - 1
      /\ \A i \in 1 .. Len(toHost) - 1 : toHost'[i] = toHost[i + 1]
  BY <1>1, TailTakesOne, LenProperties DEF Typed, TypeOK
<1>5. \A i \in DOMAIN toHost' : i + 1 \in DOMAIN toHost /\ 1 < i + 1
                                /\ toHost'[i] = toHost[i + 1]
  BY <1>4
<1>6. \A i \in DOMAIN toHost : 1 < i => toHost[i].type \in {"NAME", "UNKNOWN"}
  BY <1>2 DEF OldestIsAnything
<1>7. QED
  BY <1>3, <1>5, <1>6 DEF Minor, MinorTypes

\* A frame is written behind what is no frame.
LEMMA FramePipeline ==
  ASSUME Typed, Minor(toDevice), Minor(toHost), frameIn,
         call.rate \in WholeFrames => /\ m_currentNbMbeBits = RateBits[call.rate]
                                      /\ m_currentNbMbeBytes = RateBytes[call.rate]
  PROVE  FrameIsAlone'
<1>1. UNCHANGED call
  BY DEF frameIn
<1>2. PICK q \in Query : write(q) /\ FramesQuery(q)
  <2>1. call.body \in Frames /\ m_currentNbMbeBits \in Nat /\ m_currentNbMbeBytes \in Nat
    BY DEF frameIn, Typed, TypeOK, FrameStages, FrameCall
  <2>2. CASE encodeIn
    BY <2>1, <2>2 DEF encodeIn, Query, FramesQuery
  <2>3. CASE decodeIn
    BY <2>1, <2>3 DEF decodeIn, Query, FramesQuery
  <2>4. QED
    BY <2>2, <2>3 DEF frameIn
<1>3. /\ DOMAIN toDevice' = 1 .. Len(toDevice) + 1 /\ UNCHANGED toHost
      /\ \A i \in 1 .. Len(toDevice) : toDevice'[i] = toDevice[i]
      /\ toDevice'[Len(toDevice) + 1] = q
  BY <1>2, WriteAddsOne
<1>4. /\ DOMAIN toDevice = 1 .. Len(toDevice) /\ Len(toDevice) \in Nat
      /\ Len(toDevice') = Len(toDevice) + 1
  BY <1>2, AppendProperties, LenProperties DEF write, Typed, TypeOK
<1>5. \A i \in DOMAIN toDevice' : toDevice'[i].type \in MinorTypes
                                  \/ (i = Len(toDevice') /\ toDevice'[i] = q)
  BY <1>3, <1>4 DEF Minor
<1>6. FramesQuery(q)'
  BY <1>1, <1>2 DEF FramesQuery
<1>7. QED
  BY <1>3, <1>5, <1>6 DEF FrameIsAlone, Minor

\* The frame that is read is the call's own, and it leaves nothing behind.
LEMMA ResultPipeline ==
  ASSUME Typed, FrameIsAlone, NEW m \in Arrivals, getResponse(m),
         encodeOut(m) \/ decodeOut(m), got' # NoReply,
         call.rate \in WholeFrames => m_currentNbMbeBytes = RateBytes[call.rate]
  PROVE  FramesReply(got') /\ Minor(toDevice') /\ Minor(toHost')
<1>1. m = RespError \/ m \in Reply
  BY ArrivalsAreTyped DEF Typed, TypeOK
<1>2. /\ m \in FrameReply /\ m # RespError
      /\ got'.body = m.body /\ got'.rate = m.rate /\ got'.gain = m.gain /\ got'.bits = m.bits
      /\ got'.intact = m.intact \/ got'.intact = (m_currentNbMbeBytes = BytesOf(m.bits))
  BY <1>1, ResultIsFrame
<1>3. UNCHANGED toDevice /\ toHost # <<>> /\ m = Head(toHost) /\ toHost' = Tail(toHost)
  BY <1>2, ReadTakesOldest
<1>4. /\ m = toHost[1] /\ 1 \in DOMAIN toHost
      /\ DOMAIN toHost = 1 .. Len(toHost) /\ Len(toHost) \in Nat \ {0}
      /\ DOMAIN toHost' = 1 .. Len(toHost) - 1
      /\ \A i \in 1 .. Len(toHost) - 1 : toHost'[i] = toHost[i + 1]
  BY <1>3, TailTakesOne, LenProperties DEF Typed, TypeOK
<1>5. m.type \notin MinorTypes
  BY <1>2 DEF FrameReply, MinorTypes
<1>6. /\ toDevice = <<>> /\ FramesReply(m)
      /\ \A j \in DOMAIN toHost : j # 1 => toHost[j].type \in MinorTypes
  BY <1>4, <1>5 DEF FrameIsAlone
<1>7. \A i \in DOMAIN toHost' :
        i + 1 \in DOMAIN toHost /\ i + 1 # 1 /\ toHost'[i] = toHost[i + 1]
  BY <1>4
<1>8. Minor(toDevice') /\ Minor(toHost')
  BY <1>3, <1>6, <1>7 DEF Minor
<1>9. call.rate \in WholeFrames => got'.intact
  <2>1. SUFFICES ASSUME call.rate \in WholeFrames PROVE got'.intact
    OBVIOUS
  <2>2. m.intact /\ m_currentNbMbeBytes = BytesOf(m.bits)
    BY <1>6, <2>1, TablesAgree DEF FramesReply
  <2>3. QED
    BY <1>2, <2>2
<1>10. QED
  BY <1>2, <1>6, <1>8, <1>9 DEF FramesReply

\* The frame is handled at the rate and with the gain of its call.
LEMMA FrameIsAnswered ==
  ASSUME RunTyped, Remembered, TakenOver, m_open, pc = "frameOut",
         toDevice # <<>>, Len(toDevice) = 1, FramesQuery(Head(toDevice))
  PROVE  FramesReply(Answer(Head(toDevice)))
<1> DEFINE q == Head(toDevice)
<1>1. /\ q = toDevice[1] /\ DOMAIN toDevice = 1 .. 1
  BY TailTakesOne, LenProperties DEF RunTyped, Typed, TypeOK
<1>2. call.op \in {"encode", "decode"}
  BY DEF RunTyped, Typed, TypeOK, FrameStages, FrameCall
<1>3. /\ q.type = IF call.op = "encode" THEN "AUDIO" ELSE "AMBE"
      /\ q.body = call.body
  BY DEF FramesQuery
<1>4. ASSUME call.rate \in Programmable PROVE chip.rate = call.rate
  <2>1. RateAhead(chip, toDevice, call.rate)
    BY <1>4 DEF Remembered, CachedRate, TakenOver
  <2>2. ~IsLastOfType([type |-> "RATEP", rate |-> call.rate], toDevice)
    BY <1>1, <1>3 DEF IsLastOfType
  <2>3. QED
    BY <2>1, <2>2 DEF RateAhead
<1>5. ASSUME call.op = "decode", call.gain # 0 PROVE chip.gainOut = GainLevel(call.gain)
  <2>1. m_currentGainOut = call.gain
    BY <1>5 DEF TakenOver
  <2>2. GainsAhead(chip, toDevice, GainLevel(m_currentGainIn), GainLevel(call.gain))
    BY <1>5, <2>1 DEF Remembered, GainsKnown
  <2>3. ~IsLastOfType([type |-> "GAIN", gainIn |-> GainLevel(m_currentGainIn),
                       gainOut |-> GainLevel(call.gain)], toDevice)
    BY <1>1, <1>3 DEF IsLastOfType
  <2>4. QED
    BY <2>2, <2>3 DEF GainsAhead
<1>6. CASE call.op = "encode"
  <2>1. /\ Answer(q).body = q.body /\ Answer(q).rate = chip.rate
        /\ Answer(q).bits = ControlWordBits[chip.rate] /\ Answer(q).intact
    BY <1>3, <1>6 DEF Answer
  <2>2. call.rate \in WholeFrames => Answer(q).bits = RateBits[call.rate]
    BY <1>4, <2>1, TablesAgree DEF WholeFrames
  <2>3. QED
    BY <1>3, <1>4, <1>6, <2>1, <2>2 DEF FramesReply
<1>7. CASE call.op = "decode"
  <2>1. /\ Answer(q).body = q.body /\ Answer(q).rate = chip.rate
        /\ Answer(q).gain = chip.gainOut
        /\ Answer(q).bits = q.bits /\ Answer(q).intact = Understood(q)
    BY <1>3, <1>7 DEF Answer
  <2>2. call.rate \in WholeFrames => Answer(q).bits = RateBits[call.rate] /\ Answer(q).intact
    <3>1. SUFFICES ASSUME call.rate \in WholeFrames
                   PROVE  Answer(q).bits = RateBits[call.rate] /\ Answer(q).intact
      OBVIOUS
    <3>2. q.bits = RateBits[call.rate] /\ q.bytes = RateBytes[call.rate]
      BY <1>7, <3>1 DEF FramesQuery
    <3>3. Understood(q)
      BY <1>4, <3>1, <3>2, TablesAgree DEF Understood, WholeFrames
    <3>4. QED
      BY <2>1, <3>2, <3>3
  <2>3. QED
    BY <1>3, <1>4, <1>5, <1>7, <2>1, <2>2 DEF FramesReply
<1>8. QED
  BY <1>2, <1>6, <1>7

\* The oldest query leaves the others as they are, and the frame the last.
LEMMA FrameStaysLast ==
  ASSUME Typed, FrameIsAlone, toDevice # <<>>
  PROVE  /\ \A i \in DOMAIN Tail(toDevice) :
              \/ Tail(toDevice)[i].type \in MinorTypes
              \/ i = Len(Tail(toDevice)) /\ FramesQuery(Tail(toDevice)[i])
         /\ \/ Head(toDevice).type \in MinorTypes
            \/ Len(toDevice) = 1 /\ FramesQuery(Head(toDevice))
         /\ Minor(toHost)
         /\ Len(toDevice) = 1 => Tail(toDevice) = <<>>
<1>1. /\ DOMAIN toDevice = 1 .. Len(toDevice) /\ Len(toDevice) \in Nat \ {0}
      /\ Head(toDevice) = toDevice[1]
      /\ Tail(toDevice) \in Seq(Query)
      /\ Len(Tail(toDevice)) = Len(toDevice) - 1
      /\ DOMAIN Tail(toDevice) = 1 .. Len(toDevice) - 1
      /\ \A i \in 1 .. Len(toDevice) - 1 : Tail(toDevice)[i] = toDevice[i + 1]
  BY TailTakesOne, LenProperties DEF Typed, TypeOK
<1>2. \A i \in DOMAIN Tail(toDevice) :
        /\ i + 1 \in DOMAIN toDevice /\ Tail(toDevice)[i] = toDevice[i + 1]
        /\ i + 1 = Len(toDevice) => i = Len(Tail(toDevice))
  BY <1>1
<1>3. 1 \in DOMAIN toDevice
  BY <1>1
<1>4. Minor(toHost)
  BY DEF FrameIsAlone, Minor
<1>5. Len(toDevice) = 1 => Tail(toDevice) = <<>>
  BY <1>1, EmptySeq
<1>6. QED
  BY <1>1, <1>2, <1>3, <1>4, <1>5 DEF FrameIsAlone

\* The chip answers a minor query in kind.
LEMMA MinorIsAnswered ==
  ASSUME NEW q \in Query, q.type \in MinorTypes
  PROVE  /\ Answer(q).type \in MinorTypes
         /\ q.type = "PRODID" => Answer(q).type = "NAME"
<1>1. CASE q.type = "PRODID"
  BY <1>1 DEF Answer, MinorTypes
<1>2. CASE q.type \in {"NAME", "RATEP", "GAIN", "UNKNOWN"}
  BY <1>2 DEF Answer, MinorTypes
<1>3. QED
  BY <1>1, <1>2 DEF MinorTypes

\* An answer takes its place in the pipeline.
LEMMA AnswerPipeline ==
  ASSUME RunTyped, RunInv, ChipAnswers, UNCHANGED step
  PROVE  Pipeline'
<1> DEFINE a == Answer(Head(toDevice))
<1>1. /\ toDevice # <<>> /\ toDevice' = Tail(toDevice)
      /\ (toHost' = toHost \/ toHost' = Append(toHost, a))
      /\ UNCHANGED <<object, pc, call, got>>
  BY DEF ChipAnswers
<1>2. /\ Head(toDevice) \in Query /\ Head(toDevice) = toDevice[1] /\ 1 \in DOMAIN toDevice
      /\ DOMAIN toDevice = 1 .. Len(toDevice) /\ Len(toDevice) \in Nat \ {0}
      /\ DOMAIN toDevice' = 1 .. Len(toDevice) - 1
      /\ \A i \in 1 .. Len(toDevice) - 1 : toDevice'[i] = toDevice[i + 1]
  BY <1>1, TailTakesOne, HeadTailProperties, LenProperties DEF RunTyped, Typed, TypeOK
<1>3. a \in Reply
  BY <1>2, AnswersAreReplies DEF RunTyped, Typed, TypeOK
<1>4. ASSUME toHost' = Append(toHost, a)
      PROVE  /\ DOMAIN toHost = 1 .. Len(toHost) /\ Len(toHost) \in Nat
             /\ Len(toHost') = Len(toHost) + 1 /\ DOMAIN toHost' = 1 .. Len(toHost) + 1
             /\ \A i \in 1 .. Len(toHost) : toHost'[i] = toHost[i]
             /\ toHost'[Len(toHost) + 1] = a
  BY <1>3, <1>4, AppendProperties, LenProperties DEF RunTyped, Typed, TypeOK
<1>5. ASSUME pc = "prodid", OldestIsAnything PROVE OldestIsAnything'
  <2>1. \A i \in DOMAIN toDevice' :
          i + 1 \in DOMAIN toDevice /\ i + 1 # 1 /\ toDevice'[i] = toDevice[i + 1]
    BY <1>2
  <2>2. \A i \in DOMAIN toDevice' : toDevice'[i].type = "PRODID"
    BY <1>5, <2>1 DEF OldestIsAnything
  <2>3. \A i \in DOMAIN toHost' :
          \/ toHost'[i].type \in {"NAME", "UNKNOWN"}
          \/ \A j \in DOMAIN toHost' : j < i => toHost'[j].type = "UNKNOWN"
    <3>1. CASE toHost' = toHost
      BY <1>5, <3>1 DEF OldestIsAnything
    <3>2. CASE toHost' = Append(toHost, a)
      <4>1. a.type = "NAME" \/ \A j \in DOMAIN toHost : toHost[j].type = "UNKNOWN"
        BY <1>2, <1>5, MinorIsAnswered DEF OldestIsAnything, MinorTypes
      <4>2. \A i \in DOMAIN toHost' :
              \/ i \in DOMAIN toHost /\ toHost'[i] = toHost[i]
                 /\ \A j \in DOMAIN toHost' :
                      j < i => j \in DOMAIN toHost /\ toHost'[j] = toHost[j]
              \/ toHost'[i] = a
                 /\ \A j \in DOMAIN toHost' :
                      j < i => j \in DOMAIN toHost /\ toHost'[j] = toHost[j]
        BY <1>4, <3>2
      <4>3. QED
        BY <1>5, <4>1, <4>2 DEF OldestIsAnything
    <3>3. QED
      BY <1>1, <3>1, <3>2
  <2>4. QED
    BY <2>2, <2>3 DEF OldestIsAnything
<1>6. ASSUME Minor(toDevice), Minor(toHost) PROVE Minor(toDevice') /\ Minor(toHost')
  <2>1. Minor(toDevice') /\ Head(toDevice).type \in MinorTypes
    BY <1>1, <1>6, MinorTail DEF RunTyped, Typed, TypeOK
  <2>2. Minor(Append(toHost, a))
    BY <1>2, <1>3, <1>6, <2>1, MinorIsAnswered, MinorAppend DEF RunTyped, Typed, TypeOK
  <2>3. QED
    BY <1>1, <1>6, <2>1, <2>2
<1>7. ASSUME pc = "frameOut", FrameIsAlone PROVE FrameIsAlone'
  <2>1. m_open
    BY <1>7 DEF RunTyped, Stages, FrameStages
  <2>2. \/ a.type \in MinorTypes
        \/ toDevice' = <<>> /\ FramesReply(a)
    <3>1. CASE Head(toDevice).type \in MinorTypes
      BY <1>2, <3>1, MinorIsAnswered
    <3>2. CASE Len(toDevice) = 1 /\ FramesQuery(Head(toDevice))
      BY <1>1, <1>7, <2>1, <3>2, FrameIsAnswered, FrameStaysLast DEF RunInv, RunTyped
    <3>3. QED
      BY <1>1, <1>7, <3>1, <3>2, FrameStaysLast DEF RunTyped
  <2>3. \A i \in DOMAIN toHost' :
          \/ toHost'[i].type \in MinorTypes
          \/ /\ toDevice' = <<>> /\ FramesReply(toHost'[i])
             /\ \A j \in DOMAIN toHost' : j # i => toHost'[j].type \in MinorTypes
    <3>1. Minor(toHost)
      BY <1>1, <1>7, FrameStaysLast DEF RunTyped
    <3>2. CASE toHost' = toHost
      BY <3>1, <3>2 DEF Minor
    <3>3. CASE toHost' = Append(toHost, a)
      <4>1. \A i \in DOMAIN toHost' :
              \/ i \in DOMAIN toHost /\ toHost'[i] = toHost[i]
              \/ i = Len(toHost') /\ toHost'[i] = a
        BY <1>4, <3>3
      <4>2. QED
        BY <2>2, <3>1, <4>1 DEF Minor
    <3>4. QED
      BY <1>1, <3>2, <3>3
  <2>4. \A m : FramesReply(m)' <=> FramesReply(m)
    BY <1>1 DEF FramesReply
  <2>5. \A q : FramesQuery(q)' <=> FramesQuery(q)
    BY <1>1 DEF FramesQuery
  <2>6. QED
    BY <1>1, <1>7, <2>3, <2>4, <2>5, FrameStaysLast DEF FrameIsAlone, RunTyped
<1>8. QED
  BY <1>1, <1>5, <1>6, <1>7 DEF RunInv, Pipeline, object

\* Nor does a reply that is lost bring anything else into it.
LEMMA LossPipeline ==
  ASSUME RunTyped, RunInv, LoseReply, UNCHANGED step
  PROVE  Pipeline'
<1>1. /\ toHost # <<>> /\ toHost' = Tail(toHost) /\ toDevice' = toDevice
      /\ UNCHANGED <<object, pc, call, got>>
  BY DEF LoseReply
<1>2. /\ DOMAIN toHost = 1 .. Len(toHost) /\ Len(toHost) \in Nat \ {0}
      /\ DOMAIN toHost' = 1 .. Len(toHost) - 1 /\ Len(toHost') = Len(toHost) - 1
      /\ \A i \in 1 .. Len(toHost) - 1 : toHost'[i] = toHost[i + 1]
  BY <1>1, TailTakesOne, LenProperties DEF RunTyped, Typed, TypeOK
<1>3. \A i \in DOMAIN toHost' :
        /\ i + 1 \in DOMAIN toHost /\ toHost'[i] = toHost[i + 1]
        /\ \A j \in DOMAIN toHost' : (j < i => j + 1 < i + 1) /\ (j # i => j + 1 # i + 1)
  BY <1>2
<1>4. OldestIsAnything => OldestIsAnything'
  BY <1>1, <1>3 DEF OldestIsAnything
<1>5. Minor(toHost) => Minor(toHost')
  BY <1>3 DEF Minor
<1>6. FrameIsAlone => FrameIsAlone'
  <2>1. \A m : FramesReply(m)' <=> FramesReply(m)
    BY <1>1 DEF FramesReply
  <2>2. \A q : FramesQuery(q)' <=> FramesQuery(q)
    BY <1>1 DEF FramesQuery
  <2>3. QED
    BY <1>1, <1>3, <2>1, <2>2 DEF FrameIsAlone
<1>7. QED
  BY <1>1, <1>4, <1>5, <1>6 DEF RunInv, Pipeline, object

\* Nor does a packet that comes unasked.
LEMMA ReportPipeline ==
  ASSUME RunTyped, RunInv, ChipReports, UNCHANGED step
  PROVE  Pipeline'
<1> DEFINE a == [type |-> "UNKNOWN"]
<1>1. toHost' = Append(toHost, a) /\ toDevice' = toDevice
      /\ UNCHANGED <<object, pc, call, got>>
  BY DEF ChipReports
<1>2. a \in Reply /\ a.type \in MinorTypes
  BY DEF Reply, MinorTypes
<1>3. \A i \in DOMAIN toHost' :
        (i \in DOMAIN toHost /\ toHost'[i] = toHost[i]) \/ toHost'[i] = a
  BY <1>1, <1>2, AppendProperties, LenProperties DEF RunTyped, Typed, TypeOK
<1>4. ASSUME OldestIsAnything, pc = "prodid" PROVE OldestIsAnything'
  <2>1. \A i \in DOMAIN toHost' :
          \/ toHost'[i].type \in {"NAME", "UNKNOWN"}
          \/ \A j \in DOMAIN toHost' : j < i => toHost'[j].type = "UNKNOWN"
    BY <1>2, <1>3, <1>4 DEF OldestIsAnything
  <2>2. QED
    BY <1>1, <1>3, <1>4, <2>1 DEF OldestIsAnything
<1>5. Minor(toHost) => Minor(toHost')
  BY <1>2, <1>3 DEF Minor
<1>6. FrameIsAlone => FrameIsAlone'
  <2>1. \A m : FramesReply(m)' <=> FramesReply(m)
    BY <1>1 DEF FramesReply
  <2>2. \A q : FramesQuery(q)' <=> FramesQuery(q)
    BY <1>1 DEF FramesQuery
  <2>3. QED
    BY <1>1, <1>2, <1>3, <2>1, <2>2 DEF FrameIsAlone
<1>7. QED
  BY <1>1, <1>4, <1>5, <1>6 DEF RunInv, Pipeline, object

(***************************************************************************)
(* The invariant of a run.                                                 *)
(***************************************************************************)

\* A run begins with nothing remembered.
LEMMA StartRuns ==
  ASSUME RunTyped, MaxLeft <= 1, Start
  PROVE  RunInv'
<1>1. open /\ step' = "opening"
  BY DEF Start
<1>2. m_open' = FALSE /\ got' = NoReply /\ pc' \in {"idle", "prodid"}
  BY <1>1 DEF open
<1>3. SizesCached'
  <2>1. m_currentRate' = "DVRateNone"
    BY <1>1 DEF Start, open, settings, RunTyped, Stages
  <2>2. "DVRateNone" \notin Programmable
    BY SMT DEF Programmable, RateBits
  <2>3. QED
    BY <1>2, <2>1, <2>2 DEF SizesCached
<1>4. QED
  BY <1>1, <1>2, <1>3, StartPipeline
     DEF RunInv, FrameIsCurrent, EncodedWhole, Remembered, TakenOver, ResultIsOwn

\* An encode or a decode begins behind what is no frame.
LEMMA CallsOfMainRun ==
  ASSUME RunTyped, RunInv, ReadFrame \/ (Encoded /\ got # NoReply)
  PROVE  RunInv'
<1>1. PICK op \in {"encode", "decode"}, f \in Frames, g \in Gains :
        /\ start(op, f, options.rate, g)
        /\ UNCHANGED <<input, options, at, output, runs>> /\ at < Len(input)
        /\ op = "encode" => /\ step = "reading" /\ step' = "encoding"
                            /\ f = input[at + 1] /\ mbe' = mbe
        /\ op = "decode" => /\ step = "encoding" /\ step' = "decoding" /\ got # NoReply
                            /\ f = got.body /\ g = options.gain /\ mbe' = got.intact
  BY CallsOfMain
<1>2. /\ UNCHANGED <<object, link, chip>> /\ pc = "idle" /\ m_open /\ got' = NoReply
      /\ pc' = "rate"
      /\ call' = [op |-> op, body |-> f, rate |-> options.rate, gain |-> g,
                  synced |-> InFlight = 0]
  BY <1>1 DEF start, RunTyped, Stages
<1>3. FrameIsCurrent'
  <2>1. f = input[at + 1]
    BY <1>1 DEF RunInv, ResultIsOwn, FramesReply, FrameIsCurrent
  <2>2. QED
    BY <1>1, <1>2, <2>1 DEF FrameIsCurrent
<1>4. Pipeline'
  <2>1. Minor(toDevice) /\ Minor(toHost)
    BY <1>1, <1>2 DEF RunInv, Pipeline
  <2>2. Minor(toDevice)' /\ Minor(toHost)'
    BY <1>2, <2>1 DEF link
  <2>3. QED
    BY <1>2, <2>2 DEF Pipeline
<1>5. Remembered'
  BY <1>2 DEF object, link, RunInv, Remembered, CachedRate, GainsKnown
<1>6. SizesCached'
  BY <1>2 DEF object, RunInv, SizesCached
<1>7. EncodedWhole'
  <2>1. CASE op = "encode"
    BY <1>1, <2>1 DEF EncodedWhole
  <2>2. CASE op = "decode"
    <3>1. step = "encoding" /\ got # NoReply /\ mbe' = got.intact /\ options' = options
      BY <1>1, <2>2
    <3>2. call.rate = options.rate
      BY <3>1 DEF RunTyped, Stages
    <3>3. options.rate \in WholeFrames => got.intact
      BY <3>1, <3>2 DEF RunInv, ResultIsOwn, FramesReply
    <3>4. QED
      BY <3>1, <3>3 DEF EncodedWhole
  <2>3. QED
    BY <2>1, <2>2
<1>8. QED
  BY <1>2, <1>3, <1>4, <1>5, <1>6, <1>7 DEF RunInv, TakenOver, ResultIsOwn

\* A run that ends leaves nothing to remember.
LEMMA EndsRun ==
  ASSUME processEnds
  PROVE  RunInv'
<1>1. "DVRateNone" \notin Programmable
  BY SMT DEF Programmable, RateBits
<1>2. SizesCached'
  BY <1>1 DEF processEnds, SizesCached
<1>3. QED
  BY <1>2 DEF processEnds, RunInv, FrameIsCurrent, EncodedWhole, Pipeline, Remembered,
              TakenOver, ResultIsOwn, FrameStages

\* No other step of main concerns what is in the pipeline.
LEMMA MainRuns ==
  ASSUME RunTyped, RunInv, Main
  PROVE  RunInv'
<1>1. CASE Opened \/ ReadNoFrame \/ (Encoded /\ got = NoReply) \/ Decoded
  <2>1. /\ UNCHANGED vars /\ pc = "idle" /\ m_open
        /\ step' \in {"reading", "closing"}
        /\ step' = "reading" => step = "opening" \/ (step = "decoding" /\ got # NoReply)
    BY <1>1 DEF Opened, ReadNoFrame, Encoded, Decoded, RunTyped, TestTypeOK, Stages
  <2>2. Pipeline'
    <3>1. step' = "reading" => Minor(toDevice) /\ Minor(toHost)
      BY <2>1 DEF RunInv, Pipeline
    <3>2. step' = "reading" => Minor(toDevice)' /\ Minor(toHost)'
      BY <2>1, <3>1 DEF vars, link
    <3>3. QED
      BY <2>1, <3>2 DEF Pipeline, vars, FrameStages
  <2>3. Remembered'
    BY <2>1 DEF vars, object, link, RunInv, Remembered, CachedRate, GainsKnown
  <2>4. SizesCached'
    BY <2>1 DEF vars, object, RunInv, SizesCached
  <2>5. QED
    BY <2>1, <2>2, <2>3, <2>4
       DEF vars, RunInv, FrameIsCurrent, EncodedWhole, TakenOver, ResultIsOwn, FramesReply
<1>2. CASE OpenFailed \/ Exit
  <2>1. processEnds
    BY <1>2 DEF OpenFailed, Exit
  <2>2. QED
    BY <2>1, EndsRun
<1>3. CASE ReadFrame \/ (Encoded /\ got # NoReply)
  BY <1>3, CallsOfMainRun
<1>4. CASE Close
  <2>1. step' = "closed" /\ pc' = "idle" /\ m_open' = FALSE /\ got' = NoReply
    BY <1>4 DEF Close, close
  <2>2. SizesCached'
    BY <1>4 DEF Close, close, settings, RunInv, SizesCached
  <2>3. QED
    BY <2>1, <2>2 DEF RunInv, FrameIsCurrent, EncodedWhole, Pipeline, Remembered, TakenOver,
                      ResultIsOwn, FrameStages
<1>5. QED
  BY <1>1, <1>2, <1>3, <1>4 DEF Main

\* What the object has on its way stays what it was.
LEMMA ProceedsRun ==
  ASSUME RunTyped, RunInv, Proceeds, UNCHANGED dvtest
  PROVE  RunInv'
<1>0. UNCHANGED <<call, step, files>> /\ Typed
  BY DEF Proceeds, openIdentified, openRefused, setRate, setRateReturns, setGain,
         setGainReturns, setGainOverruns, frameIn, frameOut, waitHangs, dvtest, RunTyped
<1>1. FrameIsCurrent' /\ EncodedWhole' /\ SizesCached'
  BY <1>0, ProceedsCacheSizes DEF files, RunInv, FrameIsCurrent, EncodedWhole
<1>2. CASE openIdentified
  <2>1. /\ pc = "prodid" /\ pc' = "idle" /\ step = "opening" /\ UNCHANGED got
        /\ \E m \in Arrivals : m.type = "NAME" /\ getResponse(m)
    BY <1>2 DEF openIdentified, RunTyped, Stages
  <2>2. Minor(toDevice') /\ Minor(toHost')
    BY <1>0, <2>1, IdentifiedPipeline DEF RunInv, Pipeline
  <2>3. Pipeline'
    BY <2>1, <2>2 DEF Pipeline, FrameStages
  <2>4. m_currentRate' = "DVRateNone" /\ m_currentGainOut' = 0
    BY <1>2, <2>1 DEF openIdentified, settings, RunTyped, Stages
  <2>5. "DVRateNone" \notin Programmable
    BY SMT DEF Programmable, RateBits
  <2>6. Remembered'
    BY <2>1, <2>4, <2>5 DEF Remembered, CachedRate, GainsKnown
  <2>7. QED
    BY <1>0, <1>1, <2>1, <2>3, <2>6 DEF RunInv, TakenOver, ResultIsOwn, FramesReply
<1>3. CASE openRefused
  <2>1. /\ pc = "prodid" /\ pc' = "idle" /\ step = "opening" /\ UNCHANGED <<got, m_open>>
        /\ ~m_open
    BY <1>3 DEF openRefused, RunTyped, Typed, Ports, Stages
  <2>2. QED
    BY <1>0, <1>1, <2>1
       DEF RunInv, Pipeline, Remembered, TakenOver, ResultIsOwn, FramesReply, FrameStages
<1>4. CASE waitHangs
  <2>1. pc' = "hung" /\ UNCHANGED <<m_open, m_currentGainOut, got>>
    BY <1>4 DEF waitHangs, object
  <2>2. Remembered'
    BY <1>0, <2>1, ProceedsKeepRate DEF RunInv, Remembered, GainsKnown
  <2>3. QED
    BY <1>0, <1>1, <2>1, <2>2
       DEF RunInv, Pipeline, TakenOver, ResultIsOwn, FramesReply, FrameStages
<1>5. CASE ~openIdentified /\ ~openRefused /\ ~waitHangs
  <2>1. /\ pc \in FrameStages /\ m_open' = m_open /\ m_open
        /\ pc # "setGain" => UNCHANGED m_currentGainOut
        /\ step \in {"encoding", "decoding"}
    BY <1>5 DEF Proceeds, setRate, setRateReturns, setGain, setGainReturns,
                setGainOverruns, frameIn, frameOut, FrameStages, object, RunTyped, Stages
  <2>2. Remembered'
    <3>1. CachedRate'
      BY <1>0, <2>1, ProceedsKeepRate DEF RunInv, Remembered
    <3>2. CASE m_currentGainOut # 0
      <4>1. GainsKnown(TRUE)
        BY <2>1, <3>2 DEF RunInv, Remembered, GainsKnown
      <4>2. GainsKnown(TRUE)'
        BY <1>0, <4>1, ProceedsKeepGains
      <4>3. QED
        BY <3>1, <4>2 DEF Remembered, GainsKnown
    <3>3. CASE m_currentGainOut = 0
      <4>1. GainsKnown(FALSE)
        BY <2>1, <3>3 DEF RunInv, Remembered, GainsKnown
      <4>2. GainsKnown(FALSE)' /\ (pc = "setGain" => GainsKnown(TRUE)')
        BY <1>0, <4>1, ProceedsKeepGains
      <4>3. QED
        BY <2>1, <3>1, <3>3, <4>2 DEF Remembered, GainsKnown
    <3>4. QED
      BY <3>2, <3>3
  <2>3. TakenOver'
    <3>1. CASE setRate
      BY <1>0, <3>1 DEF setRate, TakenOver
    <3>2. CASE setRateReturns
      BY <1>0, <3>2 DEF setRateReturns, TakenOver
    <3>3. CASE setGain
      BY <1>0, <3>3 DEF setGain, object, newGainOut, RunInv, TakenOver
    <3>4. CASE setGainReturns
      BY <1>0, <3>4 DEF setGainReturns, newGainOut, RunInv, TakenOver
    <3>5. CASE setGainOverruns \/ frameOut
      BY <3>5 DEF setGainOverruns, frameOut, TakenOver
    <3>6. CASE frameIn
      BY <1>0, <3>6 DEF frameIn, object, RunInv, TakenOver
    <3>7. QED
      BY <1>5, <3>1, <3>2, <3>3, <3>4, <3>5, <3>6 DEF Proceeds
  <2>4. pc # "frameOut" => Minor(toDevice) /\ Minor(toHost) /\ got = NoReply
    BY <2>1 DEF RunInv, Pipeline, FrameStages, RunTyped, Typed, TypeOK
  <2>5. ASSUME got' = NoReply, pc' \in FrameStages \ {"frameOut"},
               Minor(toDevice') /\ Minor(toHost')
        PROVE  Pipeline' /\ ResultIsOwn'
    BY <2>5 DEF Pipeline, ResultIsOwn, FrameStages
  <2>6. CASE setRate
    <3>1. pc = "rate" /\ pc' \in {"setRate", "gain"} /\ UNCHANGED got
      BY <2>6 DEF setRate
    <3>2. CASE call.rate \in Programmable /\ write([type |-> "RATEP", rate |-> call.rate])
      <4>1. [type |-> "RATEP", rate |-> call.rate] \in Query
        BY <3>2 DEF Query
      <4>2. Minor(toDevice') /\ Minor(toHost')
        BY <1>0, <2>4, <3>1, <3>2, <4>1, MinorAppend DEF write, Typed, TypeOK, MinorTypes
      <4>3. QED
        BY <1>1, <2>2, <2>3, <2>4, <2>5, <3>1, <4>2 DEF RunInv, FrameStages
    <3>3. CASE UNCHANGED link
      BY <1>1, <2>2, <2>3, <2>4, <2>5, <3>1, <3>3 DEF RunInv, FrameStages, link
    <3>4. QED
      BY <2>6, <3>2, <3>3 DEF setRate
  <2>7. CASE setRateReturns \/ setGainReturns
    <3>1. /\ pc # "frameOut" /\ pc' \in {"gain", "frameIn"} /\ UNCHANGED got
          /\ \E m \in Arrivals : getResponse(m)
      BY <2>7 DEF setRateReturns, setGainReturns
    <3>2. Minor(toDevice') /\ Minor(toHost')
      BY <1>0, <2>4, <3>1, MinorRead
    <3>3. QED
      BY <1>1, <2>2, <2>3, <2>4, <2>5, <3>1, <3>2 DEF RunInv, FrameStages
  <2>8. CASE setGain
    <3>1. pc = "gain" /\ pc' \in {"setGain", "frameIn"} /\ UNCHANGED got
      BY <2>8 DEF setGain
    <3> DEFINE q == [type |-> "GAIN", gainIn |-> GainLevel(newGainIn),
                     gainOut |-> GainLevel(newGainOut)]
    <3>2. CASE write(q)
      <4>1. q \in Query
        BY <1>0, <2>1, GainsAreSent
      <4>2. Minor(toDevice') /\ Minor(toHost')
        BY <1>0, <2>4, <3>1, <3>2, <4>1, MinorAppend DEF write, Typed, TypeOK, MinorTypes
      <4>3. QED
        BY <1>1, <2>2, <2>3, <2>4, <2>5, <3>1, <4>2 DEF RunInv, FrameStages
    <3>3. CASE UNCHANGED link
      BY <1>1, <2>2, <2>3, <2>4, <2>5, <3>1, <3>3 DEF RunInv, FrameStages, link
    <3>4. QED
      BY <2>8, <3>2, <3>3 DEF setGain
  <2>9. CASE setGainOverruns
    <3>1. pc = "setGain" /\ pc' = "overrun" /\ UNCHANGED got
      BY <2>9 DEF setGainOverruns
    <3>2. QED
      BY <1>1, <2>2, <2>3, <2>4, <3>1 DEF RunInv, Pipeline, ResultIsOwn, FrameStages
  <2>10. CASE frameIn
    <3>1. pc = "frameIn" /\ pc' = "frameOut" /\ UNCHANGED got
      BY <2>10 DEF frameIn
    <3>2. call.rate \in WholeFrames => /\ m_currentNbMbeBits = RateBits[call.rate]
                                       /\ m_currentNbMbeBytes = RateBytes[call.rate]
      BY <3>1 DEF RunInv, SizesCached, TakenOver, WholeFrames
    <3>3. FrameIsAlone'
      BY <1>0, <2>4, <2>10, <3>1, <3>2, FramePipeline
    <3>4. QED
      BY <1>1, <2>2, <2>3, <2>4, <3>1, <3>3 DEF RunInv, Pipeline, ResultIsOwn, FrameStages
  <2>11. CASE frameOut
    <3>1. PICK m \in Arrivals : getResponse(m) /\ (encodeOut(m) \/ decodeOut(m))
      BY <2>11 DEF frameOut
    <3>2. pc = "frameOut" /\ pc' = "idle"
      BY <2>11 DEF frameOut
    <3>3. got' # NoReply => FramesReply(got') /\ Minor(toDevice') /\ Minor(toHost')
      <4>1. call.rate \in WholeFrames => m_currentNbMbeBytes = RateBytes[call.rate]
        BY <3>2 DEF RunInv, SizesCached, TakenOver, WholeFrames
      <4>2. QED
        BY <1>0, <3>1, <3>2, <4>1, ResultPipeline DEF RunInv, Pipeline
    <3>4. ResultIsOwn'
      BY <1>0, <3>3 DEF ResultIsOwn, FramesReply
    <3>5. Pipeline'
      BY <1>0, <2>1, <3>2, <3>3 DEF Pipeline, FrameStages
    <3>6. QED
      BY <1>1, <2>2, <2>3, <3>4, <3>5 DEF RunInv
  <2>12. QED
    BY <1>5, <2>6, <2>7, <2>8, <2>9, <2>10, <2>11 DEF Proceeds
<1>6. QED
  BY <1>2, <1>3, <1>4, <1>5

\* The device brings nothing into a run that the run has not asked for.
LEMMA EnvironmentRuns ==
  ASSUME RunTyped, RunInv, ~LosesQueries, Environment, UNCHANGED dvtest
  PROVE  RunInv'
<1>1. UNCHANGED <<object, pc, call, got, dvtest>> /\ Typed
  BY DEF Environment, ChipAnswers, ChipReports, LoseQuery, LoseReply, PowerCycle, RunTyped
<1>2. FrameIsCurrent' /\ EncodedWhole' /\ SizesCached' /\ TakenOver' /\ ResultIsOwn'
  BY <1>1 DEF object, dvtest, files, RunInv, FrameIsCurrent, EncodedWhole, SizesCached,
              TakenOver, ResultIsOwn, FramesReply
<1>3. newGainIn' = newGainIn /\ newGainOut' = newGainOut
  BY <1>1 DEF object, newGainIn, newGainOut
<1>4. CASE ChipAnswers
  <2>1. m_open => CachedRate' /\ GainsKnown(m_currentGainOut # 0)'
    <3>1. SUFFICES ASSUME m_open PROVE CachedRate' /\ GainsKnown(m_currentGainOut # 0)'
      OBVIOUS
    <3>2. CachedRate /\ GainsKnown(m_currentGainOut # 0)
      BY <3>1 DEF RunInv, Remembered
    <3>3. (m_currentGainOut # 0) \in BOOLEAN
      OBVIOUS
    <3>4. CachedRate' /\ (GainsKnown(TRUE) => GainsKnown(TRUE)')
          /\ (GainsKnown(FALSE) => GainsKnown(FALSE)')
      BY <1>1, <1>4, <3>2, ChipKeepsSettings
    <3>5. QED
      BY <1>1, <3>2, <3>4 DEF object, GainsKnown
  <2>2. QED
    BY <1>1, <1>2, <1>4, <2>1, AnswerPipeline DEF object, dvtest, RunInv, Remembered
<1>5. CASE LoseReply
  <2>1. Remembered'
    BY <1>1, <1>3, <1>5 DEF LoseReply, object, RunInv, Remembered, CachedRate, GainsKnown
  <2>2. QED
    BY <1>1, <1>2, <1>5, <2>1, LossPipeline DEF dvtest, RunInv
<1>6. CASE ChipReports
  <2>1. Remembered'
    BY <1>1, <1>3, <1>6 DEF ChipReports, object, RunInv, Remembered, CachedRate, GainsKnown
  <2>2. QED
    BY <1>1, <1>2, <1>6, <2>1, ReportPipeline DEF dvtest, RunInv
<1>7. CASE PowerCycle
  <2>1. pc = "idle" /\ ~m_open
    BY <1>7 DEF PowerCycle
  <2>2. step \notin {"encoding", "decoding"}
    BY <2>1 DEF RunTyped, Stages
  <2>3. QED
    BY <1>1, <1>2, <2>1, <2>2 DEF object, dvtest, RunInv, Pipeline, Remembered, FrameStages
<1>8. QED
  BY <1>4, <1>5, <1>6, <1>7 DEF Environment, LoseQuery

\* The invariant of a run holds however the runs before it have ended, as long as
\* they leave at most one query to the chip and queries do not get lost.
THEOREM RunIsInvariant ==
  ASSUME MaxLeft <= 1, ~LosesQueries
  PROVE  TestSpec => []RunInv
<1>1. TestInit => RunInv
  <2>1. "DVRateNone" \notin Programmable
    BY SMT DEF Programmable, RateBits
  <2>2. QED
    BY <2>1 DEF TestInit, Init, RunInv, FrameIsCurrent, EncodedWhole, Pipeline, Remembered,
                SizesCached, TakenOver, ResultIsOwn, FrameStages
<1>2. RunTyped /\ RunInv /\ [TestNext]_allVars => RunInv'
  <2> SUFFICES ASSUME RunTyped, RunInv, [TestNext]_allVars PROVE RunInv'
    OBVIOUS
  <2>1. CASE Start
    BY <2>1, StartRuns
  <2>2. CASE Main
    BY <2>2, MainRuns
  <2>3. CASE Killed
    BY <2>3, EndsRun DEF Killed
  <2>4. CASE Controller
    BY <2>4, ProceedsRun, EnvironmentRuns DEF Controller
  <2>5. CASE UNCHANGED allVars
    BY <2>5 DEF allVars, vars, object, link, dvtest, files, RunInv, FrameIsCurrent,
                EncodedWhole, SizesCached, Pipeline, OldestIsAnything, FrameIsAlone, FramesQuery, FramesReply, Minor,
                Remembered, CachedRate, GainsKnown, newGainIn, newGainOut, TakenOver,
                ResultIsOwn
  <2>6. QED
    BY <2>1, <2>2, <2>3, <2>4, <2>5 DEF TestNext
<1>3. QED
  BY <1>1, <1>2, RunTypingIsInvariant, PTL DEF TestSpec

(***************************************************************************)
(* The abstract specification.                                             *)
(***************************************************************************)

\* The abstract specification knows the same rates and levels.
LEMMA SameFormats ==
  /\ Promise!Programmable = Programmable
  /\ \A g : Promise!GainLevel(g) = GainLevel(g)
BY DEF Programmable, RateBits, Promise!Programmable, Promise!RateBits,
       GainLevel, ClampDb, ToSignedChar,
       Promise!GainLevel, Promise!ClampDb, Promise!ToSignedChar

\* What main writes after a frame has been decoded is the frame it has read.
LEMMA DecodedAsPromised ==
  ASSUME RunTyped, RunInv, Decoded, got # NoReply
  PROVE  Promise!Transcode
<1> DEFINE t == [body |-> got.body, rate |-> got.rate, gain |-> got.gain,
                 intact |-> mbe /\ got.intact]
<1>1. /\ step = "decoding" /\ at < Len(input) /\ at' = at + 1
      /\ UNCHANGED <<input, options>> /\ writesFrame(t)
  BY DEF Decoded, RunTyped, Stages
<1>2. /\ call.op = "decode" /\ call.rate = options.rate /\ call.gain = options.gain
      /\ call.body = input[at + 1]
  BY <1>1 DEF RunTyped, Stages, RunInv, FrameIsCurrent
<1>3. /\ got.body = input[at + 1]
      /\ options.rate \in Programmable => got.rate = options.rate
      /\ options.gain # 0 => got.gain = GainLevel(options.gain)
      /\ options.rate \in WholeFrames => mbe /\ got.intact
  BY <1>1, <1>2 DEF RunInv, ResultIsOwn, FramesReply, EncodedWhole
<1>4. got.rate \in Programmable /\ got.gain \in -90 .. 90 /\ (mbe /\ got.intact) \in BOOLEAN
  BY DEF RunTyped, TestTypeOK, Typed, TypeOK, FrameReply, Levels
<1>5. t \in Promise!Transcoded(input[at + 1])
  BY <1>3, <1>4, SameFormats DEF Promise!Transcoded, WholeFrames
<1>6. Promise!writes(input[at + 1])
  BY <1>1, <1>5 DEF writesFrame, Promise!writes
<1>7. QED
  BY <1>1, <1>6 DEF Promise!Transcode

\* Whatever the link does with the answers, and however often runs are killed, what
\* a run writes is made of what it has read, in order, and whole if it was given a
\* format whose frames the object knows the size of, at that format and the gain it
\* was given, if runs leave at most one query to the chip and queries do not get lost.
THEOREM OutputIsRight ==
  ASSUME MaxLeft <= 1, ~LosesQueries
  PROVE  TestSpec => OutputIsTranscodedInput
<1>1. TestInit => Promise!Init
  BY DvTestAssumption DEF TestInit, Defaults, Promise!Init, Promise!Options
<1>2. RunTyped /\ RunInv /\ [TestNext]_allVars => [Promise!Next]_(Promise!transcoderVars)
  <2> SUFFICES ASSUME RunTyped, RunInv, [TestNext]_allVars
               PROVE  [Promise!Next]_(Promise!transcoderVars)
    OBVIOUS
  <2>1. CASE Start
    BY <2>1 DEF Start, Promise!Next, Promise!Start, Promise!Options
  <2>2. CASE Decoded /\ got # NoReply
    BY <2>2, DecodedAsPromised DEF Promise!Next
  <2>3. CASE UNCHANGED <<input, options, at, output>>
    BY <2>3 DEF Promise!transcoderVars
  <2>4. QED
    BY <2>1, <2>2, <2>3
       DEF TestNext, Main, Killed, Controller, Opened, OpenFailed, ReadFrame, ReadNoFrame,
           Encoded, Decoded, Close, Exit, processEnds, dvtest, files, allVars
<1>3. QED
  BY <1>1, <1>2, RunTypingIsInvariant, RunIsInvariant, PTL
     DEF TestSpec, OutputIsTranscodedInput, Promise!Spec
=============================================================================
