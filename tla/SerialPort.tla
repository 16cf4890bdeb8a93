----------------------------- MODULE SerialPort -----------------------------
(***************************************************************************)
(* getResponse over SerialDataController::read, the POSIX one: a poll that *)
(* returns zero when there is nothing to read, and that, from the first    *)
(* byte on, waits for all the others without a timeout.                    *)
(***************************************************************************)
EXTENDS SerialLine

CONSTANT ReadErrors    \* may select or read fail?

ASSUME PortAssumption == ReadErrors \in BOOLEAN

VARIABLE hungUp        \* has the device been unplugged?

port == <<line, received, hungUp>>
vars == <<reader, port, taken, history>>

Init == ReaderInit /\ LineInit /\ hungUp = FALSE

\* initResponse returns true and does nothing.
getResponse == /\ stage = "idle"
               /\ begin
               /\ UNCHANGED <<port, taken, history>>

\* The first select finds nothing, or there was nothing to read in the first place.
readNothing == /\ stage \in Loops
               /\ wanted = 0 \/ (received = <<>> /\ ~hungUp)
               /\ storeNothing
               /\ UNCHANGED port

\* One turn of the loop in read that finds bytes.
readSome ==
  /\ stage \in Loops /\ received # <<>> /\ Len(taken) < wanted
  /\ LET n == Min({Len(received), wanted - Len(taken)})
     IN /\ store(SubSeq(received, 1, n))
        /\ received' = SubSeq(received, n + 1, Len(received))
  /\ UNCHANGED <<line, hungUp>>

\* On a line that is hung up select reports data and ::read returns zero, which is
\* neither an error nor progress: the loop goes round, the first byte read or not.
readSpins == /\ stage \in Loops /\ hungUp /\ received = <<>> /\ wanted > 0
             /\ UNCHANGED vars

readError == /\ ReadErrors
             /\ stage \in Loops /\ wanted > 0
             /\ storeFails
             /\ UNCHANGED port

ChipSends == ~hungUp /\ chipSends /\ UNCHANGED hungUp

ByteArrives == byteArrives /\ UNCHANGED hungUp

\* What had been received is gone with the device.
HangUp == /\ ~hungUp /\ hungUp' = TRUE
          /\ line' = <<>> /\ received' = <<>>
          /\ UNCHANGED <<reader, taken, history>>

Reads == readNothing \/ readSome \/ readSpins \/ readError

Next == getResponse \/ Reads \/ ChipSends \/ ByteArrives \/ HangUp

Spec == Init /\ [][Next]_vars

\* The thread of the object keeps running; nobody says that the chip does.
ReaderRuns == Spec /\ WF_vars(readNothing \/ readSome)

\* A chip that finishes the packets it begins.
ChipFinishes == ReaderRuns /\ WF_vars(ByteArrives)
-----------------------------------------------------------------------------
TypeOK == LineTypeOK /\ hungUp \in BOOLEAN

\* The answers are packets, unless a wait has been given up within a packet and a
\* payload has a start byte: giving up before a packet begins does no harm, and the
\* search for a start byte finds the next packet after any other failure.
FramedAnswersArePackets == framed \/ StartByteIsUnique => AnswersArePackets

\* Likewise no length that was not sent as one is ever acted upon, so that every
\* byte asked for has its place in the callers' buffer.
FramedReadsFitBuffer == framed \/ StartByteIsUnique => ReadsFitBuffer

\* Readme.md: each query is returned a complete reply or an error.  getResponse
\* returns, however its bytes trickle in and whichever waits before it were given
\* up, as long as the device is there and framing is not lost.  Once it is, a start
\* byte in a payload may announce any length up to MaxLength, for which read waits
\* without a timeout.
GetResponseReturns ==
  stage # "idle" ~> stage = "idle" \/ hungUp \/ ~(framed \/ StartByteIsUnique)
=============================================================================
