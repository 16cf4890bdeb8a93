----------------------------- MODULE WindowsPort -----------------------------
(***************************************************************************)
(* getResponse over SerialDataController::read, the Windows one.  It polls *)
(* a read of the operating system that may outlive the call that issued    *)
(* it: the next call collects its bytes if it asks for as many, and        *)
(* cancels it otherwise.                                                   *)
(***************************************************************************)
EXTENDS SerialLine

CONSTANT MaxErrors    \* bound on the reads that fail

ASSUME WindowsAssumption == MaxErrors \in Nat

VARIABLES
  operation,      \* the overlapped read: "none" (m_readPending is false),
                  \* "pending", "done" or "failed"
  m_readLength,   \* the number of bytes it asks for
  m_readBuffer,   \* the bytes it has brought
  errors          \* reads that have failed so far

overlapped == <<operation, m_readLength, m_readBuffer>>
vars == <<reader, line, received, taken, history, overlapped, errors>>

Init == /\ ReaderInit /\ LineInit
        /\ operation = "none" /\ m_readLength = 0 /\ m_readBuffer = <<>>
        /\ errors = 0

\* initResponse returns true and does nothing.
getResponse == /\ stage = "idle"
               /\ begin
               /\ UNCHANGED <<line, received, taken, history, overlapped, errors>>

\* The length of the next readNonblock, which it clamps.
asked == Min({wanted - Len(taken), BUFFER_LENGTH})

reads == stage \in Loops /\ asked > 0

\* Mutation: a pending read is not cancelled when the length differs.
issuesUncancelled == operation = "none"

\* Mutation: a read that has failed is not given up for one of another length.
issuesUnlessFailed == operation = "none" \/ (operation # "failed" /\ m_readLength # asked)

\* Does it call ReadFile?  A read of another length is cancelled before, and what
\* it has brought is not looked at.
issues == operation = "none" \/ m_readLength # asked

\* readNonblock returns these bytes, perhaps none.
returns(bytes) == IF bytes # <<>> THEN store(bytes)
                  ELSE IF taken = <<>> THEN storeNothing
                  ELSE UNCHANGED <<reader, taken, history>>

readNothing == /\ stage \in Loops /\ wanted = 0
               /\ storeNothing
               /\ UNCHANGED <<line, received, overlapped, errors>>

\* The time-outs set in open make ReadFile come back with what there is, at once
\* or as an operation that is still pending.
ReadFile == /\ reads /\ issues
            /\ LET n == Min({Len(received), asked})
               IN /\ returns(SubSeq(received, 1, n))
                  /\ received' = SubSeq(received, n + 1, Len(received))
            /\ operation' = "none" /\ m_readLength' = asked /\ m_readBuffer' = <<>>
            /\ UNCHANGED <<line, errors>>

ReadFilePends == /\ reads /\ issues
                 /\ returns(<<>>)
                 /\ operation' = "pending" /\ m_readLength' = asked
                 /\ m_readBuffer' = <<>>
                 /\ UNCHANGED <<line, received, errors>>

\* It fails at once, or pends and has failed when readNonblock looks at it.
ReadFileFails == /\ reads /\ issues /\ errors < MaxErrors
                 /\ storeFails
                 /\ operation' \in {"none", "failed"} /\ m_readLength' = asked
                 /\ m_readBuffer' = <<>>
                 /\ errors' = errors + 1
                 /\ UNCHANGED <<line, received>>

stillPending == /\ reads /\ ~issues /\ operation = "pending"
                /\ returns(<<>>)
                /\ UNCHANGED <<line, received, overlapped, errors>>

\* Mutation: m_readPending stays true.
collectKept == /\ reads /\ ~issues /\ operation = "done"
               /\ returns(m_readBuffer)
               /\ UNCHANGED <<line, received, overlapped, errors>>

collect == /\ reads /\ ~issues /\ operation = "done"
           /\ returns(m_readBuffer)
           /\ operation' = "none" /\ m_readBuffer' = <<>>
           /\ UNCHANGED <<line, received, m_readLength, errors>>

\* GetOverlappedResult fails, and m_readPending stays true.
collectFails == /\ reads /\ ~issues /\ operation = "failed"
                /\ storeFails
                /\ UNCHANGED <<line, received, overlapped, errors>>

Completes == /\ operation = "pending"
             /\ LET n == Min({Len(received), m_readLength})
                IN /\ m_readBuffer' = SubSeq(received, 1, n)
                   /\ received' = SubSeq(received, n + 1, Len(received))
             /\ operation' = "done"
             /\ UNCHANGED <<reader, line, taken, history, m_readLength, errors>>

Fails == /\ operation = "pending" /\ errors < MaxErrors
         /\ operation' = "failed" /\ errors' = errors + 1
         /\ UNCHANGED <<reader, line, received, taken, history, m_readLength, m_readBuffer>>

ChipSends == chipSends /\ UNCHANGED <<overlapped, errors>>

ByteArrives == byteArrives /\ UNCHANGED <<overlapped, errors>>

Reads == \/ readNothing \/ ReadFile \/ ReadFilePends \/ ReadFileFails
         \/ stillPending \/ collect \/ collectFails

Next == getResponse \/ Reads \/ Completes \/ Fails \/ ChipSends \/ ByteArrives

Spec == Init /\ [][Next]_vars

\* The thread runs and the object goes on being used, the operating system
\* completes what it has begun, and so does the chip.
FairSpec == /\ Spec
            /\ WF_vars(getResponse) /\ WF_vars(Reads)
            /\ WF_vars(Completes) /\ WF_vars(ByteArrives)
-----------------------------------------------------------------------------
TypeOK == /\ LineTypeOK
          /\ operation \in {"none", "pending", "done", "failed"}
          /\ m_readLength \in Nat /\ m_readLength <= MaxLength
          /\ m_readBuffer \in Seq(Byte)
          /\ Len(m_readBuffer) <= m_readLength
          /\ errors \in 0 .. MaxErrors

\* A cancelled read may have brought bytes, which are lost.  That happens only
\* when a wait was given up within a packet: short of it no answer is torn, however
\* the pending reads and the turns of the loops fall.
FramedAnswersArePackets == framed \/ StartByteIsUnique => AnswersArePackets

\* getResponse returns, although read goes round without a pause from its second
\* byte on, as long as framing is not lost.  Once it is, a start byte in a payload
\* may announce more bytes than ever come, for which read goes round for good.
GetResponseReturns ==
  stage # "idle" ~> stage = "idle" \/ ~(framed \/ StartByteIsUnique)

\* A read of one byte that has failed is collected again by every later wait,
\* because each begins with a read of one byte.
Deaf == operation = "failed" /\ m_readLength = 1

\* This is the only way for the object to stop hearing the chip: after any other
\* failed, cancelled or abandoned read the bytes that come in are read.
BytesAreHeard == received # <<>> ~> received = <<>> \/ Deaf
=============================================================================
