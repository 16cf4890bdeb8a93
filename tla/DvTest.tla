------------------------------- MODULE DvTest -------------------------------
(***************************************************************************)
(* dvtest, one run of the program after the other on the same device.  A   *)
(* run is a process with one DVController object: it opens the device,     *)
(* reads, encodes, decodes and writes frame after frame, and closes the    *)
(* device.  It may also be killed anywhere: then the object is gone, but   *)
(* what it had written to the device is not, nor the settings of the chip. *)
(***************************************************************************)
EXTENDS DVController

CONSTANTS
  Inputs,      \* the inputs, as sequences of frames
  MaxRuns,     \* bound on the runs
  MaxLeft,     \* how many queries of earlier runs may the chip have yet to
               \* handle when a run begins?
  WritesFail   \* may writing fail, or be short?

ASSUME DvTestAssumption ==
  /\ \A i \in Inputs : i \in Seq(Frames)
  /\ "DVRateNone" \in Rates /\ 0 \in Gains
  /\ MaxRuns \in Nat /\ MaxLeft \in Nat /\ WritesFail \in BOOLEAN

VARIABLES
  step,             \* where main is
  input, options,   \* its arguments
  at,               \* how many frames have been through its loop
  mbe,              \* is the encoded frame in its buffer whole?
  output,           \* the output file
  runs              \* runs begun

files == <<input, options, at, mbe, output, runs>>
dvtest == <<step, files>>
allVars == <<vars, dvtest>>

Steps == {"exited", "opening", "reading", "encoding", "decoding", "closing", "closed"}

\* The options that are not given, of which -g is a linear gain of 1.
Defaults == [rate |-> "DVRateNone", gain |-> 0]

TestInit == /\ Init
            /\ step = "exited" /\ input \in Inputs /\ options = Defaults
            /\ at = 0 /\ mbe = FALSE /\ output = <<>> /\ runs = 0

\* The process is gone, its object and its descriptors with it.
processEnds ==
  /\ step' = "exited"
  /\ m_serial' = "none" /\ openPorts' = 0
  /\ m_open' = FALSE
  /\ m_currentRate' = "DVRateNone"
  /\ m_currentGainIn' = 0 /\ m_currentGainOut' = 0
  /\ m_currentNbMbeBits' = 72 /\ m_currentNbMbeBytes' = 9
  /\ pc' = "idle" /\ call' = NoCall /\ got' = NoReply
  /\ toHost' = <<>>
  /\ UNCHANGED <<toDevice, chip, files>>

\* The output is created anew before the device is opened.  A run that cannot open
\* its files ends before it touches the device.
Start == /\ step = "exited" /\ runs < MaxRuns /\ Len(toDevice) <= MaxLeft
         /\ input' \in Inputs
         /\ options' \in [rate : Rates, gain : Gains]
         /\ at' = 0 /\ mbe' = FALSE /\ output' = <<>>
         /\ runs' = runs + 1
         /\ step' = "opening"
         /\ open

Opened == /\ step = "opening" /\ pc = "idle" /\ m_open
          /\ step' = "reading"
          /\ UNCHANGED <<vars, files>>

\* Mutation: the result of open is not looked at.
OpenFailedIgnored == /\ step = "opening" /\ pc = "idle" /\ ~m_open
                     /\ step' = "reading"
                     /\ UNCHANGED <<vars, files>>

OpenFailed == step = "opening" /\ pc = "idle" /\ ~m_open /\ processEnds

ReadFrame == /\ step = "reading" /\ at < Len(input)
             /\ encode(input[at + 1], options.rate, 0)
             /\ step' = "encoding"
             /\ UNCHANGED files

\* Mutation: the end of the input does not end the loop.
ReadNoFrameAgain == /\ step = "reading"
                    /\ UNCHANGED allVars

\* The input has ended, or a pipe has returned less than a frame.
ReadNoFrame == /\ step = "reading"
               /\ step' = "closing"
               /\ UNCHANGED <<vars, files>>

Encoded == /\ step = "encoding" /\ pc = "idle"
           /\ IF got # NoReply
                THEN /\ decode(got.body, options.rate, options.gain)
                     /\ mbe' = got.intact
                     /\ step' = "decoding"
                ELSE UNCHANGED <<vars, mbe>> /\ step' = "closing"
           /\ UNCHANGED <<input, options, at, output, runs>>

\* A write that fails or is short is reported, and the loop goes on.
writesFrame(frame) ==
  \/ output' = Append(output, [frame |-> frame, whole |-> TRUE])
  \/ WritesFail /\ output' \in {output, Append(output, [frame |-> frame, whole |-> FALSE])}

Decoded ==
  /\ step = "decoding" /\ pc = "idle"
  /\ IF got # NoReply
       THEN /\ writesFrame([body |-> got.body, rate |-> got.rate, gain |-> got.gain,
                            intact |-> mbe /\ got.intact])
            /\ at' = at + 1
            /\ step' = "reading"
       ELSE step' = "closing" /\ UNCHANGED <<at, output>>
  /\ UNCHANGED <<vars, input, options, mbe, runs>>

Close == /\ step = "closing"
         /\ close
         /\ step' = "closed"
         /\ UNCHANGED files

Exit == step = "closed" /\ processEnds

\* SIGINT ends the process where it is: sigfun is never installed, exitflag never
\* set and close not reached.  So does what setGain does to its stack.
Killed == step # "exited" /\ processEnds

Controller == (Proceeds \/ Environment) /\ UNCHANGED dvtest

Main == Opened \/ OpenFailed \/ ReadFrame \/ ReadNoFrame \/ Encoded \/ Decoded \/ Close \/ Exit

TestNext == Start \/ Main \/ Killed \/ Controller

TestSpec == TestInit /\ [][TestNext]_allVars

\* A process that is not killed runs, and the chip gets round to its queries.
FairTestSpec == /\ TestSpec
                /\ WF_allVars(Main)
                /\ WF_allVars(Proceeds /\ UNCHANGED dvtest)
                /\ WF_allVars(ChipAnswers /\ UNCHANGED dvtest)
-----------------------------------------------------------------------------
TestTypeOK ==
  /\ TypeOK
  /\ step \in Steps
  /\ input \in Inputs /\ options \in [rate : Rates, gain : Gains]
  /\ at \in 0 .. Len(input) /\ Len(output) <= at
  /\ mbe \in BOOLEAN
  /\ runs \in 0 .. MaxRuns
  /\ step = "exited" => openPorts = 0
  /\ step = "reading" => m_open /\ pc = "idle"

Promise == INSTANCE Transcoder

\* Readme.md: the program takes the samples of its input, encodes them, decodes them
\* and writes the result.  An answer that comes late or gets lost, and the one query
\* that a killed run may have left to the chip, only make runs fail: what they ask
\* for never gets into the output of any run, and a run that was given a format works
\* with frames of its size whatever runs before it have set.
OutputIsTranscodedInput == Promise!Spec

\* Every run ends, at the end of its input or before, although each of its two calls
\* goes on after failures of setRate and setGain, unless it is stopped within a wait
\* that never returns.
RunsEnd == step # "exited" ~> step = "exited" \/ pc \in {"overrun", "hung"}
=============================================================================
