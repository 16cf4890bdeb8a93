----------------------------- MODULE Transcoder -----------------------------
(***************************************************************************)
(* What Readme.md promises of the test program: it takes the frames of its *)
(* input, encodes and decodes each, and writes the results.  A run may end *)
(* early, but whatever it has written is made of what it has read, in      *)
(* order and, if it was given a format, whole and at that format.          *)
(***************************************************************************)
EXTENDS AmbeProtocol, Sequences

CONSTANTS
  Inputs,      \* the inputs, as sequences of frames
  Rates, Gains,
  WritesFail   \* may writing fail, or be short?

VARIABLES
  input, options,   \* the arguments of the run
  at,               \* how many frames of the input are dealt with
  output            \* what the run has written

transcoderVars == <<input, options, at, output>>

Options == [rate : Rates, gain : Gains]

\* Nothing is promised of the format if it is "None" or cannot be set, nor of a
\* gain that is not given: the device then works as it did before.  Without a format
\* its frames may be longer than the program takes them to be, and what is written
\* then is noise, of which it is only promised that no other frame is part of it.
Transcoded(frame) ==
  [body : {frame},
   rate : IF options.rate \in Programmable THEN {options.rate} ELSE Programmable,
   gain : IF options.gain # 0 THEN {GainLevel(options.gain)} ELSE -90 .. 90,
   intact : IF options.rate \in Programmable \ {"DVRate2200"} THEN {TRUE} ELSE BOOLEAN]

writes(frame) ==
  \/ \E t \in Transcoded(frame), whole \in BOOLEAN :
       /\ whole \/ WritesFail
       /\ output' = Append(output, [frame |-> t, whole |-> whole])
  \/ WritesFail /\ UNCHANGED output

Start == /\ input' \in Inputs /\ options' \in Options
         /\ at' = 0
         /\ output' = <<>>

Transcode == /\ at < Len(input)
             /\ at' = at + 1
             /\ writes(input[at + 1])
             /\ UNCHANGED <<input, options>>

Init == /\ input \in Inputs /\ options \in Options
        /\ at = 0 /\ output = <<>>

Next == Start \/ Transcode

Spec == Init /\ [][Next]_transcoderVars
=============================================================================
