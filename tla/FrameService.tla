---------------------------- MODULE FrameService ----------------------------
(***************************************************************************)
(* What Readme.md promises of one DVController object: encoding or         *)
(* decoding a frame is one atomic operation, and each of them is returned  *)
(* its own complete reply or an error.  There is no queue, no rate, gain   *)
(* or packet left over from an earlier call, and no device to be seen.     *)
(***************************************************************************)
EXTENDS AmbeProtocol

CONSTANTS Frames, Rates, Gains, NoCall

VARIABLES
  opened,    \* isOpen()
  request,   \* the call in progress, or the last one
  result     \* what came of it

serviceVars == <<opened, request, result>>

Request == [op : {"encode", "decode"}, body : Frames, rate : Rates, gain : Gains]

None    == [is |-> "none"]
Pending == [is |-> "pending"]
Failed  == [is |-> "failed"]

\* Nothing is promised about the rate of a call whose rate cannot be set, nor that
\* its frame is whole: the object does not know what size it has.  Nor does it at
\* 2200 bit/s, where its tables are not those of the chip.
Served(req) ==
  [is : {"served"}, op : {req.op}, body : {req.body},
   rate : IF req.rate \in Programmable THEN {req.rate} ELSE Programmable,
   gain : {GainLevel(req.gain)},
   intact : IF req.rate \in Programmable \ {"DVRate2200"} THEN {TRUE} ELSE BOOLEAN]

Init == /\ opened = FALSE
        /\ request = NoCall
        /\ result = None

\* open and close end whatever there was; open may succeed later.
Reset == /\ result # Pending
         /\ opened' = FALSE
         /\ request' = NoCall
         /\ result' = None

Open == /\ ~opened /\ request = NoCall
        /\ opened' = TRUE
        /\ UNCHANGED <<request, result>>

Begin == /\ result # Pending
         /\ request' \in Request
         /\ result' = IF opened THEN Pending ELSE Failed
         /\ UNCHANGED opened

Serve == /\ result = Pending
         /\ result' \in Served(request)
         /\ UNCHANGED <<opened, request>>

Fail == /\ result = Pending
        /\ result' = Failed
        /\ UNCHANGED <<opened, request>>

Finish == Serve \/ Fail

Next == Reset \/ Open \/ Begin \/ Finish

Spec == Init /\ [][Next]_serviceVars /\ WF_serviceVars(Finish)
=============================================================================
