---------------------------- MODULE AmbeProtocol ----------------------------
(***************************************************************************)
(* The values that dvcontroller.h and dvcontroller.cpp agree on with the   *)
(* AMBE3000 chip: the vocoder rates with the frame sizes that belong to    *)
(* them, and the gain levels.                                              *)
(***************************************************************************)
EXTENDS Integers

(***************************************************************************)
(* Rates.  setRate has a case for each of the Programmable rates; the rest *)
(* of the enumeration falls through to its default branch.                 *)
(***************************************************************************)
DVRate == {"DVRateNone", "DVRate3600x2400", "DVRate3600x2450",
           "DVRate7200x4400", "DVRate7100x4400", "DVRate2400", "DVRate2450",
           "DVRate4400", "DVRate2200", "DVRate3000", "DVRate6400",
           "DVRate7200", "DVRate8000", "DVRate9600"}

\* m_currentNbMbeBits, as the cases of setRate assign it.
RateBits ==
  [DVRate3600x2400 |-> 72,  DVRate3600x2450 |-> 72,  DVRate7200x4400 |-> 144,
   DVRate2450      |-> 49,  DVRate4400      |-> 88,  DVRate2200      |-> 44,
   DVRate3000      |-> 60,  DVRate6400      |-> 128, DVRate7200      |-> 144,
   DVRate8000      |-> 160, DVRate9600      |-> 192]

Programmable == DOMAIN RateBits

\* m_currentNbMbeBytes, as the cases of setRate assign it.
RateBytes ==
  [DVRate3600x2400 |-> 9,  DVRate3600x2450 |-> 9,  DVRate7200x4400 |-> 18,
   DVRate2450      |-> 7,  DVRate4400      |-> 11, DVRate2200      |-> 6,
   DVRate3000      |-> 8,  DVRate6400      |-> 16, DVRate7200      |-> 18,
   DVRate8000      |-> 20, DVRate9600      |-> 24]

\* Channel bits per frame that the control words sent for a rate configure in
\* the chip: the last byte of its DV3000_REQ_*_RATEP packet.
ControlWordBits ==
  [DVRate3600x2400 |-> 72,  DVRate3600x2450 |-> 72,  DVRate7200x4400 |-> 144,
   DVRate2450      |-> 49,  DVRate4400      |-> 88,  DVRate2200      |-> 40,
   DVRate3000      |-> 60,  DVRate6400      |-> 128, DVRate7200      |-> 144,
   DVRate8000      |-> 160, DVRate9600      |-> 192]

\* Mutation: the 8000 bit/s entry repeats the size of the 7200 bit/s one.
getNbMbeBytesWrongEntry(mbeRate) ==
  CASE mbeRate = "DVRate8000" -> 18
    [] mbeRate \in Programmable \ {"DVRate8000"} -> RateBytes[mbeRate]
    [] OTHER -> 0

\* The sizes announced to callers, which are tables of their own: zero for every
\* rate that has no case.
getNbMbeBytes(mbeRate) ==
  CASE mbeRate \in {"DVRate3600x2400", "DVRate3600x2450"} -> 9
    [] mbeRate \in {"DVRate7200x4400", "DVRate7200"} -> 18
    [] mbeRate = "DVRate2450" -> 7
    [] mbeRate = "DVRate4400" -> 11
    [] mbeRate = "DVRate2200" -> 6
    [] mbeRate = "DVRate3000" -> 8
    [] mbeRate = "DVRate6400" -> 16
    [] mbeRate = "DVRate8000" -> 20
    [] mbeRate = "DVRate9600" -> 24
    [] OTHER -> 0

getNbMbeBits(mbeRate) ==
  CASE mbeRate \in {"DVRate3600x2400", "DVRate3600x2450"} -> 72
    [] mbeRate \in {"DVRate7200x4400", "DVRate7200"} -> 144
    [] mbeRate = "DVRate2450" -> 49
    [] mbeRate = "DVRate4400" -> 88
    [] mbeRate = "DVRate2200" -> 44
    [] mbeRate = "DVRate3000" -> 60
    [] mbeRate = "DVRate6400" -> 128
    [] mbeRate = "DVRate8000" -> 160
    [] mbeRate = "DVRate9600" -> 192
    [] OTHER -> 0

\* The bytes that a number of bits takes up.
BytesOf(bits) == (bits + 7) \div 8

(***************************************************************************)
(* Gains.  encode and decode take an int; setGain takes signed chars, so   *)
(* the level wraps to 8 bits first and is clamped to -90..90 dB after.     *)
(***************************************************************************)
\* Mutation: the char is unsigned.
ToUnsignedChar(g) == g % 256

ToSignedChar(g) == ((g + 128) % 256) - 128

ClampDb(g) == IF g < -90 THEN -90 ELSE IF g > 90 THEN 90 ELSE g

GainLevel(g) == ClampDb(ToSignedChar(g))
=============================================================================
