------------------------- MODULE DVControllerClaims -------------------------
(***************************************************************************)
(* What the documentation, the comments and the assertions of the code say *)
(* of a DVController, stated as they say it.  The code breaks each in some  *)
(* circumstance; DVController states what does hold.                       *)
(***************************************************************************)
EXTENDS DVController

\* Readme.md:25: query/reply pairs; each query is returned a complete reply or
\* an error.  A reply that comes after its wait has been given up answers the
\* next query of its kind.
EveryReplyIsOwn == got # NoReply => got.body = call.body

\* dvcontroller.cpp:480: getResponse is given a buffer of BUFFER_LENGTH bytes.
\* setGain passes that length with a buffer of 7.
ReplyFitsItsBuffer == pc # "overrun"
=============================================================================
