----------------------------- MODULE MCMsgFraming -----------------------------
(***************************************************************************)
(* The lengths that headers of left-over bytes read in the runs of         *)
(* MsgFraming, where a header has two bytes: shorter than a header, that   *)
(* of a message, just a header's, and none.                                *)
(***************************************************************************)
EXTENDS MsgFraming

MCGarbageLen == <<1, 4, 2, 0>>
=============================================================================
