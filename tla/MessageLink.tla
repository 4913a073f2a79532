----------------------------- MODULE MessageLink ------------------------------
(***************************************************************************)
(* What MsgFraming makes of a stream of bytes: a link that carries the     *)
(* platform's messages to the device whole, each once, in their order, as  *)
(* DeviceProtocol takes for granted of its `down'.  There are no bytes, no *)
(* buffers and no calls that give up.                                      *)
(*                                                                         *)
(* A connection is sound or it is not, from its beginning: of one that is  *)
(* not, nothing is promised.                                               *)
(***************************************************************************)
EXTENDS Naturals, Sequences

VARIABLES
  sent,       \* number of messages the platform has sent, on any connection
  down,       \* the messages under way on this connection, oldest first
  delivered,  \* the messages handed on, on this connection
  sound       \* is this connection one of which something is promised?

vars == <<sent, down, delivered, sound>>

Init == sent = 0 /\ down = <<>> /\ delivered = <<>> /\ sound = TRUE

Send ==
  /\ sent' = sent + 1
  /\ down' = IF sound THEN Append(down, sent + 1) ELSE down
  /\ UNCHANGED <<delivered, sound>>

Deliver ==
  /\ down # <<>>
  /\ delivered' = Append(delivered, Head(down)) /\ down' = Tail(down)
  /\ UNCHANGED <<sent, sound>>

\* What was under way is lost.
Reconnect ==
  /\ down' = <<>> /\ delivered' = <<>> /\ sound' \in BOOLEAN
  /\ UNCHANGED sent

Next == Send \/ Deliver \/ Reconnect

Spec == Init /\ [][Next]_vars
=============================================================================
