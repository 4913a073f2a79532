------------------------------ MODULE LossyQueue ------------------------------
(***************************************************************************)
(* What the camera's send queue promises, without a list, a lock or        *)
(* threads: a buffer that an encoder fills is handed to RTMP or is not,    *)
(* and is given up once; those of one encoder are handed over in their     *)
(* order, with gaps; and when the stream has ended there is none that is   *)
(* not given up, and there will be none.                                   *)
(***************************************************************************)
EXTENDS Naturals

CONSTANT Encoders

VARIABLES
  filled,  \* filled[e]: number of buffers encoder e has filled
  kept,    \* the buffers in use
  sent,    \* sent[e]: the last buffer of e handed to RTMP
  gone,    \* the buffers freed, or lost
  ended    \* has the stream ended?

vars == <<filled, kept, sent, gone, ended>>

Init ==
  /\ filled = [e \in Encoders |-> 0] /\ kept = {}
  /\ sent = [e \in Encoders |-> 0] /\ gone = {} /\ ended = FALSE

\* A buffer is filled, and may be of no use.
Fill(e) ==
  LET b == [from |-> e, num |-> filled[e] + 1] IN
  /\ filled' = [filled EXCEPT ![e] = @ + 1]
  /\ \/ kept' = kept \cup {b} /\ UNCHANGED gone
     \/ gone' = gone \cup {b} /\ UNCHANGED kept
  /\ UNCHANGED <<sent, ended>>

GiveUp(b) == kept' = kept \ {b} /\ gone' = gone \cup {b}

Deliver(b) ==
  /\ b.num > sent[b.from]
  /\ sent' = [sent EXCEPT ![b.from] = b.num]
  /\ GiveUp(b)
  /\ UNCHANGED <<filled, ended>>

Discard(b) == GiveUp(b) /\ UNCHANGED <<filled, sent, ended>>

End == kept = {} /\ ended' = TRUE /\ UNCHANGED <<filled, kept, sent, gone>>

Next ==
  /\ ~ended
  /\ \/ \E e \in Encoders : Fill(e)
     \/ \E b \in kept : Deliver(b) \/ Discard(b)
     \/ End

Spec == Init /\ [][Next]_vars
=============================================================================
