----------------------------- MODULE RequestReply -----------------------------
(***************************************************************************)
(* What the device protocol promises, without message ids, receive loops   *)
(* or a stack: an application that calls gets the platform's answer to     *)
(* that call or gives up, and the platform's own requests are replied to   *)
(* in their order, each at most once.                                      *)
(***************************************************************************)
EXTENDS Naturals, Sequences

VARIABLES
  asked,      \* number of requests made: their serial numbers are 1..asked
  waiting,    \* the calls in progress
  answered,   \* the requests the platform has answered
  result,     \* the last call to return, and the answer it returns (0: none)
  requested,  \* number of requests the platform has made
  replied     \* the platform's requests replied to, in the order of the replies

vars == <<asked, waiting, answered, result, requested, replied>>

Init ==
  /\ asked = 0 /\ waiting = {} /\ answered = {}
  /\ result = [call |-> 0, answer |-> 0]
  /\ requested = 0 /\ replied = <<>>

\* A request is made, and its caller waits, does not wait, or learns that it
\* could not be sent.
Call ==
  /\ asked' = asked + 1
  /\ \/ waiting' = waiting \cup {asked + 1} /\ UNCHANGED result
     \/ UNCHANGED <<waiting, result>>
     \/ result' = [call |-> asked + 1, answer |-> 0] /\ UNCHANGED waiting
  /\ UNCHANGED <<answered, requested, replied>>

Answer ==
  /\ \E c \in 1..asked : answered' = answered \cup {c}
  /\ UNCHANGED <<asked, waiting, result, requested, replied>>

Return ==
  /\ \E c \in waiting :
       /\ waiting' = waiting \ {c}
       /\ \/ c \in answered /\ result' = [call |-> c, answer |-> c]
          \/ result' = [call |-> c, answer |-> 0]
  /\ UNCHANGED <<asked, answered, requested, replied>>

PlatformRequest ==
  /\ requested' = requested + 1
  /\ UNCHANGED <<asked, waiting, answered, result, replied>>

PlatformReply ==
  /\ \E r \in 1..requested :
       /\ \A i \in 1..Len(replied) : replied[i] < r
       /\ replied' = Append(replied, r)
  /\ UNCHANGED <<asked, waiting, answered, result, requested>>

Next == Call \/ Answer \/ Return \/ PlatformRequest \/ PlatformReply

Spec == Init /\ [][Next]_vars
=============================================================================
