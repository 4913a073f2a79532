------------------------------- MODULE Playback -------------------------------
(***************************************************************************)
(* What a remote playback promises to who watches it, without rounds, list *)
(* or notices: a sample is played when all before it, from where playback  *)
(* began or went to, have been played or dropped; sound comes after the    *)
(* first picture, which is the one that was looked for; and the end is     *)
(* announced once, when nothing but the last sample of a track is left.    *)
(***************************************************************************)
EXTENDS Naturals

Tracks == {"video", "audio"}

VARIABLES
  samples,  \* number of samples of each track
  from,     \* the samples playback began at, or went to last
  played,   \* per track, the samples played since then
  dropped,  \* per track, those given up since then
  over      \* has the end been announced?

vars == <<samples, from, played, dropped, over>>

Nothing == [t \in Tracks |-> {}]

Init ==
  /\ samples \in [Tracks -> Nat] /\ from = [t \in Tracks |-> 1]
  /\ played = Nothing /\ dropped = Nothing /\ over = FALSE

Past(t, x) == from[t]..(x - 1) \subseteq played[t] \cup dropped[t]

Play(t, x) ==
  /\ x \in from[t]..samples[t] /\ x \notin dropped[t]
  /\ Past(t, x)
  /\ \A y \in played[t] : y < x
  /\ played["video"] = {} => t = "video" /\ x = from["video"]
  /\ played' = [played EXCEPT ![t] = @ \cup {x}]
  /\ UNCHANGED <<samples, from, dropped, over>>

Drop(t, xs) ==
  /\ xs \cap played[t] = {}
  /\ dropped' = [dropped EXCEPT ![t] = @ \cup xs]
  /\ UNCHANGED <<samples, from, played, over>>

Seek ==
  /\ from' \in [Tracks -> Nat] /\ \A t \in Tracks : from'[t] <= samples[t] + 1
  /\ played' = Nothing /\ dropped' = Nothing
  /\ UNCHANGED <<samples, over>>

Announce ==
  /\ \A t \in Tracks : Past(t, samples[t])
  /\ over' = TRUE
  /\ UNCHANGED <<samples, from, played, dropped>>

Next ==
  /\ ~over
  /\ \/ \E t \in Tracks :
          \/ \E x \in from[t]..samples[t] : Play(t, x)
          \/ \E xs \in SUBSET (from[t]..samples[t]) : Drop(t, xs)
     \/ Seek \/ Announce

Spec == Init /\ [][Next]_vars
=============================================================================
