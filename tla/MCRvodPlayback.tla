--------------------------- MODULE MCRvodPlayback ---------------------------
(***************************************************************************)
(* Files for the model checking of RvodPlayback.                           *)
(***************************************************************************)
EXTENDS RvodPlayback

Of(v, a) == [video |-> v, audio |-> a]

\* Key pictures in the middle and at the end, sound that outlasts the pictures.
WithSound == [samples |-> Of(4, 5), unreadable |-> Of({}, {}),
              targets |-> {Of(3, 2), Of(4, 5)}]

\* A last picture that cannot be read.
CutShort == [samples |-> Of(4, 3), unreadable |-> Of({4}, {}),
             targets |-> {Of(2, 2)}]

Silent == [samples |-> Of(4, 0), unreadable |-> Of({}, {}),
           targets |-> {Of(2, 0)}]

AllFiles == {WithSound, CutShort, Silent}
SoundFile == {WithSound}
=============================================================================
