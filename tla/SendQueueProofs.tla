---------------------------- MODULE SendQueueProofs ----------------------------
(***************************************************************************)
(* Proofs about module SendQueue, for every number of encoder threads,     *)
(* every queue size and any number of frames.                              *)
(***************************************************************************)
EXTENDS SendQueue, FiniteSetTheorems, SequenceTheorems, TLAPS

-----------------------------------------------------------------------------
(***************************************************************************)
(* Types.  An encoder in g813x_PackEnqueue has a buffer, and the send      *)
(* thread has taken a packet exactly while it sends.                       *)
(***************************************************************************)
HasBuffer == \A e \in Encoders : pc[e] \in {"check", "insert"} => filled[e] # 0

Taking == IF sender = "send" THEN \E b \in Buffer : sending = <<b>> ELSE sending = <<>>

TypeInv == TypeOK /\ HasBuffer /\ Taking

\* What an encoder holds is one of its buffers.
LEMMA CurrentType ==
  ASSUME TypeInv, NEW e \in Encoders, filled[e] # 0 \/ pc[e] \in {"check", "insert"}
  PROVE  Current(e) \in Buffer
BY DEF TypeInv, TypeOK, HasBuffer, Current, Buffer

\* No step of an encoder thread breaks the types.
LEMMA EncoderType ==
  ASSUME TypeInv, NEW e \in Encoders, Encoder(e)
  PROVE  TypeInv'
<1> USE DEF TypeInv, TypeOK, HasBuffer, Taking, Goto
<1>1. CASE ReadEncExit(e)
  BY <1>1 DEF ReadEncExit
<1>2. CASE NoFrame(e)
  BY <1>2 DEF NoFrame
<1>3. CASE Fill(e)
  <2>1. filled' \in [Encoders -> Nat] /\ filled'[e] # 0
    BY <1>3 DEF Fill
  <2>2. Current(e)' \in Buffer
    BY <2>1 DEF Current, Buffer
  <2>3. freed' \subseteq Buffer /\ HasBuffer'
    BY <1>3, <2>1, <2>2 DEF Fill
  <2> QED
    BY <1>3, <2>1, <2>3 DEF Fill
<1>4. CASE Drop(e)
  <2>1. Current(e) \in Buffer
    BY <1>4, CurrentType DEF Drop
  <2> QED
    BY <1>4, <2>1 DEF Drop, Enqueued
<1>5. CASE Allocate(e)
  BY <1>5 DEF Allocate
<1>6. CASE AllocationFails(e)
  <2>1. Current(e) \in Buffer
    BY <1>6, CurrentType DEF AllocationFails
  <2> QED
    BY <1>6, <2>1 DEF AllocationFails, Enqueued
<1>7. CASE Insert(e)
  <2>1. Current(e) \in Buffer
    BY <1>7, CurrentType DEF Insert
  <2>2. list' \in Seq(Buffer)
    BY <1>7, <2>1, AppendProperties DEF Insert, ListInsert
  <2> QED
    BY <1>7, <2>2 DEF Insert, Enqueued
<1> QED
  BY <1>1, <1>2, <1>3, <1>4, <1>5, <1>6, <1>7 DEF Encoder

\* No step of the send thread breaks the types.
LEMMA SenderType ==
  ASSUME TypeInv, Sender
  PROVE  TypeInv'
<1> USE DEF TypeInv, TypeOK, HasBuffer, Taking, SenderGoes
<1>1. CASE CreateList
  BY <1>1 DEF CreateList
<1>2. CASE SenderLoops
  BY <1>2 DEF SenderLoops
<1>3. CASE Pop
  <2>1. CASE list = <<>>
    BY <1>3, <2>1 DEF Pop
  <2>2. CASE list # <<>>
    <3>1. Head(list) \in Buffer /\ Tail(list) \in Seq(Buffer)
      BY <2>2, HeadTailProperties
    <3>2. sending' = <<Head(list)>> /\ list' = Tail(list) /\ sender' = "send"
      BY <1>3, <2>2 DEF Pop
    <3>3. sending' \in Seq(Buffer) /\ Taking'
      BY <3>1, <3>2
    <3>4. TypeOK' /\ HasBuffer'
      BY <1>3, <3>1, <3>2, <3>3 DEF Pop
    <3> QED
      BY <3>3, <3>4
  <2> QED
    BY <2>1, <2>2
<1>4. CASE Send
  <2>1. PICK b \in Buffer : sending = <<b>>
    BY <1>4 DEF Send
  <2>2. sending[1] \in Buffer /\ sending[1].num \in Nat
    BY <2>1 DEF Buffer
  <2>3. sent' \in [Encoders -> Nat] /\ freed' \subseteq Buffer
    BY <1>4, <2>2 DEF Send
  <2>4. sending' = <<>> /\ sender' = "pop"
    BY <1>4 DEF Send
  <2>5. TypeOK'
    BY <1>4, <2>3, <2>4 DEF Send
  <2>6. HasBuffer' /\ Taking'
    BY <1>4, <2>4 DEF Send
  <2> HIDE DEF TypeOK, HasBuffer, Taking
  <2> QED
    BY <2>5, <2>6
<1>5. CASE TellEncoders
  BY <1>5 DEF TellEncoders
<1>6. CASE Join
  BY <1>6 DEF Join, JoinAll
<1>7. CASE Clear
  <2>1. CASE list = <<>>
    BY <1>7, <2>1 DEF Clear
  <2>2. CASE list # <<>>
    <3>1. Head(list) \in Buffer /\ Tail(list) \in Seq(Buffer)
      BY <2>2, HeadTailProperties
    <3> QED
      BY <1>7, <2>2, <3>1 DEF Clear
  <2> QED
    BY <2>1, <2>2
<1> QED
  BY <1>1, <1>2, <1>3, <1>4, <1>5, <1>6, <1>7 DEF Sender

\* The types are inductive.
LEMMA TypeInductive == Spec => []TypeInv
<1>1. Init => TypeInv
  <2> SUFFICES ASSUME Init PROVE TypeInv
    OBVIOUS
  <2>1. list \in Seq(Buffer) /\ sending \in Seq(Buffer) /\ freed \subseteq Buffer
        /\ leaked \subseteq Buffer
    BY DEF Init
  <2>2. created \in BOOLEAN /\ enc_exit \in BOOLEAN /\ video_started \in BOOLEAN
    BY DEF Init
  <2>3. HasBuffer /\ Taking
    BY DEF Init, HasBuffer, Taking
  <2> QED
    BY <2>1, <2>2, <2>3 DEF Init, TypeInv, TypeOK
<1>2. TypeInv /\ [Next]_vars => TypeInv'
  <2>1. CASE UNCHANGED vars
    BY <2>1 DEF TypeInv, TypeOK, HasBuffer, Taking, vars
  <2> QED
    BY <2>1, EncoderType, SenderType DEF Next
<1> QED
  BY <1>1, <1>2, PTL DEF Spec

(***************************************************************************)
(* Every variable keeps its type.                                          *)
(***************************************************************************)
THEOREM TypeCorrect == Spec => []TypeOK
<1>1. TypeInv => TypeOK
  BY DEF TypeInv
<1> QED
  BY <1>1, TypeInductive, PTL

-----------------------------------------------------------------------------
(***************************************************************************)
(* The bound.  It is not inductive: an encoder that has found room is not  *)
(* stopped any more, so those that are about to insert count as well.      *)
(***************************************************************************)
Inserting == {e \in Encoders : pc[e] = "insert"}

RoomLeft == Len(list) + Cardinality(Inserting) <= MaxBufSize + Cardinality(Encoders)

\* The encoders about to insert are finitely many.
LEMMA InsertingFinite ==
  /\ IsFiniteSet(Inserting) /\ Cardinality(Inserting) \in Nat
  /\ Cardinality(Inserting) <= Cardinality(Encoders)
  /\ Cardinality(Encoders) \in Nat
<1>1. Inserting \subseteq Encoders
  BY DEF Inserting
<1> QED
  BY <1>1, QueueAssumption, FS_Subset, FS_CardinalityType

\* Encoders keep the bound.
LEMMA EncoderRoom ==
  ASSUME TypeInv, RoomLeft, NEW e \in Encoders, Encoder(e)
  PROVE  RoomLeft'
<1>0. list \in Seq(Buffer) /\ Len(list) \in Nat /\ MaxBufSize \in Nat
      /\ pc \in [Encoders -> {"loop", "poll", "check", "insert", "done"}]
  BY QueueAssumption DEF TypeInv, TypeOK
<1>1. CASE Insert(e)
  <2>1. e \in Inserting /\ Inserting' = Inserting \ {e}
    BY <1>0, <1>1 DEF Insert, Goto, Inserting
  <2>2. Cardinality(Inserting') = Cardinality(Inserting) - 1
    BY <2>1, InsertingFinite, FS_RemoveElement
  <2>3. Len(list') = Len(list) + 1
    BY <1>0, <1>1, CurrentType, AppendProperties DEF Insert, ListInsert, Goto
  <2> QED
    BY <1>0, <2>2, <2>3, InsertingFinite DEF RoomLeft
<1>2. CASE Allocate(e)
  <2>1. list' = list /\ Len(list) <= MaxBufSize
    BY <1>0, <1>2 DEF Allocate, Full
  <2>2. Inserting' \subseteq Encoders
    BY DEF Inserting
  <2>3. Cardinality(Inserting') <= Cardinality(Encoders) /\ Cardinality(Inserting') \in Nat
    BY <2>2, QueueAssumption, FS_Subset, FS_CardinalityType
  <2> QED
    BY <1>0, <2>1, <2>3, InsertingFinite DEF RoomLeft
<1>3. CASE ReadEncExit(e) \/ NoFrame(e) \/ Fill(e) \/ Drop(e) \/ AllocationFails(e)
  <2>1. list' = list
    BY <1>3 DEF ReadEncExit, NoFrame, Fill, Drop, AllocationFails
  <2>2. \E to \in {"loop", "poll", "check", "done"} : pc' = [pc EXCEPT ![e] = to]
    BY <1>3 DEF ReadEncExit, NoFrame, Fill, Drop, AllocationFails, Goto
  <2>3. Inserting' \subseteq Inserting
    BY <1>0, <2>2 DEF Inserting
  <2>4. Cardinality(Inserting') <= Cardinality(Inserting) /\ Cardinality(Inserting') \in Nat
    BY <2>3, InsertingFinite, FS_Subset, FS_CardinalityType
  <2> QED
    BY <1>0, <2>1, <2>4, InsertingFinite DEF RoomLeft
<1> QED
  BY <1>1, <1>2, <1>3 DEF Encoder

\* The send thread keeps the bound.
LEMMA SenderRoom ==
  ASSUME TypeInv, RoomLeft, Sender
  PROVE  RoomLeft'
<1>0. list \in Seq(Buffer) /\ Len(list) \in Nat /\ MaxBufSize \in Nat
  BY QueueAssumption DEF TypeInv, TypeOK
<1>1. pc' = pc
  BY DEF Sender, CreateList, SenderLoops, Pop, Send, TellEncoders, Join, JoinAll, Clear
<1>2. list' = list \/ (list # <<>> /\ list' = Tail(list))
  BY DEF Sender, CreateList, SenderLoops, Pop, Send, TellEncoders, Join, Clear
<1>3. Len(list') \in Nat /\ Len(list') <= Len(list)
  BY <1>0, <1>2, HeadTailProperties
<1>4. Cardinality(Inserting') = Cardinality(Inserting)
  BY <1>1 DEF Inserting
<1> QED
  BY <1>0, <1>3, <1>4, InsertingFinite DEF RoomLeft

(***************************************************************************)
(* The queue is bounded although encoders check its size without the lock: *)
(* each adds at most one packet beyond MAX_BUF_SIZE.                       *)
(***************************************************************************)
THEOREM Bounded == Spec => []QueueBounded
<1>1. Init => RoomLeft
  <2> SUFFICES ASSUME Init PROVE RoomLeft
    OBVIOUS
  <2>1. Inserting = {} /\ Len(list) = 0
    BY DEF Init, Inserting
  <2> QED
    BY <2>1, FS_EmptySet, InsertingFinite, QueueAssumption DEF RoomLeft
<1>2. TypeInv /\ RoomLeft /\ [Next]_vars => RoomLeft'
  <2> SUFFICES ASSUME TypeInv, RoomLeft, [Next]_vars PROVE RoomLeft'
    OBVIOUS
  <2>1. CASE UNCHANGED vars
    BY <2>1 DEF RoomLeft, Inserting, vars
  <2> QED
    BY <2>1, EncoderRoom, SenderRoom DEF Next
<1>3. TypeInv /\ RoomLeft => QueueBounded
  <2> SUFFICES ASSUME TypeInv, RoomLeft PROVE QueueBounded
    OBVIOUS
  <2>1. Len(list) \in Nat /\ MaxBufSize \in Nat
    BY QueueAssumption DEF TypeInv, TypeOK
  <2> QED
    BY <2>1, InsertingFinite DEF RoomLeft, QueueBounded
<1> QED
  BY <1>1, <1>2, <1>3, TypeInductive, PTL DEF Spec

-----------------------------------------------------------------------------
(***************************************************************************)
(* Where the buffers are.  Every filled buffer is in some place and only   *)
(* filled buffers are; the encoders have exited once stop clears the list. *)
(***************************************************************************)
In(l) == {l[i] : i \in 1..Len(l)}

Covered == Held \cup Listed \cup Taken \cup freed \cup leaked = Filled

Stopped == /\ sender \in {"clear", "done"} => \A e \in Encoders : pc[e] = "done"
           /\ sender = "done" => list = <<>>

\* A packet at the end of a list is one more in it.
LEMMA InAppend ==
  ASSUME NEW l \in Seq(Buffer), NEW b \in Buffer
  PROVE  In(Append(l, b)) = In(l) \cup {b}
<1>1. Len(Append(l, b)) = Len(l) + 1 /\ Append(l, b)[Len(l) + 1] = b
      /\ \A i \in 1..Len(l) : Append(l, b)[i] = l[i]
  BY AppendProperties
<1>2. Len(l) \in Nat
  OBVIOUS
<1>3. 1..(Len(l) + 1) = 1..Len(l) \cup {Len(l) + 1}
  BY <1>2
<1> QED
  BY <1>1, <1>3 DEF In

\* A list is its first packet and the rest.
LEMMA InTail ==
  ASSUME NEW l \in Seq(Buffer), l # <<>>
  PROVE  In(l) = {Head(l)} \cup In(Tail(l))
<1>1. Len(Tail(l)) = Len(l) - 1 /\ Len(l) \in Nat /\ Len(l) >= 1 /\ Head(l) = l[1]
      /\ \A i \in 1..Len(Tail(l)) : Tail(l)[i] = l[i + 1]
  BY HeadTailProperties
<1>2. In(l) \subseteq {Head(l)} \cup In(Tail(l))
  <2> SUFFICES ASSUME NEW i \in 1..Len(l) PROVE l[i] \in {Head(l)} \cup In(Tail(l))
    BY DEF In
  <2>1. CASE i = 1
    BY <1>1, <2>1
  <2>2. CASE i # 1
    <3>1. i - 1 \in 1..Len(Tail(l)) /\ (i - 1) + 1 = i
      BY <1>1, <2>2
    <3>2. Tail(l)[i - 1] = l[i]
      BY <1>1, <3>1
    <3> QED
      BY <3>1, <3>2 DEF In
  <2> QED
    BY <2>1, <2>2
<1>3. {Head(l)} \cup In(Tail(l)) \subseteq In(l)
  <2>1. Head(l) \in In(l)
    BY <1>1 DEF In
  <2>2. ASSUME NEW i \in 1..Len(Tail(l)) PROVE Tail(l)[i] \in In(l)
    <3>1. i + 1 \in 1..Len(l) /\ Tail(l)[i] = l[i + 1]
      BY <1>1
    <3> QED
      BY <3>1 DEF In
  <2> QED
    BY <2>1, <2>2 DEF In
<1> QED
  BY <1>2, <1>3

\* The empty list, and the list of one packet.
LEMMA InOne ==
  /\ In(<<>>) = {}
  /\ \A b \in Buffer : In(<<b>>) = {b}
BY DEF In

\* An encoder that leaves g813x_PackEnqueue gives up its buffer only.
LEMMA Released ==
  ASSUME TypeInv, NEW e \in Encoders, pc[e] \in {"check", "insert"}, filled' = filled,
         pc' = [pc EXCEPT ![e] = "loop"]
  PROVE  Held = Held' \cup {Current(e)} /\ Filled' = Filled
<1>1. pc \in [Encoders -> {"loop", "poll", "check", "insert", "done"}]
  BY DEF TypeInv, TypeOK
<1>2. \A d \in Encoders : Current(d)' = Current(d)
  BY DEF Current
<1>3. Current(e) \in Held
  BY DEF Held
<1>4. Held' \subseteq Held
  BY <1>1, <1>2 DEF Held
<1>5. Held \subseteq Held' \cup {Current(e)}
  BY <1>1, <1>2 DEF Held
<1> QED
  BY <1>3, <1>4, <1>5 DEF Filled

\* A buffer that is filled is a new one.
LEMMA FilledGrows ==
  ASSUME TypeInv, NEW e \in Encoders, filled' = [filled EXCEPT ![e] = @ + 1]
  PROVE  Filled' = Filled \cup {Current(e)'}
<1>1. filled \in [Encoders -> Nat] /\ filled'[e] = filled[e] + 1 /\ filled[e] \in Nat
      /\ \A d \in Encoders \ {e} : filled'[d] = filled[d]
  BY DEF TypeInv, TypeOK
<1>2. Current(e)' = [from |-> e, num |-> filled[e] + 1]
  BY <1>1 DEF Current
<1> DEFINE Of(d) == {[from |-> d, num |-> n] : n \in 1..filled[d]}
           Of2(d) == {[from |-> d, num |-> n] : n \in 1..filled'[d]}
<1>3. Filled = UNION {Of(d) : d \in Encoders} /\ Filled' = UNION {Of2(d) : d \in Encoders}
  BY DEF Filled
<1>4. Of2(e) = Of(e) \cup {Current(e)'}
  <2>1. 1..(filled[e] + 1) = 1..filled[e] \cup {filled[e] + 1}
    BY <1>1
  <2> QED
    BY <1>1, <1>2, <2>1
<1>5. \A d \in Encoders \ {e} : Of2(d) = Of(d)
  BY <1>1
<1> HIDE DEF Of, Of2
<1> QED
  BY <1>3, <1>4, <1>5

\* No encoder loses sight of a buffer, or makes one up.
LEMMA EncoderCovered ==
  ASSUME TypeInv, Covered, NEW e \in Encoders, Encoder(e)
  PROVE  Covered'
<1>0. /\ pc \in [Encoders -> {"loop", "poll", "check", "insert", "done"}]
      /\ filled \in [Encoders -> Nat] /\ list \in Seq(Buffer)
  BY DEF TypeInv, TypeOK
<1>a. sending' = sending /\ Taken' = Taken
  BY DEF Encoder, ReadEncExit, NoFrame, Fill, Drop, Allocate, AllocationFails, Insert, Taken
<1>1. CASE ReadEncExit(e) \/ NoFrame(e) \/ Allocate(e)
  <2>1. filled' = filled /\ list' = list /\ freed' = freed /\ leaked' = leaked
    BY <1>1 DEF ReadEncExit, NoFrame, Allocate
  <2>2. \A d \in Encoders : pc[d] \in {"check", "insert"} <=> pc'[d] \in {"check", "insert"}
    BY <1>0, <1>1 DEF ReadEncExit, NoFrame, Allocate, Goto
  <2>3. Held' = Held
    BY <2>1, <2>2 DEF Held, Current
  <2> QED
    BY <1>a, <2>1, <2>3 DEF Covered, Listed, Filled
<1>2. CASE Fill(e)
  <2>1. filled' = [filled EXCEPT ![e] = @ + 1] /\ list' = list /\ leaked' = leaked
        /\ pc[e] = "poll"
    BY <1>2 DEF Fill, Goto
  <2>2. Filled' = Filled \cup {Current(e)'}
    BY <2>1, FilledGrows
  <2>3. \A d \in Encoders \ {e} : Current(d)' = Current(d) /\ pc'[d] = pc[d]
    BY <1>0, <1>2 DEF Fill, Goto, Current
  <2>4. \/ pc'[e] = "check" /\ freed' = freed
        \/ pc'[e] = "loop" /\ freed' = freed \cup {Current(e)'}
    BY <1>0, <1>2 DEF Fill, Goto
  <2>5. CASE pc'[e] = "check" /\ freed' = freed
    <3>1. Held' = Held \cup {Current(e)'}
      BY <2>1, <2>3, <2>5 DEF Held
    <3> QED
      BY <1>a, <2>1, <2>2, <2>5, <3>1 DEF Covered, Listed
  <2>6. CASE pc'[e] = "loop" /\ freed' = freed \cup {Current(e)'}
    <3>1. Held' = Held
      BY <2>1, <2>3, <2>6 DEF Held
    <3> QED
      BY <1>a, <2>1, <2>2, <2>6, <3>1 DEF Covered, Listed
  <2> QED
    BY <2>4, <2>5, <2>6
<1>3. CASE Drop(e)
  <2>1. Held = Held' \cup {Current(e)} /\ Filled' = Filled
    BY <1>3, Released DEF Drop, Goto
  <2>2. list' = list /\ freed' = freed \cup {Current(e)} /\ leaked' = leaked
    BY <1>3 DEF Drop
  <2> QED
    BY <1>a, <2>1, <2>2 DEF Covered, Listed
<1>4. CASE AllocationFails(e)
  <2>1. Held = Held' \cup {Current(e)} /\ Filled' = Filled
    BY <1>4, Released DEF AllocationFails, Goto
  <2>2. list' = list /\ leaked' = leaked \cup {Current(e)} /\ freed' = freed
    BY <1>4 DEF AllocationFails
  <2> QED
    BY <1>a, <2>1, <2>2 DEF Covered, Listed
<1>5. CASE Insert(e)
  <2>1. Held = Held' \cup {Current(e)} /\ Filled' = Filled
    BY <1>5, Released DEF Insert, Goto
  <2>2. list' = Append(list, Current(e)) /\ freed' = freed /\ leaked' = leaked
    BY <1>5 DEF Insert, ListInsert
  <2>3. Current(e) \in Buffer
    BY <1>5, CurrentType DEF Insert, Goto
  <2>4. In(list') = In(list) \cup {Current(e)}
    BY <1>0, <2>2, <2>3, InAppend
  <2>5. Listed' = Listed \cup {Current(e)}
    BY <2>4 DEF Listed, In
  <2> QED
    BY <1>a, <2>1, <2>2, <2>5 DEF Covered
<1> QED
  BY <1>1, <1>2, <1>3, <1>4, <1>5 DEF Encoder

\* Nor does the send thread.
LEMMA SenderCovered ==
  ASSUME TypeInv, Covered, Sender
  PROVE  Covered'
<1>0. list \in Seq(Buffer) /\ Listed = In(list) /\ Taken = In(sending)
      /\ Listed' = In(list') /\ Taken' = In(sending')
  BY DEF TypeInv, TypeOK, Listed, Taken, In
<1>a. filled' = filled /\ leaked' = leaked /\ pc' = pc
  BY DEF Sender, CreateList, SenderLoops, Pop, Send, TellEncoders, Join, JoinAll, Clear
<1>b. Held' = Held /\ Filled' = Filled
  BY <1>a DEF Held, Filled, Current
<1>1. CASE CreateList \/ SenderLoops \/ TellEncoders \/ Join
  <2>1. list' = list /\ sending' = sending /\ freed' = freed
    BY <1>1 DEF CreateList, SenderLoops, TellEncoders, Join
  <2> QED
    BY <1>0, <1>a, <1>b, <2>1 DEF Covered
<1>2. CASE Pop
  <2>1. CASE list = <<>>
    <3>1. list' = list /\ sending' = sending /\ freed' = freed
      BY <1>2, <2>1 DEF Pop
    <3> QED
      BY <1>0, <1>a, <1>b, <3>1 DEF Covered
  <2>2. CASE list # <<>>
    <3>1. sending = <<>> /\ sending' = <<Head(list)>> /\ list' = Tail(list) /\ freed' = freed
      BY <1>2, <2>2 DEF Pop, SenderGoes, TypeInv, Taking
    <3>2. Head(list) \in Buffer
      BY <1>0, <2>2, HeadTailProperties
    <3>3. In(list) = In(list') \cup {Head(list)} /\ In(sending') = {Head(list)}
          /\ In(sending) = {}
      BY <1>0, <2>2, <3>1, <3>2, InTail, InOne
    <3> QED
      BY <1>0, <1>a, <1>b, <3>1, <3>3 DEF Covered
  <2> QED
    BY <2>1, <2>2
<1>3. CASE Send
  <2>1. PICK b \in Buffer : sending = <<b>>
    BY <1>3 DEF Send, SenderGoes, TypeInv, Taking
  <2>2. sending' = <<>> /\ freed' = freed \cup {b} /\ list' = list
    BY <1>3, <2>1 DEF Send
  <2>3. In(sending) = {b} /\ In(sending') = {}
    BY <2>1, <2>2, InOne
  <2> QED
    BY <1>0, <1>a, <1>b, <2>2, <2>3 DEF Covered
<1>4. CASE Clear
  <2>1. CASE list = <<>>
    <3>1. list' = list /\ sending' = sending /\ freed' = freed
      BY <1>4, <2>1 DEF Clear
    <3> QED
      BY <1>0, <1>a, <1>b, <3>1 DEF Covered
  <2>2. CASE list # <<>>
    <3>1. sending' = sending /\ list' = Tail(list) /\ freed' = freed \cup {Head(list)}
      BY <1>4, <2>2 DEF Clear
    <3>2. In(list) = In(list') \cup {Head(list)}
      BY <1>0, <2>2, <3>1, InTail
    <3> QED
      BY <1>0, <1>a, <1>b, <3>1, <3>2 DEF Covered
  <2> QED
    BY <2>1, <2>2
<1> QED
  BY <1>1, <1>2, <1>3, <1>4 DEF Sender

\* So no step does.
LEMMA CoveredStep ==
  ASSUME TypeInv, Covered, [Next]_vars
  PROVE  Covered'
<1>1. CASE UNCHANGED vars
  BY <1>1 DEF vars, Covered, Held, Listed, Taken, Filled, Current
<1>2. CASE Next
  BY <1>2, SenderCovered, EncoderCovered DEF Next
<1> QED
  BY <1>1, <1>2

\* An encoder that has exited does nothing, and only stop gets to "clear".
LEMMA StoppedStep ==
  ASSUME TypeInv, Stopped, Next
  PROVE  Stopped'
<1>0. pc \in [Encoders -> {"loop", "poll", "check", "insert", "done"}]
  BY DEF TypeInv, TypeOK
<1>1. CASE Sender
  <2>1. CASE Join
    BY <2>1 DEF Join, JoinAll, SenderGoes, Stopped
  <2>2. CASE Clear
    BY <2>2 DEF Clear, Stopped
  <2>3. CASE CreateList \/ SenderLoops \/ Pop \/ Send \/ TellEncoders
    BY <2>3 DEF CreateList, SenderLoops, Pop, Send, TellEncoders, SenderGoes, Stopped
  <2> QED
    BY <1>1, <2>1, <2>2, <2>3 DEF Sender
<1>2. ASSUME NEW e \in Encoders, Encoder(e) PROVE Stopped'
  <2>1. pc[e] # "done" /\ sender' = sender
    BY <1>2 DEF Encoder, ReadEncExit, NoFrame, Fill, Drop, Allocate, AllocationFails,
                Insert, Goto
  <2>2. sender \notin {"clear", "done"}
    BY <2>1 DEF Stopped
  <2> QED
    BY <2>1, <2>2 DEF Stopped
<1> QED
  BY <1>1, <1>2 DEF Next

LEMMA CoveredAlways == Spec => [](Covered /\ Stopped)
<1>1. Init => Covered /\ Stopped
  <2> SUFFICES ASSUME Init PROVE Covered /\ Stopped
    OBVIOUS
  <2>1. Held = {} /\ Listed = {} /\ Taken = {} /\ Filled = {}
    BY DEF Init, Held, Listed, Taken, Filled
  <2> QED
    BY <2>1 DEF Init, Covered, Stopped
<1>2. TypeInv /\ Covered /\ Stopped /\ [Next]_vars => Covered' /\ Stopped'
  <2> SUFFICES ASSUME TypeInv, Covered, Stopped, [Next]_vars PROVE Covered' /\ Stopped'
    OBVIOUS
  <2>1. Covered'
    BY CoveredStep
  <2>2. Stopped'
    BY StoppedStep DEF vars, Stopped
  <2> QED
    BY <2>1, <2>2
<1> QED
  BY <1>1, <1>2, TypeInductive, PTL DEF Spec

(***************************************************************************)
(* When stop returns, every buffer the encoders filled has been freed, but *)
(* those lost to failed allocations: because stop waits for the encoders   *)
(* before it clears the list, none is added behind its back.               *)
(***************************************************************************)
NothingLeft == sender = "done" => list = <<>> /\ freed \cup leaked = Filled

THEOREM AllFreed == Spec => []NothingLeft
<1>1. TypeInv /\ Covered /\ Stopped => NothingLeft
  <2> SUFFICES ASSUME TypeInv, Covered, Stopped, sender = "done" PROVE
        list = <<>> /\ freed \cup leaked = Filled
    BY DEF NothingLeft
  <2>1. list = <<>> /\ sending = <<>>
    BY DEF Stopped, TypeInv, Taking
  <2>2. Listed = {} /\ Taken = {}
    BY <2>1 DEF Listed, Taken
  <2>3. Held = {}
    BY DEF Stopped, Held
  <2> QED
    BY <2>1, <2>2, <2>3 DEF Covered
<1> QED
  BY <1>1, CoveredAlways, TypeInductive, PTL

-----------------------------------------------------------------------------
(***************************************************************************)
(* The order of the packets.  Given[e] is the last buffer encoder e has    *)
(* handed over: what waits is newer than what was sent, in the order of    *)
(* its encoder, and none of it is newer than Given.                        *)
(***************************************************************************)
Ahead == sending \o list

Given == [e \in Encoders |->
            IF pc[e] \in {"check", "insert"} THEN filled[e] - 1 ELSE filled[e]]

Ordered(l, s) ==
  \A i \in 1..Len(l) :
    /\ l[i].num > s[l[i].from]
    /\ \A j \in 1..(i - 1) : l[j].from = l[i].from => l[j].num < l[i].num

NoneNewer(l, s, g) ==
  /\ \A e \in Encoders : s[e] <= g[e]
  /\ \A i \in 1..Len(l) : l[i].num <= g[l[i].from]

Order == Ordered(Ahead, sent) /\ NoneNewer(Ahead, sent, Given)

\* A buffer names its encoder and its number.
LEMMA BufferParts ==
  ASSUME NEW b \in Buffer
  PROVE  b.from \in Encoders /\ b.num \in Nat
BY DEF Buffer

\* Given is a number for every encoder.
LEMMA GivenType ==
  ASSUME TypeInv
  PROVE  Given \in [Encoders -> Nat]
BY DEF TypeInv, TypeOK, HasBuffer, Given

\* A newer packet of the same encoder at the end keeps the order.
LEMMA OrderedAppend ==
  ASSUME NEW l \in Seq(Buffer), NEW s \in [Encoders -> Nat], NEW b \in Buffer,
         Ordered(l, s), b.num > s[b.from],
         \A i \in 1..Len(l) : l[i].from = b.from => l[i].num < b.num
  PROVE  Ordered(Append(l, b), s)
<1> DEFINE k == Append(l, b)
<1>1. Len(k) = Len(l) + 1 /\ k[Len(l) + 1] = b /\ Len(l) \in Nat
      /\ \A i \in 1..Len(l) : k[i] = l[i]
  BY AppendProperties
<1> HIDE DEF k
<1>2. SUFFICES ASSUME NEW i \in 1..Len(k)
               PROVE  /\ k[i].num > s[k[i].from]
                      /\ \A j \in 1..(i - 1) : k[j].from = k[i].from => k[j].num < k[i].num
  BY DEF Ordered, k
<1>3. CASE i = Len(l) + 1
  BY <1>1, <1>3
<1>4. CASE i # Len(l) + 1
  <2>1. i \in 1..Len(l) /\ k[i] = l[i] /\ \A j \in 1..(i - 1) : k[j] = l[j]
    BY <1>1, <1>4
  <2> QED
    BY <2>1 DEF Ordered
<1> QED
  BY <1>3, <1>4

\* The order stays when the first packet is taken away, and what is left is
\* newer than it.
LEMMA OrderedTail ==
  ASSUME NEW l \in Seq(Buffer), NEW s \in [Encoders -> Nat], l # <<>>, Ordered(l, s)
  PROVE  /\ Ordered(Tail(l), s)
         /\ Ordered(Tail(l), [s EXCEPT ![Head(l).from] = Head(l).num])
<1> DEFINE k == Tail(l)
           z == [s EXCEPT ![Head(l).from] = Head(l).num]
<1>1. Len(k) = Len(l) - 1 /\ Len(l) \in Nat /\ Len(l) >= 1 /\ Head(l) = l[1]
      /\ \A i \in 1..Len(k) : k[i] = l[i + 1]
  BY HeadTailProperties
<1>2. l[1] \in Buffer /\ l[1].from \in Encoders /\ l[1].num \in Nat
  BY <1>1, BufferParts
<1>3. \A e \in Encoders : z[e] = IF e = l[1].from THEN l[1].num ELSE s[e]
  BY <1>1, <1>2
<1> HIDE DEF k, z
<1>4. ASSUME NEW i \in 1..Len(k)
      PROVE  /\ k[i].num > s[k[i].from] /\ k[i].num > z[k[i].from]
             /\ \A j \in 1..(i - 1) : k[j].from = k[i].from => k[j].num < k[i].num
  <2>1. i + 1 \in 1..Len(l) /\ k[i] = l[i + 1] /\ l[i + 1] \in Buffer
        /\ 1 \in 1..((i + 1) - 1)
    BY <1>1
  <2>2. l[i + 1].num > s[l[i + 1].from]
        /\ \A j \in 1..((i + 1) - 1) : l[j].from = l[i + 1].from => l[j].num < l[i + 1].num
    BY <2>1 DEF Ordered
  <2>3. \A j \in 1..(i - 1) : j + 1 \in 1..((i + 1) - 1) /\ k[j] = l[j + 1]
    BY <1>1
  <2>4. l[i + 1].from \in Encoders /\ l[i + 1].num \in Nat
    BY <2>1, BufferParts
  <2>5. k[i].num > z[k[i].from]
    BY <1>2, <1>3, <2>1, <2>2, <2>4
  <2>6. \A j \in 1..(i - 1) : k[j].from = k[i].from => k[j].num < k[i].num
    BY <2>1, <2>2, <2>3
  <2> QED
    BY <2>1, <2>2, <2>5, <2>6
<1> QED
  BY <1>4 DEF Ordered, k, z

\* With what the send thread has taken in front, the list is still a list.
LEMMA AheadType ==
  ASSUME TypeInv
  PROVE  /\ Ahead \in Seq(Buffer)
         /\ sender # "send" => Ahead = list
         /\ sent \in [Encoders -> Nat] /\ list \in Seq(Buffer) /\ sending \in Seq(Buffer)
<1>1. sent \in [Encoders -> Nat] /\ list \in Seq(Buffer) /\ sending \in Seq(Buffer)
  BY DEF TypeInv, TypeOK
<1>2. Ahead \in Seq(Buffer)
  BY <1>1, ConcatProperties DEF Ahead
<1>3. ASSUME sender # "send" PROVE Ahead = list
  <2>1. sending = <<>>
    BY <1>3 DEF TypeInv, Taking
  <2> QED
    BY <1>1, <2>1, ConcatEmptySeq DEF Ahead
<1> QED
  BY <1>1, <1>2, <1>3

\* Encoders hand over later buffers only.
LEMMA NoneNewerGrows ==
  ASSUME NEW l \in Seq(Buffer), NEW s \in [Encoders -> Nat],
         NEW g \in [Encoders -> Nat], NEW h \in [Encoders -> Nat],
         NoneNewer(l, s, g), \A e \in Encoders : h[e] >= g[e]
  PROVE  NoneNewer(l, s, h)
<1>1. \A i \in 1..Len(l) : l[i].from \in Encoders /\ l[i].num \in Nat
  <2> SUFFICES ASSUME NEW i \in 1..Len(l) PROVE l[i].from \in Encoders /\ l[i].num \in Nat
    OBVIOUS
  <2>1. l[i] \in Buffer
    OBVIOUS
  <2> QED
    BY <2>1, BufferParts
<1>2. \A e \in Encoders : s[e] <= h[e]
  BY DEF NoneNewer
<1>3. \A i \in 1..Len(l) : l[i].num <= h[l[i].from]
  BY <1>1 DEF NoneNewer
<1> QED
  BY <1>2, <1>3 DEF NoneNewer

\* Two lists of packets joined.
LEMMA Joined ==
  ASSUME NEW s \in Seq(Buffer), NEW l \in Seq(Buffer)
  PROVE  /\ s \o l \in Seq(Buffer) /\ Len(s \o l) = Len(s) + Len(l)
         /\ \A i \in 1..Len(s \o l) : (s \o l)[i] = IF i <= Len(s) THEN s[i]
                                                   ELSE l[i - Len(s)]
BY ConcatProperties

\* A packet added to a list.
LEMMA Appended ==
  ASSUME NEW l \in Seq(Buffer), NEW b \in Buffer
  PROVE  /\ Append(l, b) \in Seq(Buffer) /\ Len(Append(l, b)) = Len(l) + 1
         /\ Append(l, b)[Len(l) + 1] = b
         /\ \A i \in 1..Len(l) : Append(l, b)[i] = l[i]
BY AppendProperties

\* What an encoder hands over goes to the end of the list.
LEMMA AppendConcat ==
  ASSUME NEW s \in Seq(Buffer), NEW l \in Seq(Buffer), NEW b \in Buffer
  PROVE  s \o Append(l, b) = Append(s \o l, b)
<1> DEFINE m == Append(l, b)
           a == s \o l
           c == s \o m
           k == Append(a, b)
<1>1. m \in Seq(Buffer) /\ Len(m) = Len(l) + 1 /\ m[Len(l) + 1] = b
      /\ \A i \in 1..Len(l) : m[i] = l[i]
  BY AppendProperties
<1>2. /\ a \in Seq(Buffer) /\ Len(a) = Len(s) + Len(l)
      /\ \A i \in 1..Len(a) : a[i] = IF i <= Len(s) THEN s[i] ELSE l[i - Len(s)]
  BY ConcatProperties
<1> HIDE DEF m, a, c, k
<1>3. /\ c \in Seq(Buffer) /\ Len(c) = Len(s) + Len(m)
      /\ \A i \in 1..Len(c) : c[i] = IF i <= Len(s) THEN s[i] ELSE m[i - Len(s)]
  BY <1>1, Joined DEF c
<1>4. k \in Seq(Buffer) /\ Len(k) = Len(a) + 1 /\ k[Len(a) + 1] = b
      /\ \A i \in 1..Len(a) : k[i] = a[i]
  BY <1>2, Appended DEF k
<1>5. Len(s) \in Nat /\ Len(l) \in Nat
  OBVIOUS
<1>6. ASSUME NEW i \in 1..Len(c) PROVE c[i] = k[i]
  <2>1. CASE i <= Len(s)
    <3>1. i \in 1..Len(a)
      BY <1>2, <1>3, <1>1, <1>5, <2>1
    <3> QED
      BY <1>2, <1>3, <1>4, <2>1, <3>1
  <2>2. CASE i > Len(s) /\ i <= Len(a)
    <3>1. i \in 1..Len(a) /\ i - Len(s) \in 1..Len(l) /\ ~(i <= Len(s))
      BY <1>2, <1>5, <2>2
    <3> QED
      BY <1>1, <1>2, <1>3, <1>4, <3>1
  <2>3. CASE i = Len(a) + 1
    <3>1. ~(i <= Len(s)) /\ i - Len(s) = Len(l) + 1
      BY <1>2, <1>5, <2>3
    <3> QED
      BY <1>1, <1>3, <1>4, <2>3, <3>1
  <2>4. i \in Nat /\ i <= Len(a) + 1 /\ Len(a) \in Nat
    BY <1>1, <1>2, <1>3, <1>5
  <2> QED
    BY <1>5, <2>1, <2>2, <2>3, <2>4
<1>7. Len(c) = Len(k)
  BY <1>1, <1>2, <1>3, <1>4, <1>5
<1>8. c = k
  BY <1>3, <1>4, <1>6, <1>7, SeqEqual
<1> QED
  BY <1>8 DEF a, c, k, m

\* What an encoder has handed over grows.
LEMMA EncoderGiven ==
  ASSUME TypeInv, NEW e \in Encoders, Encoder(e)
  PROVE  \A d \in Encoders : Given'[d] >= Given[d]
<1>0. /\ pc \in [Encoders -> {"loop", "poll", "check", "insert", "done"}]
      /\ filled \in [Encoders -> Nat]
  BY DEF TypeInv, TypeOK
<1>1. Given \in [Encoders -> Nat]
  BY GivenType
<1>2. \A d \in Encoders \ {e} : pc'[d] = pc[d] /\ filled'[d] = filled[d]
  BY <1>0 DEF Encoder, ReadEncExit, NoFrame, Fill, Drop, Allocate, AllocationFails,
              Insert, Goto
<1>3. \/ filled'[e] = filled[e]
         /\ (pc'[e] \in {"check", "insert"} => pc[e] \in {"check", "insert"})
      \/ filled'[e] = filled[e] + 1 /\ pc[e] = "poll"
  BY <1>0 DEF Encoder, ReadEncExit, NoFrame, Fill, Drop, Allocate, AllocationFails,
              Insert, Goto
<1>4. filled[e] \in Nat
  BY <1>0
<1>5. Given'[e] >= Given[e]
  BY <1>3, <1>4 DEF Given
<1>6. \A d \in Encoders \ {e} : Given'[d] = Given[d]
  BY <1>2 DEF Given
<1> QED
  BY <1>1, <1>5, <1>6

\* An insertion adds to what is ahead.
LEMMA AheadInsert ==
  ASSUME TypeInv, NEW b \in Buffer, sending' = sending, list' = Append(list, b)
  PROVE  Ahead' = Append(Ahead, b)
<1>1. sending \in Seq(Buffer) /\ list \in Seq(Buffer)
  BY AheadType
<1> QED
  BY <1>1, AppendConcat DEF Ahead

\* An encoder keeps the order.
LEMMA EncoderOrder ==
  ASSUME TypeInv, TypeInv', Order, NEW e \in Encoders, Encoder(e)
  PROVE  Order'
<1>0. Ahead \in Seq(Buffer) /\ sent \in [Encoders -> Nat]
  BY AheadType
<1>a. sent' = sent /\ sending' = sending
  BY DEF Encoder, ReadEncExit, NoFrame, Fill, Drop, Allocate, AllocationFails, Insert
<1>b. \A d \in Encoders : Given'[d] >= Given[d]
  BY EncoderGiven
<1>c. Given \in [Encoders -> Nat] /\ Given' \in [Encoders -> Nat]
  <2>1. Given' \in [Encoders -> Nat]
    BY DEF TypeInv, TypeOK, HasBuffer, Given
  <2> QED
    BY <2>1, GivenType
<1>d. NoneNewer(Ahead, sent, Given')
  BY <1>0, <1>b, <1>c, NoneNewerGrows DEF Order
<1>1. CASE ~Insert(e)
  <2>1. list' = list
    BY <1>1 DEF Encoder, ReadEncExit, NoFrame, Fill, Drop, Allocate, AllocationFails
  <2>2. Ahead' = Ahead
    BY <1>a, <2>1 DEF Ahead
  <2> QED
    BY <1>a, <1>d, <2>2 DEF Order
<1>2. CASE Insert(e)
  <2> DEFINE b == Current(e)
  <2>1. b \in Buffer /\ b.from = e /\ b.num = filled[e] /\ filled[e] \in Nat
    BY <1>2, CurrentType DEF Insert, Goto, Current, TypeInv, TypeOK
  <2>2. Given[e] = filled[e] - 1 /\ Given'[e] = filled[e]
    BY <1>2 DEF Insert, Goto, Given, TypeInv, TypeOK
  <2> HIDE DEF b
  <2>3. list' = Append(list, b)
    BY <1>2 DEF Insert, ListInsert, b
  <2>4. Ahead' = Append(Ahead, b)
    BY <1>a, <2>1, <2>3, AheadInsert
  <2>5. sent[e] \in Nat /\ sent[e] <= Given[e]
    BY <1>0 DEF Order, NoneNewer
  <2>6. b.num > sent[b.from]
    BY <2>1, <2>2, <2>5
  <2>7. ASSUME NEW i \in 1..Len(Ahead), Ahead[i].from = b.from PROVE Ahead[i].num < b.num
    <3>1. Ahead[i] \in Buffer
      BY <1>0
    <3>2. Ahead[i].num \in Nat
      BY <3>1, BufferParts
    <3>3. Ahead[i].num <= Given[e]
      BY <2>1, <2>7 DEF Order, NoneNewer
    <3> QED
      BY <2>1, <2>2, <3>2, <3>3
  <2>8. Ordered(Append(Ahead, b), sent)
    BY <1>0, <2>1, <2>6, <2>7, OrderedAppend DEF Order
  <2>9. \A i \in 1..Len(Ahead') : Ahead'[i].num <= Given'[Ahead'[i].from]
    <3>1. /\ Len(Ahead') = Len(Ahead) + 1 /\ Ahead'[Len(Ahead) + 1] = b
          /\ \A i \in 1..Len(Ahead) : Ahead'[i] = Ahead[i]
      BY <1>0, <2>1, <2>4, AppendProperties
    <3>2. Len(Ahead) \in Nat
      BY <1>0
    <3>3. SUFFICES ASSUME NEW i \in 1..Len(Ahead') PROVE Ahead'[i].num <= Given'[Ahead'[i].from]
      OBVIOUS
    <3>4. CASE i = Len(Ahead) + 1
      <4>1. Ahead'[i] = b
        BY <3>1, <3>4
      <4> QED
        BY <2>1, <2>2, <4>1
    <3>5. CASE i \in 1..Len(Ahead)
      BY <1>d, <3>1, <3>5 DEF NoneNewer
    <3> QED
      BY <3>1, <3>2, <3>4, <3>5
  <2>10. NoneNewer(Ahead', sent', Given')
    BY <1>a, <1>d, <2>9 DEF NoneNewer
  <2>11. Ordered(Ahead', sent')
    BY <1>a, <2>4, <2>8
  <2> QED
    BY <2>10, <2>11 DEF Order
<1> QED
  BY <1>1, <1>2

\* Taking a packet away leaves none that is newer than what was handed over.
LEMMA NoneNewerTail ==
  ASSUME NEW l \in Seq(Buffer), NEW s \in [Encoders -> Nat],
         NEW g \in [Encoders -> Nat], l # <<>>, NoneNewer(l, s, g)
  PROVE  /\ NoneNewer(Tail(l), s, g)
         /\ NoneNewer(Tail(l), [s EXCEPT ![Head(l).from] = Head(l).num], g)
<1> DEFINE k == Tail(l)
           z == [s EXCEPT ![Head(l).from] = Head(l).num]
<1>1. Len(k) = Len(l) - 1 /\ Len(l) \in Nat /\ Len(l) >= 1 /\ Head(l) = l[1]
      /\ \A i \in 1..Len(k) : k[i] = l[i + 1]
  BY HeadTailProperties
<1>2. l[1] \in Buffer /\ l[1].from \in Encoders /\ l[1].num \in Nat
  BY <1>1, BufferParts
<1>3. \A e \in Encoders : z[e] = IF e = l[1].from THEN l[1].num ELSE s[e]
  BY <1>1, <1>2
<1> HIDE DEF k, z
<1>4. \A e \in Encoders : z[e] <= g[e]
  <2>1. l[1].num <= g[l[1].from]
    BY <1>1 DEF NoneNewer
  <2> QED
    BY <1>3, <2>1 DEF NoneNewer
<1>5. \A i \in 1..Len(k) : k[i].num <= g[k[i].from]
  <2> SUFFICES ASSUME NEW i \in 1..Len(k) PROVE k[i].num <= g[k[i].from]
    OBVIOUS
  <2>1. i + 1 \in 1..Len(l) /\ k[i] = l[i + 1]
    BY <1>1
  <2> QED
    BY <2>1 DEF NoneNewer
<1>6. NoneNewer(k, s, g)
  BY <1>5 DEF NoneNewer
<1>7. NoneNewer(k, z, g)
  BY <1>4, <1>5 DEF NoneNewer
<1> QED
  BY <1>6, <1>7 DEF k, z

\* One packet in front of the others.
LEMMA OneAhead ==
  ASSUME NEW b \in Buffer, NEW l \in Seq(Buffer)
  PROVE  /\ <<b>> \o l \in Seq(Buffer) /\ <<b>> \o l # <<>>
         /\ Head(<<b>> \o l) = b /\ Tail(<<b>> \o l) = l
<1> DEFINE a == <<b>> \o l
           k == Tail(a)
<1>1. <<b>> \in Seq(Buffer) /\ Len(<<b>>) = 1 /\ <<b>>[1] = b
  OBVIOUS
<1>2. a \in Seq(Buffer) /\ Len(a) = 1 + Len(l)
      /\ \A i \in 1..Len(a) : a[i] = IF i <= 1 THEN <<b>>[i] ELSE l[i - 1]
  BY <1>1, Joined
<1>3. Len(l) \in Nat
  OBVIOUS
<1> HIDE DEF a
<1>4. a # <<>> /\ a[1] = b
  BY <1>1, <1>2, <1>3
<1>5. Head(a) = b /\ k \in Seq(Buffer) /\ Len(k) = Len(a) - 1
      /\ \A i \in 1..Len(k) : k[i] = a[i + 1]
  BY <1>2, <1>4, HeadTailProperties
<1> HIDE DEF k
<1>6. ASSUME NEW i \in 1..Len(k) PROVE k[i] = l[i]
  <2>1. i + 1 \in 1..Len(a) /\ ~(i + 1 <= 1) /\ (i + 1) - 1 = i
    BY <1>2, <1>3, <1>5
  <2> QED
    BY <1>2, <1>5, <2>1
<1>7. Len(k) = Len(l)
  BY <1>2, <1>3, <1>5
<1>8. k = l
  BY <1>5, <1>6, <1>7, SeqEqual
<1> QED
  BY <1>2, <1>4, <1>5, <1>8 DEF a, k

\* The first packet, in front of the rest, makes the list again.
LEMMA HeadAhead ==
  ASSUME NEW l \in Seq(Buffer), l # <<>>
  PROVE  <<Head(l)>> \o Tail(l) = l
<1> DEFINE k == Tail(l)
           a == <<Head(l)>> \o k
<1>1. k \in Seq(Buffer) /\ Len(k) = Len(l) - 1 /\ Len(l) \in Nat /\ Len(l) >= 1
      /\ Head(l) = l[1] /\ Head(l) \in Buffer /\ \A i \in 1..Len(k) : k[i] = l[i + 1]
  BY HeadTailProperties
<1>2. <<Head(l)>> \in Seq(Buffer) /\ Len(<<Head(l)>>) = 1 /\ <<Head(l)>>[1] = l[1]
  BY <1>1
<1> HIDE DEF k, a
<1>3. a \in Seq(Buffer) /\ Len(a) = 1 + Len(k)
      /\ \A i \in 1..Len(a) : a[i] = IF i <= 1 THEN <<Head(l)>>[i] ELSE k[i - 1]
  BY <1>1, <1>2, Joined DEF a
<1>4. Len(a) = Len(l)
  BY <1>1, <1>3
<1>5. ASSUME NEW i \in 1..Len(a) PROVE a[i] = l[i]
  <2>1. CASE i = 1
    BY <1>2, <1>3, <2>1
  <2>2. CASE i # 1
    <3>1. i - 1 \in 1..Len(k) /\ ~(i <= 1) /\ (i - 1) + 1 = i
      BY <1>1, <1>4, <2>2
    <3> QED
      BY <1>1, <1>3, <3>1
  <2> QED
    BY <2>1, <2>2
<1>6. a = l
  BY <1>3, <1>4, <1>5, SeqEqual
<1> QED
  BY <1>6 DEF a, k

\* The send thread keeps the order, also when it clears the list.
LEMMA SenderOrder ==
  ASSUME TypeInv, TypeInv', Order, Sender
  PROVE  Order'
<1>0. /\ Ahead \in Seq(Buffer) /\ sent \in [Encoders -> Nat] /\ list \in Seq(Buffer)
      /\ sender # "send" => Ahead = list
      /\ Given \in [Encoders -> Nat]
  BY AheadType, GivenType
<1>a. Given' = Given
  <2>1. pc' = pc /\ filled' = filled
    BY DEF Sender, CreateList, SenderLoops, Pop, Send, TellEncoders, Join, JoinAll, Clear
  <2> QED
    BY <2>1 DEF Given
<1>1. CASE CreateList \/ SenderLoops \/ TellEncoders \/ Join
  <2>1. list' = list /\ sending' = sending /\ sent' = sent
    BY <1>1 DEF CreateList, SenderLoops, TellEncoders, Join
  <2>2. Ahead' = Ahead
    BY <2>1 DEF Ahead
  <2> QED
    BY <1>a, <2>1, <2>2 DEF Order
<1>2. CASE Pop
  <2>1. Ahead = list /\ sent' = sent /\ sending = <<>>
    BY <1>0, <1>2 DEF Pop, SenderGoes, TypeInv, Taking
  <2>2. CASE list = <<>>
    <3>1. list' = list /\ sending' = sending
      BY <1>2, <2>2 DEF Pop
    <3>2. Ahead' = Ahead
      BY <3>1 DEF Ahead
    <3> QED
      BY <1>a, <2>1, <3>2 DEF Order
  <2>3. CASE list # <<>>
    <3>1. sending' = <<Head(list)>> /\ list' = Tail(list)
      BY <1>2, <2>3 DEF Pop
    <3>2. Ahead' = <<Head(list)>> \o Tail(list)
      BY <3>1 DEF Ahead
    <3>3. Ahead' = list
      BY <1>0, <2>3, <3>2, HeadAhead
    <3> QED
      BY <1>a, <2>1, <3>3 DEF Order
  <2> QED
    BY <2>2, <2>3
<1>3. CASE Send
  <2>1. PICK b \in Buffer : sending = <<b>>
    BY <1>3 DEF Send, SenderGoes, TypeInv, Taking
  <2>2. sending' = <<>> /\ list' = list /\ sent' = [sent EXCEPT ![b.from] = b.num]
        /\ sender' = "pop"
    BY <1>3, <2>1 DEF Send, SenderGoes
  <2>3. Ahead # <<>> /\ Head(Ahead) = b /\ Tail(Ahead) = list
    BY <1>0, <2>1, OneAhead DEF Ahead
  <2>4. Ahead' = list
    BY <1>0, <2>2, ConcatEmptySeq DEF Ahead
  <2>5. Ordered(Ahead', sent')
    BY <1>0, <2>2, <2>3, <2>4, OrderedTail DEF Order
  <2>6. NoneNewer(Ahead', sent', Given)
    BY <1>0, <2>2, <2>3, <2>4, NoneNewerTail DEF Order
  <2> QED
    BY <1>a, <2>5, <2>6 DEF Order
<1>4. CASE Clear
  <2>1. Ahead = list /\ sent' = sent /\ sending' = <<>>
    BY <1>0, <1>4 DEF Clear, TypeInv, Taking
  <2>2. CASE list = <<>>
    <3>1. Ahead' = Ahead
      BY <1>4, <2>1, <2>2, ConcatEmptySeq DEF Ahead, Clear
    <3> QED
      BY <1>a, <2>1, <3>1 DEF Order
  <2>3. CASE list # <<>>
    <3>1. list' = Tail(list) /\ Tail(list) \in Seq(Buffer)
      BY <1>0, <1>4, <2>3, HeadTailProperties DEF Clear
    <3>2. Ahead' = Tail(list)
      BY <2>1, <3>1, ConcatEmptySeq DEF Ahead
    <3>3. Ordered(Ahead', sent')
      BY <1>0, <2>1, <2>3, <3>2, OrderedTail DEF Order
    <3>4. NoneNewer(Ahead', sent', Given)
      BY <1>0, <2>1, <2>3, <3>2, NoneNewerTail DEF Order
    <3> QED
      BY <1>a, <3>3, <3>4 DEF Order
  <2> QED
    BY <2>2, <2>3
<1> QED
  BY <1>1, <1>2, <1>3, <1>4 DEF Sender

\* At first nothing waits.
LEMMA OrderInit == Init => Order
<1> SUFFICES ASSUME Init PROVE Order
  OBVIOUS
<1>1. Ahead = <<>>
  BY ConcatEmptySeq DEF Init, Ahead
<1>2. Len(Ahead) = 0
  BY <1>1
<1>3. Ordered(Ahead, sent)
  BY <1>2 DEF Ordered
<1>4. \A e \in Encoders : sent[e] = 0 /\ Given[e] = 0
  BY DEF Init, Given
<1>5. NoneNewer(Ahead, sent, Given)
  BY <1>2, <1>4 DEF NoneNewer
<1> QED
  BY <1>3, <1>5 DEF Order

\* Every step keeps the order.
LEMMA OrderStep ==
  ASSUME TypeInv, TypeInv', Order, [Next]_vars
  PROVE  Order'
<1>1. CASE UNCHANGED vars
  <2>1. Ahead' = Ahead /\ Given' = Given /\ sent' = sent
    BY <1>1 DEF vars, Ahead, Given
  <2> QED
    BY <2>1 DEF Order
<1>2. CASE Next
  BY <1>2, SenderOrder, EncoderOrder DEF Next
<1> QED
  BY <1>1, <1>2

(***************************************************************************)
(* The packets of an encoder reach RTMP in the order they were filled,     *)
(* although an encoder decides outside the lock to add one, packets are    *)
(* dropped in between, and stop takes packets away too.                    *)
(***************************************************************************)
THEOREM InOrder == Spec => []SentInOrder
<1>1. TypeInv /\ TypeInv' /\ Order /\ [Next]_vars => Order'
  BY OrderStep
<1>2. Order => SentInOrder
  BY DEF Order, Ordered, SentInOrder, Ahead
<1> QED
  BY <1>1, <1>2, OrderInit, TypeInductive, PTL DEF Spec

-----------------------------------------------------------------------------
(***************************************************************************)
(* A buffer is in one place.  The order of the packets keeps those that    *)
(* wait apart; Apart says that what is gone is not with a thread any more. *)
(***************************************************************************)
Waiting == Taken \cup Listed

Apart == /\ (Held \cup Waiting) \cap (freed \cup leaked) = {}
         /\ freed \cap leaked = {}

Sizes == /\ IsFiniteSet(Held) /\ IsFiniteSet(freed) /\ IsFiniteSet(leaked)
         /\ IsFiniteSet(Filled)
         /\ Cardinality(Held) + Len(list) + Len(sending) + Cardinality(freed)
              + Cardinality(leaked) = Cardinality(Filled)

\* A set gets one element more.
LEMMA OneMore ==
  ASSUME NEW S, NEW x, IsFiniteSet(S), x \notin S
  PROVE  /\ IsFiniteSet(S \cup {x}) /\ Cardinality(S) \in Nat
         /\ Cardinality(S \cup {x}) = Cardinality(S) + 1
BY FS_AddElement, FS_CardinalityType

\* A set loses one element.
LEMMA OneLess ==
  ASSUME NEW S, NEW x, IsFiniteSet(S), x \in S
  PROVE  /\ IsFiniteSet(S \ {x}) /\ Cardinality(S) \in Nat
         /\ Cardinality(S) = Cardinality(S \ {x}) + 1
<1>1. IsFiniteSet(S \ {x})
  BY FS_RemoveElement
<1>2. (S \ {x}) \cup {x} = S
  OBVIOUS
<1>3. x \notin S \ {x}
  OBVIOUS
<1>4. Cardinality((S \ {x}) \cup {x}) = Cardinality(S \ {x}) + 1
  BY <1>1, <1>3, OneMore
<1> QED
  BY <1>1, <1>2, <1>4, FS_CardinalityType

\* The packets of two lists joined.
LEMMA InJoined ==
  ASSUME NEW s \in Seq(Buffer), NEW l \in Seq(Buffer)
  PROVE  In(s \o l) = In(s) \cup In(l)
<1> DEFINE a == s \o l
<1>1. /\ a \in Seq(Buffer) /\ Len(a) = Len(s) + Len(l)
      /\ \A i \in 1..Len(a) : a[i] = IF i <= Len(s) THEN s[i] ELSE l[i - Len(s)]
  BY Joined
<1>2. Len(s) \in Nat /\ Len(l) \in Nat
  OBVIOUS
<1> HIDE DEF a
<1>3. ASSUME NEW i \in 1..Len(a) PROVE a[i] \in In(s) \cup In(l)
  <2>1. CASE i <= Len(s)
    <3>1. i \in 1..Len(s) /\ a[i] = s[i]
      BY <1>1, <1>2, <2>1
    <3> QED
      BY <3>1 DEF In
  <2>2. CASE ~(i <= Len(s))
    <3>1. i - Len(s) \in 1..Len(l) /\ a[i] = l[i - Len(s)]
      BY <1>1, <1>2, <2>2
    <3> QED
      BY <3>1 DEF In
  <2> QED
    BY <2>1, <2>2
<1>4. ASSUME NEW i \in 1..Len(s) PROVE s[i] \in In(a)
  <2>1. i \in 1..Len(a) /\ a[i] = s[i]
    BY <1>1, <1>2
  <2> QED
    BY <2>1 DEF In
<1>5. ASSUME NEW i \in 1..Len(l) PROVE l[i] \in In(a)
  <2>1. i + Len(s) \in 1..Len(a) /\ ~(i + Len(s) <= Len(s)) /\ (i + Len(s)) - Len(s) = i
    BY <1>1, <1>2
  <2>2. a[i + Len(s)] = l[i]
    BY <1>1, <2>1
  <2> QED
    BY <2>1, <2>2 DEF In
<1>6. In(a) \subseteq In(s) \cup In(l)
  BY <1>3 DEF In
<1>7. In(s) \subseteq In(a)
  BY <1>4 DEF In
<1>8. In(l) \subseteq In(a)
  BY <1>5 DEF In
<1> QED
  BY <1>6, <1>7, <1>8 DEF a

\* What waits is what is ahead of the send thread.
LEMMA WaitingAhead ==
  ASSUME TypeInv
  PROVE  Waiting = In(Ahead)
<1>1. Taken = In(sending) /\ Listed = In(list)
  BY DEF Taken, Listed, In
<1> QED
  BY <1>1, AheadType, InJoined DEF Waiting, Ahead

\* The first packet of an ordered list is in it once.
LEMMA HeadOnce ==
  ASSUME NEW l \in Seq(Buffer), NEW s, l # <<>>, Ordered(l, s)
  PROVE  Head(l) \notin In(Tail(l))
<1> DEFINE k == Tail(l)
<1>1. Len(k) = Len(l) - 1 /\ Len(l) \in Nat /\ Len(l) >= 1 /\ Head(l) = l[1]
      /\ \A i \in 1..Len(k) : k[i] = l[i + 1]
  BY HeadTailProperties
<1> HIDE DEF k
<1>2. ASSUME NEW i \in 1..Len(k) PROVE k[i] # l[1]
  <2>1. i + 1 \in 1..Len(l) /\ 1 \in 1..((i + 1) - 1) /\ k[i] = l[i + 1]
    BY <1>1
  <2>2. l[1].from = l[i + 1].from => l[1].num < l[i + 1].num
    BY <2>1 DEF Ordered
  <2>3. l[i + 1] \in Buffer
    BY <2>1
  <2>4. l[i + 1].num \in Nat
    BY <2>3, BufferParts
  <2> QED
    BY <2>1, <2>2, <2>4
<1> QED
  BY <1>1, <1>2 DEF In, k

\* A buffer an encoder holds does not wait as well.
LEMMA HeldApart ==
  ASSUME TypeInv, Order
  PROVE  Held \cap Waiting = {}
<1>1. SUFFICES ASSUME NEW e \in Encoders, pc[e] \in {"check", "insert"},
                      NEW i \in 1..Len(Ahead), Ahead[i] = Current(e)
               PROVE  FALSE
  <2>1. \A b \in Held : \E e \in Encoders : pc[e] \in {"check", "insert"} /\ b = Current(e)
    BY DEF Held
  <2>2. \A b \in Waiting : \E i \in 1..Len(Ahead) : b = Ahead[i]
    BY WaitingAhead DEF In
  <2> QED
    BY <1>1, <2>1, <2>2
<1>2. filled[e] \in Nat /\ Given[e] = filled[e] - 1
  BY <1>1 DEF TypeInv, TypeOK, Given
<1>3. Ahead[i].num = filled[e] /\ Ahead[i].from = e
  BY <1>1 DEF Current
<1>4. Ahead[i].num <= Given[Ahead[i].from]
  BY DEF Order, NoneNewer
<1> QED
  BY <1>2, <1>3, <1>4

\* Of a buffer that leaves its encoder the encoder keeps nothing.
LEMMA ReleasedOne ==
  ASSUME TypeInv, NEW e \in Encoders, pc[e] \in {"check", "insert"}, filled' = filled,
         pc' = [pc EXCEPT ![e] = "loop"]
  PROVE  Current(e) \in Held /\ Held' = Held \ {Current(e)}
<1>1. pc \in [Encoders -> {"loop", "poll", "check", "insert", "done"}]
  BY DEF TypeInv, TypeOK
<1>2. \A d \in Encoders : Current(d)' = Current(d) /\ Current(d).from = d
  BY DEF Current
<1>3. Current(e) \in Held
  BY DEF Held
<1>4. Current(e) \notin Held'
  BY <1>1, <1>2 DEF Held
<1> QED
  BY <1>3, <1>4, Released

\* The terms of the sum are numbers.
LEMMA SizesType ==
  ASSUME TypeInv, Sizes
  PROVE  /\ Len(list) \in Nat /\ Len(sending) \in Nat /\ Cardinality(Held) \in Nat
         /\ Cardinality(freed) \in Nat /\ Cardinality(leaked) \in Nat
         /\ Cardinality(Filled) \in Nat
<1>1. Len(list) \in Nat /\ Len(sending) \in Nat
  BY DEF TypeInv, TypeOK
<1> QED
  BY <1>1, FS_CardinalityType DEF Sizes

\* An encoder moves a buffer from one place to another.
LEMMA EncoderExact ==
  ASSUME TypeInv, TypeInv', Covered, Order, Apart, Sizes, NEW e \in Encoders, Encoder(e)
  PROVE  Apart' /\ Sizes'
<1>0. /\ pc \in [Encoders -> {"loop", "poll", "check", "insert", "done"}]
      /\ filled \in [Encoders -> Nat] /\ list \in Seq(Buffer)
  BY DEF TypeInv, TypeOK
<1>a. sending' = sending /\ Taken' = Taken
  BY DEF Encoder, ReadEncExit, NoFrame, Fill, Drop, Allocate, AllocationFails, Insert, Taken
<1>s. /\ Len(list) \in Nat /\ Len(sending) \in Nat /\ Cardinality(Held) \in Nat
      /\ Cardinality(freed) \in Nat /\ Cardinality(leaked) \in Nat
      /\ Cardinality(Filled) \in Nat
  BY SizesType
<1>1. CASE ReadEncExit(e) \/ NoFrame(e) \/ Allocate(e)
  <2>1. filled' = filled /\ list' = list /\ freed' = freed /\ leaked' = leaked
    BY <1>1 DEF ReadEncExit, NoFrame, Allocate
  <2>2. \A d \in Encoders : pc[d] \in {"check", "insert"} <=> pc'[d] \in {"check", "insert"}
    BY <1>0, <1>1 DEF ReadEncExit, NoFrame, Allocate, Goto
  <2>3. Held' = Held /\ Filled' = Filled /\ Listed' = Listed
    BY <2>1, <2>2 DEF Held, Current, Filled, Listed
  <2>4. Apart'
    BY <1>a, <2>1, <2>3 DEF Apart, Waiting
  <2>5. Sizes'
    BY <1>a, <2>1, <2>3 DEF Sizes
  <2> QED
    BY <2>4, <2>5
<1>2. CASE Fill(e)
  <2> DEFINE new == Current(e)'
  <2>1. filled' = [filled EXCEPT ![e] = @ + 1] /\ list' = list /\ leaked' = leaked
        /\ pc[e] = "poll"
    BY <1>2 DEF Fill, Goto
  <2>2. Filled' = Filled \cup {new} /\ Listed' = Listed
    BY <2>1, FilledGrows DEF Listed
  <2>3. \A d \in Encoders \ {e} : Current(d)' = Current(d) /\ pc'[d] = pc[d]
    BY <1>0, <1>2 DEF Fill, Goto, Current
  <2>4. \/ pc'[e] = "check" /\ freed' = freed
        \/ pc'[e] = "loop" /\ freed' = freed \cup {new}
    BY <1>0, <1>2 DEF Fill, Goto
  <2>5. new \notin Filled
    <3>1. new.from = e /\ new.num = filled[e] + 1 /\ filled[e] \in Nat
      BY <1>0, <2>1 DEF Current
    <3>2. \A b \in Filled : b.from \in Encoders /\ b.num \in 1..filled[b.from]
      BY DEF Filled
    <3> QED
      BY <3>1, <3>2
  <2> HIDE DEF new
  <2>6. new \notin Held /\ new \notin Waiting /\ new \notin freed /\ new \notin leaked
    BY <2>5 DEF Covered, Waiting
  <2>7. IsFiniteSet(Filled') /\ Cardinality(Filled') = Cardinality(Filled) + 1
    BY <2>2, <2>5, OneMore DEF Sizes
  <2>8. CASE pc'[e] = "check" /\ freed' = freed
    <3>1. Held' = Held \cup {new}
      BY <2>1, <2>3, <2>8 DEF Held, new
    <3>2. IsFiniteSet(Held') /\ Cardinality(Held') = Cardinality(Held) + 1
      BY <2>6, <3>1, OneMore DEF Sizes
    <3>3. Apart'
      BY <1>a, <2>1, <2>2, <2>6, <2>8, <3>1 DEF Apart, Waiting
    <3>4. Sizes'
      BY <1>a, <1>s, <2>1, <2>7, <2>8, <3>2 DEF Sizes
    <3> QED
      BY <3>3, <3>4
  <2>9. CASE pc'[e] = "loop" /\ freed' = freed \cup {new}
    <3>1. Held' = Held
      BY <2>1, <2>3, <2>9 DEF Held
    <3>2. IsFiniteSet(freed') /\ Cardinality(freed') = Cardinality(freed) + 1
      BY <2>6, <2>9, OneMore DEF Sizes
    <3>3. Apart'
      BY <1>a, <2>1, <2>2, <2>6, <2>9, <3>1 DEF Apart, Waiting
    <3>4. Sizes'
      BY <1>a, <1>s, <2>1, <2>7, <3>1, <3>2 DEF Sizes
    <3> QED
      BY <3>3, <3>4
  <2> QED
    BY <2>4, <2>8, <2>9
<1>3. CASE Drop(e) \/ AllocationFails(e) \/ Insert(e)
  <2> DEFINE old == Current(e)
  <2>1. old \in Held /\ Held' = Held \ {old} /\ Filled' = Filled
    BY <1>3, Released, ReleasedOne DEF Drop, AllocationFails, Insert, Goto
  <2>2. old \notin freed /\ old \notin leaked /\ old \notin Waiting
    BY <2>1, HeldApart DEF Apart
  <2>3. IsFiniteSet(Held') /\ Cardinality(Held) = Cardinality(Held') + 1
        /\ Cardinality(Held') \in Nat
    BY <2>1, OneLess, FS_CardinalityType DEF Sizes
  <2>4. old \in Buffer
    BY <1>3, CurrentType DEF Drop, AllocationFails, Insert, Goto
  <2> HIDE DEF old
  <2>5. CASE Drop(e)
    <3>1. list' = list /\ leaked' = leaked /\ freed' = freed \cup {old} /\ Listed' = Listed
      BY <2>5 DEF Drop, Listed, old
    <3>2. IsFiniteSet(freed') /\ Cardinality(freed') = Cardinality(freed) + 1
      BY <2>2, <3>1, OneMore DEF Sizes
    <3>3. Apart'
      BY <1>a, <2>1, <2>2, <3>1 DEF Apart, Waiting
    <3>4. Sizes'
      BY <1>a, <1>s, <2>1, <2>3, <3>1, <3>2 DEF Sizes
    <3> QED
      BY <3>3, <3>4
  <2>6. CASE AllocationFails(e)
    <3>1. list' = list /\ freed' = freed /\ leaked' = leaked \cup {old} /\ Listed' = Listed
      BY <2>6 DEF AllocationFails, Listed, old
    <3>2. IsFiniteSet(leaked') /\ Cardinality(leaked') = Cardinality(leaked) + 1
      BY <2>2, <3>1, OneMore DEF Sizes
    <3>3. Apart'
      BY <1>a, <2>1, <2>2, <3>1 DEF Apart, Waiting
    <3>4. Sizes'
      BY <1>a, <1>s, <2>1, <2>3, <3>1, <3>2 DEF Sizes
    <3> QED
      BY <3>3, <3>4
  <2>7. CASE Insert(e)
    <3>1. list' = Append(list, old) /\ freed' = freed /\ leaked' = leaked
      BY <2>7 DEF Insert, ListInsert, old
    <3>2. Len(list') = Len(list) + 1 /\ In(list') = In(list) \cup {old}
      BY <1>0, <2>4, <3>1, Appended, InAppend
    <3>3. Listed' = Listed \cup {old}
      BY <3>2 DEF Listed, In
    <3>4. Apart'
      BY <1>a, <2>1, <2>2, <3>1, <3>3 DEF Apart, Waiting
    <3>5. Sizes'
      BY <1>a, <1>s, <2>1, <2>3, <3>1, <3>2 DEF Sizes
    <3> QED
      BY <3>4, <3>5
  <2> QED
    BY <1>3, <2>5, <2>6, <2>7
<1> QED
  BY <1>1, <1>2, <1>3 DEF Encoder

\* The send thread and stop do, too.
LEMMA SenderExact ==
  ASSUME TypeInv, TypeInv', Covered, Order, Apart, Sizes, Sender
  PROVE  Apart' /\ Sizes'
<1>0. list \in Seq(Buffer) /\ Listed = In(list) /\ Taken = In(sending)
      /\ Listed' = In(list') /\ Taken' = In(sending')
  BY DEF TypeInv, TypeOK, Listed, Taken, In
<1>a. filled' = filled /\ leaked' = leaked /\ pc' = pc
  BY DEF Sender, CreateList, SenderLoops, Pop, Send, TellEncoders, Join, JoinAll, Clear
<1>b. Held' = Held /\ Filled' = Filled
  BY <1>a DEF Held, Filled, Current
<1>s. /\ Len(list) \in Nat /\ Len(sending) \in Nat /\ Cardinality(Held) \in Nat
      /\ Cardinality(freed) \in Nat /\ Cardinality(leaked) \in Nat
      /\ Cardinality(Filled) \in Nat
  BY SizesType
<1>o. Ahead \in Seq(Buffer) /\ Ordered(Ahead, sent)
      /\ (sender # "send" => Ahead = list)
  BY AheadType DEF Order
<1>1. CASE CreateList \/ SenderLoops \/ TellEncoders \/ Join
  <2>1. list' = list /\ sending' = sending /\ freed' = freed
    BY <1>1 DEF CreateList, SenderLoops, TellEncoders, Join
  <2>2. Apart'
    BY <1>0, <1>a, <1>b, <2>1 DEF Apart, Waiting
  <2>3. Sizes'
    BY <1>a, <1>b, <2>1 DEF Sizes
  <2> QED
    BY <2>2, <2>3
<1>2. CASE Pop /\ list # <<>>
  <2>1. sending = <<>> /\ sending' = <<Head(list)>> /\ list' = Tail(list) /\ freed' = freed
    BY <1>2 DEF Pop, SenderGoes, TypeInv, Taking
  <2>2. Head(list) \in Buffer /\ Len(list') = Len(list) - 1
    BY <1>0, <1>2, <2>1, HeadTailProperties
  <2>3. In(list) = In(list') \cup {Head(list)} /\ In(sending') = {Head(list)}
        /\ In(sending) = {}
    BY <1>0, <1>2, <2>1, <2>2, InTail, InOne
  <2>4. Len(sending) = 0 /\ Len(sending') = 1
    BY <2>1
  <2>5. Waiting' = Waiting
    BY <1>0, <2>3 DEF Waiting
  <2>6. Apart'
    BY <1>a, <1>b, <2>1, <2>5 DEF Apart
  <2>7. Sizes'
    BY <1>a, <1>b, <1>s, <2>1, <2>2, <2>4 DEF Sizes
  <2> QED
    BY <2>6, <2>7
<1>3. CASE Send
  <2>1. PICK b \in Buffer : sending = <<b>>
    BY <1>3 DEF Send, SenderGoes, TypeInv, Taking
  <2>2. sending' = <<>> /\ freed' = freed \cup {b} /\ list' = list
    BY <1>3, <2>1 DEF Send
  <2>3. In(sending) = {b} /\ In(sending') = {} /\ Len(sending) = 1 /\ Len(sending') = 0
    BY <2>1, <2>2, InOne
  <2>4. Ahead # <<>> /\ Head(Ahead) = b /\ Tail(Ahead) = list
    BY <1>0, <2>1, OneAhead DEF Ahead
  <2>5. b \notin In(list)
    BY <1>o, <2>4, HeadOnce
  <2>6. b \in Waiting
    BY <1>0, <2>3 DEF Waiting
  <2>7. b \notin Held /\ b \notin freed /\ b \notin leaked
    BY <2>6, HeldApart DEF Apart
  <2>8. IsFiniteSet(freed') /\ Cardinality(freed') = Cardinality(freed) + 1
    BY <2>2, <2>7, OneMore DEF Sizes
  <2>9. Waiting' = Waiting \ {b}
    BY <1>0, <2>2, <2>3, <2>5 DEF Waiting
  <2>10. Apart'
    BY <1>a, <1>b, <2>2, <2>7, <2>9 DEF Apart
  <2>11. Sizes'
    BY <1>a, <1>b, <1>s, <2>2, <2>3, <2>8 DEF Sizes
  <2> QED
    BY <2>10, <2>11
<1>4. CASE Clear /\ list # <<>>
  <2> DEFINE b == Head(list)
  <2>1. sending' = sending /\ sending = <<>> /\ list' = Tail(list) /\ freed' = freed \cup {b}
        /\ sender # "send"
    BY <1>4 DEF Clear, TypeInv, Taking
  <2>2. In(list) = In(list') \cup {b} /\ Len(list') = Len(list) - 1
    BY <1>0, <1>4, <2>1, InTail, HeadTailProperties
  <2>3. b \notin In(list')
    BY <1>0, <1>4, <1>o, <2>1, HeadOnce
  <2> HIDE DEF b
  <2>4. In(sending) = {} /\ In(sending') = {}
    BY <2>1, InOne
  <2>5. b \in Waiting /\ Waiting' = Waiting \ {b}
    BY <1>0, <2>2, <2>3, <2>4 DEF Waiting
  <2>6. b \notin Held /\ b \notin freed /\ b \notin leaked
    BY <2>5, HeldApart DEF Apart
  <2>7. IsFiniteSet(freed') /\ Cardinality(freed') = Cardinality(freed) + 1
    BY <2>1, <2>6, OneMore DEF Sizes
  <2>8. Apart'
    BY <1>a, <1>b, <2>1, <2>5, <2>6 DEF Apart
  <2>9. Len(list') = Len(list) - 1 /\ sending' = sending
    BY <2>1, <2>2
  <2>10. Sizes'
    BY <1>a, <1>b, <1>s, <2>7, <2>9 DEF Sizes
  <2> QED
    BY <2>8, <2>10
<1>5. CASE (Pop \/ Clear) /\ list = <<>>
  <2>1. list' = list /\ sending' = sending /\ freed' = freed
    BY <1>5 DEF Pop, Clear
  <2>2. Apart'
    BY <1>0, <1>a, <1>b, <2>1 DEF Apart, Waiting
  <2>3. Sizes'
    BY <1>a, <1>b, <2>1 DEF Sizes
  <2> QED
    BY <2>2, <2>3
<1> QED
  BY <1>1, <1>2, <1>3, <1>4, <1>5 DEF Sender

Exact == Covered /\ Order /\ Apart /\ Sizes

LEMMA ExactAlways == Spec => []Exact
<1>1. Init => Exact
  <2> SUFFICES ASSUME Init PROVE Exact
    OBVIOUS
  <2>1. Held = {} /\ Listed = {} /\ Taken = {} /\ Filled = {} /\ freed = {} /\ leaked = {}
        /\ Len(list) = 0 /\ Len(sending) = 0
    BY DEF Init, Held, Listed, Taken, Filled
  <2>2. Covered /\ Apart
    BY <2>1 DEF Covered, Apart
  <2>3. Sizes
    BY <2>1, FS_EmptySet DEF Sizes
  <2> QED
    BY <2>2, <2>3, OrderInit DEF Exact
<1>2. TypeInv /\ TypeInv' /\ Exact /\ [Next]_vars => Exact'
  <2> SUFFICES ASSUME TypeInv, TypeInv', Exact, [Next]_vars PROVE Exact'
    OBVIOUS
  <2>1. Covered'
    BY CoveredStep DEF Exact
  <2>2. Order'
    BY OrderStep DEF Exact
  <2>3. Apart' /\ Sizes'
    <3>1. CASE UNCHANGED vars
      <4>1. Held' = Held /\ Listed' = Listed /\ Taken' = Taken /\ Filled' = Filled
            /\ freed' = freed /\ leaked' = leaked /\ list' = list /\ sending' = sending
        BY <3>1 DEF vars, Held, Listed, Taken, Filled, Current
      <4> QED
        BY <4>1 DEF Exact, Apart, Waiting, Sizes
    <3> QED
      BY <3>1, SenderExact, EncoderExact DEF Next, Exact
  <2> QED
    BY <2>1, <2>2, <2>3 DEF Exact
<1> QED
  BY <1>1, <1>2, TypeInductive, PTL DEF Spec

(***************************************************************************)
(* No buffer is freed twice, used once freed, or lost but by a failed      *)
(* allocation, for any number of encoders and any interleaving of them     *)
(* with the send thread and stop.                                          *)
(***************************************************************************)
THEOREM OnceOnly == Spec => []BuffersOnce
<1>1. Exact => BuffersOnce
  BY DEF Exact, Covered, Sizes, BuffersOnce
<1> QED
  BY <1>1, ExactAlways, PTL

-----------------------------------------------------------------------------
(***************************************************************************)
(* The refinement: what each step does to the buffers in use and to those  *)
(* that are gone is a step of LossyQueue, or none.                         *)
(***************************************************************************)
InUse == Held \cup Listed \cup Taken
Gone == freed \cup leaked

\* Steps that move buffers between the threads and the list are not seen.
LEMMA NotSeen ==
  ASSUME UNCHANGED <<filled, sent>>, InUse' = InUse, Gone' = Gone,
         sender # "done", sender' # "done"
  PROVE  UNCHANGED Promise!vars
<1>1. (sender = "done") = (sender' = "done")
  OBVIOUS
<1> QED
  BY <1>1 DEF Promise!vars, InUse, Gone

LEMMA Discarded ==
  ASSUME NEW b, b \in InUse, InUse' = InUse \ {b}, Gone' = Gone \cup {b},
         UNCHANGED <<filled, sent>>, sender # "done", sender' # "done"
  PROVE  Promise!Next
<1>1. (sender = "done") = (sender' = "done")
  OBVIOUS
<1>2. Promise!Discard(b)
  BY <1>1 DEF Promise!Discard, Promise!GiveUp, InUse, Gone
<1> QED
  BY <1>2 DEF Promise!Next, InUse

\* Nobody does anything once the send thread is done.
LEMMA NotDone ==
  ASSUME Stopped, Next
  PROVE  sender # "done"
<1>1. CASE Sender
  BY <1>1 DEF Sender, CreateList, SenderLoops, Pop, Send, TellEncoders, Join, JoinAll,
              Clear, SenderGoes
<1>2. ASSUME NEW e \in Encoders, Encoder(e) PROVE sender # "done"
  BY <1>2 DEF Stopped, Encoder, ReadEncExit, NoFrame, Fill, Drop, Allocate, AllocationFails,
              Insert, Goto
<1> QED
  BY <1>1, <1>2 DEF Next

LEMMA EncoderPromise ==
  ASSUME TypeInv, Exact, Stopped, NEW e \in Encoders, Encoder(e)
  PROVE  [Promise!Next]_(Promise!vars)
<1>0. /\ pc \in [Encoders -> {"loop", "poll", "check", "insert", "done"}]
      /\ filled \in [Encoders -> Nat] /\ list \in Seq(Buffer)
  BY DEF TypeInv, TypeOK
<1>a. UNCHANGED <<sending, sender, sent>> /\ Taken' = Taken /\ sender # "done"
  <2>1. UNCHANGED <<sending, sender, sent>>
    BY DEF Encoder, ReadEncExit, NoFrame, Fill, Drop, Allocate, AllocationFails, Insert
  <2>2. sender # "done"
    BY NotDone DEF Next
  <2> QED
    BY <2>1, <2>2 DEF Taken
<1>1. CASE ReadEncExit(e) \/ NoFrame(e) \/ Allocate(e)
  <2>1. UNCHANGED <<filled, list, freed, leaked>>
    BY <1>1 DEF ReadEncExit, NoFrame, Allocate
  <2>2. \A d \in Encoders : pc[d] \in {"check", "insert"} <=> pc'[d] \in {"check", "insert"}
    BY <1>0, <1>1 DEF ReadEncExit, NoFrame, Allocate, Goto
  <2>3. Held' = Held /\ Listed' = Listed
    BY <2>1, <2>2 DEF Held, Current, Listed
  <2> QED
    BY <1>a, <2>1, <2>3, NotSeen DEF InUse, Gone
<1>2. CASE Fill(e)
  <2> DEFINE new == Current(e)'
  <2>1. filled' = [filled EXCEPT ![e] = @ + 1] /\ list' = list /\ leaked' = leaked
        /\ pc[e] = "poll"
    BY <1>2 DEF Fill, Goto
  <2>2. \A d \in Encoders \ {e} : Current(d)' = Current(d) /\ pc'[d] = pc[d]
    BY <1>0, <1>2 DEF Fill, Goto, Current
  <2>3. \/ pc'[e] = "check" /\ freed' = freed
        \/ pc'[e] = "loop" /\ freed' = freed \cup {new}
    BY <1>0, <1>2 DEF Fill, Goto
  <2>4. new = [from |-> e, num |-> filled[e] + 1] /\ Listed' = Listed
    BY <1>0, <2>1 DEF Current, Listed
  <2>5. (sender = "done") = (sender' = "done")
    BY <1>a
  <2> HIDE DEF new
  <2>6. \/ InUse' = InUse \cup {new} /\ Gone' = Gone
        \/ InUse' = InUse /\ Gone' = Gone \cup {new}
    <3>1. CASE pc'[e] = "check" /\ freed' = freed
      <4>1. Held' = Held \cup {new}
        BY <2>1, <2>2, <3>1 DEF Held, new
      <4> QED
        BY <1>a, <2>1, <2>4, <3>1, <4>1 DEF InUse, Gone
    <3>2. CASE pc'[e] = "loop" /\ freed' = freed \cup {new}
      <4>1. Held' = Held
        BY <2>1, <2>2, <3>2 DEF Held
      <4> QED
        BY <1>a, <2>1, <2>4, <3>2, <4>1 DEF InUse, Gone
    <3> QED
      BY <2>3, <3>1, <3>2
  <2>7. Promise!Fill(e)
    BY <1>a, <2>1, <2>4, <2>5, <2>6 DEF Promise!Fill, InUse, Gone
  <2> QED
    BY <1>a, <2>7 DEF Promise!Next
<1>3. CASE Drop(e) \/ AllocationFails(e) \/ Insert(e)
  <2> DEFINE old == Current(e)
  <2>1. old \in Held /\ Held' = Held \ {old} /\ filled' = filled
    BY <1>3, ReleasedOne DEF Drop, AllocationFails, Insert, Goto
  <2>2. old \notin Waiting /\ old \in Buffer
    BY <1>3, <2>1, HeldApart, CurrentType DEF Exact, Drop, AllocationFails, Insert, Goto
  <2> HIDE DEF old
  <2>3. CASE Drop(e) \/ AllocationFails(e)
    <3>1. list' = list /\ Gone' = Gone \cup {old}
      BY <2>3 DEF Drop, AllocationFails, Gone, old
    <3>2. InUse' = InUse \ {old} /\ old \in InUse
      BY <1>a, <2>1, <2>2, <3>1 DEF InUse, Waiting, Listed
    <3> QED
      BY <1>a, <2>1, <3>1, <3>2, Discarded
  <2>4. CASE Insert(e)
    <3>1. list' = Append(list, old) /\ UNCHANGED <<freed, leaked>>
      BY <2>4 DEF Insert, ListInsert, old
    <3>2. Listed' = Listed \cup {old}
      BY <1>0, <2>2, <3>1, InAppend DEF Listed, In
    <3>3. InUse' = InUse /\ Gone' = Gone
      BY <1>a, <2>1, <3>1, <3>2 DEF InUse, Gone
    <3> QED
      BY <1>a, <2>1, <3>3, NotSeen
  <2> QED
    BY <1>3, <2>3, <2>4
<1> QED
  BY <1>1, <1>2, <1>3 DEF Encoder

LEMMA SenderPromise ==
  ASSUME TypeInv, Exact, Stopped, Sender
  PROVE  [Promise!Next]_(Promise!vars)
<1>0. list \in Seq(Buffer) /\ Listed = In(list) /\ Taken = In(sending)
      /\ Listed' = In(list') /\ Taken' = In(sending')
  BY DEF TypeInv, TypeOK, Listed, Taken, In
<1>a. UNCHANGED <<filled, leaked>> /\ Held' = Held /\ sender # "done"
  <2>1. UNCHANGED <<filled, leaked, pc>>
    BY DEF Sender, CreateList, SenderLoops, Pop, Send, TellEncoders, Join, JoinAll, Clear
  <2>2. sender # "done"
    BY NotDone DEF Next
  <2> QED
    BY <2>1, <2>2 DEF Held, Current
<1>o. Ahead \in Seq(Buffer) /\ Ordered(Ahead, sent)
      /\ (sender # "send" => Ahead = list)
  BY AheadType DEF Exact, Order
<1>1. CASE CreateList \/ SenderLoops \/ TellEncoders \/ Join \/ (Pop /\ list = <<>>)
  <2>1. UNCHANGED <<list, sending, freed, sent>> /\ sender' # "done"
    BY <1>1 DEF CreateList, SenderLoops, TellEncoders, Join, JoinAll, Pop, SenderGoes
  <2> QED
    BY <1>0, <1>a, <2>1, NotSeen DEF InUse, Gone
<1>2. CASE Pop /\ list # <<>>
  <2>1. sending = <<>> /\ sending' = <<Head(list)>> /\ list' = Tail(list)
        /\ UNCHANGED <<freed, sent>> /\ sender' # "done"
    BY <1>2 DEF Pop, SenderGoes, TypeInv, Taking
  <2>2. Head(list) \in Buffer
    BY <1>0, <1>2, HeadTailProperties
  <2>3. In(list) = In(list') \cup {Head(list)} /\ In(sending') = {Head(list)}
        /\ In(sending) = {}
    BY <1>0, <1>2, <2>1, <2>2, InTail, InOne
  <2>4. InUse' = InUse /\ Gone' = Gone
    BY <1>0, <1>a, <2>1, <2>3 DEF InUse, Gone
  <2> QED
    BY <1>a, <2>1, <2>4, NotSeen
<1>3. CASE Send
  <2>1. PICK b \in Buffer : sending = <<b>>
    BY <1>3 DEF Send, SenderGoes, TypeInv, Taking
  <2>2. /\ sending' = <<>> /\ freed' = freed \cup {b} /\ list' = list /\ sender' # "done"
        /\ sent' = [sent EXCEPT ![b.from] = b.num]
    BY <1>3, <2>1 DEF Send, SenderGoes
  <2>3. In(sending) = {b} /\ In(sending') = {}
    BY <2>1, <2>2, InOne
  <2>4. Ahead # <<>> /\ Head(Ahead) = b /\ Tail(Ahead) = list
    BY <1>0, <2>1, OneAhead DEF Ahead
  <2>5. b \notin In(list) /\ b \in Waiting
    BY <1>0, <1>o, <2>3, <2>4, HeadOnce DEF Waiting
  <2>6. b \notin Held
    BY <2>5, HeldApart DEF Exact
  <2>7. b.num > sent[b.from]
    <3>1. 1 \in 1..Len(Ahead) /\ Ahead[1] = b
      BY <1>o, <2>4
    <3> QED
      BY <1>o, <3>1 DEF Ordered
  <2>8. /\ b \in InUse /\ InUse' = InUse \ {b} /\ Gone' = Gone \cup {b}
        /\ (sender = "done") = (sender' = "done")
    BY <1>0, <1>a, <2>2, <2>3, <2>5, <2>6 DEF InUse, Gone
  <2>9. Promise!Deliver(b)
    BY <1>a, <2>2, <2>7, <2>8 DEF Promise!Deliver, Promise!GiveUp, InUse, Gone
  <2> QED
    BY <1>a, <2>8, <2>9 DEF Promise!Next, InUse
<1>4. CASE Clear /\ list # <<>>
  <2> DEFINE b == Head(list)
  <2>1. /\ sending' = sending /\ sending = <<>> /\ list' = Tail(list) /\ freed' = freed \cup {b}
        /\ sender # "send" /\ sender' # "done" /\ sent' = sent
    BY <1>4 DEF Clear, TypeInv, Taking
  <2>2. In(list) = In(list') \cup {b} /\ b \notin In(list')
    BY <1>0, <1>4, <1>o, <2>1, InTail, HeadOnce
  <2> HIDE DEF b
  <2>3. b \in Waiting /\ b \notin In(sending)
    BY <1>0, <2>1, <2>2, InOne DEF Waiting
  <2>4. b \notin Held
    BY <2>3, HeldApart DEF Exact
  <2>5. b \in InUse /\ InUse' = InUse \ {b} /\ Gone' = Gone \cup {b}
    BY <1>0, <1>a, <2>1, <2>2, <2>3, <2>4 DEF InUse, Gone
  <2> QED
    BY <1>a, <2>1, <2>5, Discarded
<1>5. CASE Clear /\ list = <<>>
  <2>1. /\ sender = "clear" /\ sender' = "done" /\ UNCHANGED <<list, freed, sending, sent>>
        /\ sending = <<>>
    BY <1>5 DEF Clear, TypeInv, Taking
  <2>2. InUse = {}
    BY <1>0, <1>5, <2>1, InOne DEF InUse, Stopped, Held
  <2>3. InUse' = InUse /\ Gone' = Gone
    BY <1>0, <1>a, <2>1 DEF InUse, Gone
  <2>4. Promise!End
    BY <1>a, <2>1, <2>2, <2>3 DEF Promise!End, InUse, Gone
  <2> QED
    BY <1>a, <2>4 DEF Promise!Next
<1> QED
  BY <1>1, <1>2, <1>3, <1>4, <1>5 DEF Sender

(***************************************************************************)
(* The queue and the threads around it implement LossyQueue, for any       *)
(* number of encoders and any size of the list: nothing is handed to RTMP  *)
(* that is not in use or not newer than what was, a buffer is given up     *)
(* once, and none is left when the stream has ended.                       *)
(***************************************************************************)
THEOREM Refines == Spec => ImplementsQueue
<1>1. Init => Promise!Init
  <2> SUFFICES ASSUME Init PROVE Promise!Init
    OBVIOUS
  <2>1. Held = {} /\ Listed = {} /\ Taken = {}
    BY DEF Init, Held, Listed, Taken
  <2> QED
    BY <2>1 DEF Init, Promise!Init
<1>2. TypeInv /\ Exact /\ Stopped /\ [Next]_vars => [Promise!Next]_(Promise!vars)
  <2> SUFFICES ASSUME TypeInv, Exact, Stopped, [Next]_vars
               PROVE  [Promise!Next]_(Promise!vars)
    OBVIOUS
  <2>1. CASE UNCHANGED vars
    BY <2>1 DEF vars, Promise!vars, Held, Listed, Taken, Current
  <2> QED
    BY <2>1, SenderPromise, EncoderPromise DEF Next
<1> QED
  BY <1>1, <1>2, TypeInductive, ExactAlways, CoveredAlways, PTL
  DEF Spec, ImplementsQueue, Promise!Spec
=============================================================================
