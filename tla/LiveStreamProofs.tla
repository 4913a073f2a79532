--------------------------- MODULE LiveStreamProofs ----------------------------
(***************************************************************************)
(* Proofs about module LiveStream, for every size of the list and every    *)
(* number of connections, parameter sets and requests.                     *)
(***************************************************************************)
EXTENDS LiveStream, SequenceTheorems, TLAPS

-----------------------------------------------------------------------------
(***************************************************************************)
(* The list.  Only a key picture has parameter sets and brings them.       *)
(***************************************************************************)
Proper == {p \in Packet : IF p.kind = "key" THEN p.params # 0 ELSE p.params = 0 /\ ~p.mspd}

QueueOK ==
  /\ queue \in Seq(Proper) /\ Len(queue) <= PackBufferSize + 1
  /\ ahead \in 0..Len(queue)

ModesOK ==
  /\ turn \in {"receive", "select", "alarm"} /\ overtaken \in BOOLEAN
  /\ open \in BOOLEAN /\ changed \in BOOLEAN
  /\ heard \in BOOLEAN /\ silent \in BOOLEAN /\ idle \in BOOLEAN
  /\ broken \in BOOLEAN /\ timedout \in BOOLEAN /\ dead \in BOOLEAN
  /\ fdlost \in BOOLEAN /\ watching \in BOOLEAN /\ stale \in BOOLEAN
  /\ key_send \in BOOLEAN /\ sendmeta \in BOOLEAN
  /\ state \in BOOLEAN /\ crashed \in BOOLEAN

NumbersOK ==
  /\ camera \in Params /\ latest \in Params \cup {0} /\ latest <= camera
  /\ rtmp \in 0..MaxPublishes
  /\ published \in 0..MaxPublishes /\ controls \in 0..MaxControls

ViewerOK ==
  /\ shown \in Params \cup {0}
  /\ last \in [params : Params \cup {0}, at : 0..MaxPublishes] \cup {None}
  /\ missed \subseteq Params

TypeInv == QueueOK /\ ModesOK /\ NumbersOK /\ ViewerOK

\* The packets are what the model says of them.
LEMMA TypeInvImplies == TypeInv => TypeOK
<1>1. Proper \subseteq Packet
  BY DEF Proper
<1>2. queue \in Seq(Proper) => queue \in Seq(Packet)
  BY <1>1
<1> QED
  BY <1>2 DEF TypeInv, QueueOK, ModesOK, NumbersOK, ViewerOK, TypeOK

-----------------------------------------------------------------------------
(***************************************************************************)
(* What a step does to the list: a frame is put behind the others, the     *)
(* first packet is taken, all are thrown away, or it stays.                *)
(***************************************************************************)
Comes(p) ==
  /\ p \in Proper /\ p.at = rtmp
  /\ Enqueue(p)


\* The first packet and the others.
LEMMA HeadTail ==
  ASSUME queue \in Seq(Proper), queue # <<>>
  PROVE  /\ Head(queue) \in Proper /\ Head(queue) = queue[1]
         /\ Len(queue) \in Nat \ {0}
         /\ Tail(queue) \in Seq(Proper) /\ Len(Tail(queue)) = Len(queue) - 1
         /\ \A i \in 1..(Len(queue) - 1) : Tail(queue)[i] = queue[i + 1]
OBVIOUS

\* A packet behind the others.
LEMMA Behind ==
  ASSUME queue \in Seq(Proper), NEW p \in Proper
  PROVE  /\ Append(queue, p) \in Seq(Proper)
         /\ Len(queue) \in Nat /\ Len(Append(queue, p)) = Len(queue) + 1
         /\ \A i \in 1..Len(queue) : Append(queue, p)[i] = queue[i]
         /\ Append(queue, p)[Len(queue) + 1] = p
OBVIOUS

\* The frames of the camera are proper packets.
LEMMA FramesProper ==
  ASSUME TypeInv
  PROVE  /\ KeyArrives => Comes([kind |-> "key", params |-> camera, mspd |-> WithParams,
                                 at |-> rtmp])
         /\ DeltaArrives \/ AudioArrives =>
              \E k \in {"delta", "audio"} :
                Comes([kind |-> k, params |-> 0, mspd |-> FALSE, at |-> rtmp])
<1> USE LiveAssumption DEF TypeInv, ModesOK, NumbersOK, Comes, Proper, Packet, Params
<1>1. [kind |-> "key", params |-> camera, mspd |-> WithParams, at |-> rtmp] \in Proper
  BY DEF WithParams
<1>2. \A k \in {"delta", "audio"} :
        [kind |-> k, params |-> 0, mspd |-> FALSE, at |-> rtmp] \in Proper
  OBVIOUS
<1>3. KeyArrives => Enqueue([kind |-> "key", params |-> camera, mspd |-> WithParams, at |-> rtmp])
  BY DEF KeyArrives
<1>4. DeltaArrives => Enqueue([kind |-> "delta", params |-> 0, mspd |-> FALSE, at |-> rtmp])
  BY DEF DeltaArrives
<1>5. AudioArrives => Enqueue([kind |-> "audio", params |-> 0, mspd |-> FALSE, at |-> rtmp])
  BY DEF AudioArrives
<1> QED
  BY <1>1, <1>2, <1>3, <1>4, <1>5

-----------------------------------------------------------------------------
(***************************************************************************)
(* Type correctness                                                        *)
(***************************************************************************)
\* The main loop's next turn.
LEMMA TurnType ==
  ASSUME TypeInv, Goes
  PROVE  turn' \in {"receive", "select", "alarm"}
BY DEF TypeInv, ModesOK, Goes

\* A frame that is queued or discarded.
LEMMA EnqueueType ==
  ASSUME TypeInv, NEW p, Comes(p)
  PROVE  /\ QueueOK' /\ rtmp' = rtmp /\ shown' = shown /\ last' = last
         /\ missed' \subseteq Params
         /\ broken' \in BOOLEAN /\ timedout' \in BOOLEAN /\ dead' \in BOOLEAN
         /\ fdlost' \in BOOLEAN /\ watching' \in BOOLEAN /\ stale' \in BOOLEAN
         /\ key_send' \in BOOLEAN /\ sendmeta' \in BOOLEAN
         /\ state' \in BOOLEAN /\ crashed' \in BOOLEAN /\ overtaken' \in BOOLEAN
<1> USE LiveAssumption
<1>1. QueueOK'
  <2>1. /\ Append(queue, p) \in Seq(Proper) /\ Len(queue) \in Nat
        /\ Len(Append(queue, p)) = Len(queue) + 1
    BY Behind DEF TypeInv, QueueOK, Comes
  <2> QED
    BY <2>1 DEF TypeInv, QueueOK, Comes, Enqueue, Full, SetHandler
<1>2. missed' \subseteq Params
  <2>1. p.mspd => p.params \in Params
    BY DEF Comes, Proper, Packet
  <2> QED
    BY <2>1 DEF TypeInv, ViewerOK, Comes, Enqueue
<1>3. fdlost' \in BOOLEAN /\ watching' \in BOOLEAN
  BY DEF TypeInv, ModesOK, Comes, Enqueue, SetHandler
<1> QED
  BY <1>1, <1>2, <1>3 DEF TypeInv, ModesOK, Comes, Enqueue, connection, sending

LEMMA FrameType ==
  ASSUME TypeInv, KeyArrives \/ DeltaArrives \/ AudioArrives
  PROVE  TypeInv'
<1>1. PICK p : Comes(p)
  BY FramesProper
<1>2. FrameArrives
  BY DEF KeyArrives, DeltaArrives, AudioArrives
<1>3. /\ changed' \in BOOLEAN /\ latest' = latest
  BY DEF TypeInv, ModesOK, KeyArrives, DeltaArrives, AudioArrives
<1>4. ModesOK'
  <2>1. turn' \in {"receive", "select", "alarm"} /\ open' = open
        /\ heard' = TRUE /\ silent' = FALSE /\ idle' = FALSE
    BY <1>2, TurnType DEF FrameArrives
  <2>2. /\ broken' \in BOOLEAN /\ timedout' \in BOOLEAN /\ dead' \in BOOLEAN
        /\ fdlost' \in BOOLEAN /\ watching' \in BOOLEAN /\ stale' \in BOOLEAN
        /\ key_send' \in BOOLEAN /\ sendmeta' \in BOOLEAN
        /\ state' \in BOOLEAN /\ crashed' \in BOOLEAN /\ overtaken' \in BOOLEAN
    BY <1>1, EnqueueType
  <2> QED
    BY <1>3, <2>1, <2>2 DEF TypeInv, ModesOK
<1>5. NumbersOK'
  BY <1>1, <1>2, <1>3, EnqueueType DEF TypeInv, NumbersOK, FrameArrives, counts
<1> QED
  BY <1>1, <1>4, <1>5, EnqueueType DEF TypeInv, ViewerOK

\* A packet is taken from the list.
LEMMA PopType ==
  ASSUME TypeInv, Pop
  PROVE  /\ QueueOK' /\ Head(queue) \in Proper /\ overtaken' \in BOOLEAN
         /\ turn' \in {"receive", "select", "alarm"}
         /\ Head(queue) = queue[1] /\ queue # <<>> /\ queue' = Tail(queue)
<1>1. queue \in Seq(Proper) /\ queue # <<>>
  BY DEF TypeInv, QueueOK, Pop
<1>2. /\ Head(queue) \in Proper /\ Len(queue) \in Nat \ {0}
      /\ Tail(queue) \in Seq(Proper) /\ Len(Tail(queue)) = Len(queue) - 1
  BY <1>1, HeadTail
<1> QED
  BY <1>1, <1>2, TurnType, HeadTail, LiveAssumption DEF TypeInv, QueueOK, ModesOK, Pop

LEMMA DequeueType ==
  ASSUME TypeInv, Dequeue
  PROVE  TypeInv'
<1> USE DEF source, times, connection, handler, sending, counts, viewer
<1>1. Pop
  BY DEF Dequeue, DequeueAhead, DequeueSkips, Crash, DequeueFails, DequeueSends
<1>2. Head(queue).mspd => Head(queue).params \in Params
  BY <1>1, PopType DEF Proper, Packet
<1>3. /\ Head(queue).params \in Params \cup {0} /\ Head(queue).at \in 0..MaxPublishes
      /\ Head(queue).mspd \in BOOLEAN
  BY <1>1, PopType DEF Proper, Packet
<1>4. ModesOK'
  <2>1. watching' \in BOOLEAN
    BY DEF Dequeue, DequeueAhead, DequeueSkips, Crash, DequeueFails, DequeueSends,
           DisableIfEmpty, Disable, TypeInv, ModesOK
  <2>2. /\ key_send' \in BOOLEAN /\ sendmeta' \in BOOLEAN /\ state' \in BOOLEAN
        /\ crashed' \in BOOLEAN /\ dead' \in BOOLEAN
    BY <1>3 DEF Dequeue, DequeueAhead, DequeueSkips, Crash, DequeueFails, DequeueSends,
           Waited, TypeInv, ModesOK
  <2>3. /\ UNCHANGED <<open, changed, heard, silent, idle, broken, timedout, fdlost, stale>>
    BY DEF Dequeue, DequeueAhead, DequeueSkips, Crash, DequeueFails, DequeueSends
  <2> QED
    BY <1>1, <2>1, <2>2, <2>3, PopType DEF TypeInv, ModesOK
<1>5. NumbersOK'
  BY DEF Dequeue, DequeueAhead, DequeueSkips, Crash, DequeueFails, DequeueSends, TypeInv, NumbersOK
<1>6. ViewerOK'
  <2>1. CASE DequeueAhead
    BY <2>1, <1>2 DEF DequeueAhead, TypeInv, ViewerOK
  <2>2. CASE DequeueSends
    BY <2>2, <1>2, <1>3 DEF DequeueSends, TypeInv, ViewerOK
  <2>3. CASE UNCHANGED viewer
    BY <2>3 DEF TypeInv, ViewerOK
  <2> QED
    BY <2>1, <2>2, <2>3 DEF Dequeue, DequeueSkips, Crash, DequeueFails
<1> QED
  BY <1>1, <1>4, <1>5, <1>6, PopType DEF TypeInv

\* What the sources come to.
LEMMA OpenedType ==
  ASSUME NEW v, NEW s \in Opened(v)
  PROVE  s[1] \in BOOLEAN /\ s[2] \in {0, v} /\ s[3] \in BOOLEAN
<1>1. \/ s = <<FALSE, 0, FALSE>> \/ s = <<TRUE, v, TRUE>>
      \/ s = <<TRUE, 0, TRUE>> \/ s = <<TRUE, 0, FALSE>>
  BY DEF Opened
<1>2. CASE s = <<FALSE, 0, FALSE>>
  BY <1>2
<1>3. CASE s = <<TRUE, v, TRUE>>
  BY <1>3
<1>4. CASE s = <<TRUE, 0, TRUE>>
  BY <1>4
<1>5. CASE s = <<TRUE, 0, FALSE>>
  BY <1>5
<1> QED
  BY <1>1, <1>2, <1>3, <1>4, <1>5

LEMMA SourceType ==
  ASSUME camera' \in Params, NewSource
  PROVE  /\ open' \in BOOLEAN /\ changed' \in BOOLEAN
         /\ latest' \in Params \cup {0} /\ latest' <= camera'
<1>1. camera' \in Nat
  BY DEF Params
<1>2. PICK s \in Opened(camera') : open' = s[1] /\ latest' = s[2] /\ changed' = s[3]
  BY DEF NewSource
<1>3. /\ s[1] \in BOOLEAN /\ s[3] \in BOOLEAN /\ s[2] \in {0, camera'}
  BY <1>2, OpenedType
<1> QED
  BY <1>1, <1>2, <1>3

LEMMA EmptyType ==
  ASSUME EmptyQueue
  PROVE  QueueOK'
BY LiveAssumption DEF EmptyQueue, QueueOK

LEMMA PublishType ==
  ASSUME TypeInv, Publish
  PROVE  TypeInv'
<1> USE DEF Publish
<1>1. QueueOK'
  BY EmptyType DEF PlayQueue
<1>2. camera' = camera /\ camera \in Params /\ camera' \in Params
  BY DEF TypeInv, NumbersOK
<1>3. /\ open' \in BOOLEAN /\ changed' \in BOOLEAN
      /\ latest' \in Params \cup {0} /\ latest' <= camera'
  BY <1>2, SourceType DEF TypeInv, ModesOK, NumbersOK
<1>4. fdlost' \in BOOLEAN /\ watching' \in BOOLEAN /\ stale' \in BOOLEAN
  BY DEF TypeInv, ModesOK, Reuses, handler
<1>5. ModesOK'
  BY <1>3, <1>4 DEF TypeInv, ModesOK
<1>6. NumbersOK'
  BY <1>2, <1>3, LiveAssumption DEF TypeInv, NumbersOK
<1>7. ViewerOK'
  BY DEF TypeInv, ViewerOK, NewViewer
<1> QED
  BY <1>1, <1>5, <1>6, <1>7 DEF TypeInv

LEMMA ControlType ==
  ASSUME TypeInv, SameLevel \/ SwitchLevel \/ Close
  PROVE  TypeInv'
<1> USE LiveAssumption
    DEF source, times, packets, connection, handler, sending, counts, viewer
<1>1. CASE SameLevel
  <2>1. QueueOK' /\ ViewerOK'
    BY <1>1 DEF SameLevel, TypeInv, QueueOK, ViewerOK
  <2>2. ModesOK'
    <3>1. /\ UNCHANGED <<turn, overtaken, open, changed, heard, silent, idle, broken, timedout,
                       dead, fdlost, watching, stale, key_send, state, crashed>>
          /\ sendmeta' = FALSE
      BY <1>1 DEF SameLevel
    <3>2. /\ turn' \in {"receive", "select", "alarm"} /\ overtaken' \in BOOLEAN
          /\ open' \in BOOLEAN /\ changed' \in BOOLEAN
          /\ heard' \in BOOLEAN /\ silent' \in BOOLEAN /\ idle' \in BOOLEAN
      BY <3>1 DEF TypeInv, ModesOK
    <3>3. /\ broken' \in BOOLEAN /\ timedout' \in BOOLEAN /\ dead' \in BOOLEAN
          /\ fdlost' \in BOOLEAN /\ watching' \in BOOLEAN /\ stale' \in BOOLEAN
      BY <3>1 DEF TypeInv, ModesOK
    <3>4. /\ key_send' \in BOOLEAN /\ sendmeta' \in BOOLEAN
          /\ state' \in BOOLEAN /\ crashed' \in BOOLEAN
      BY <3>1 DEF TypeInv, ModesOK
    <3> QED
      BY <3>2, <3>3, <3>4 DEF ModesOK
  <2>3. NumbersOK'
    BY <1>1 DEF SameLevel, TypeInv, NumbersOK
  <2> QED
    BY <2>1, <2>2, <2>3 DEF TypeInv
<1>2. CASE SwitchLevel
  <2>1. camera' \in Params
    BY <1>2 DEF SwitchLevel, TypeInv, NumbersOK, Params
  <2>2. QueueOK'
    BY <1>2, EmptyType DEF SwitchLevel
  <2>3. ModesOK'
    <3>1. /\ UNCHANGED <<turn, heard, silent, idle, broken, timedout, dead, fdlost, watching,
                       stale, key_send, crashed>>
          /\ sendmeta' = FALSE /\ state' = FALSE /\ overtaken' = (overtaken \/ dead)
      BY <1>2 DEF SwitchLevel
    <3>2. open' \in BOOLEAN /\ changed' \in BOOLEAN
      BY <1>2, <2>1, SourceType DEF SwitchLevel
    <3>3. /\ turn' \in {"receive", "select", "alarm"} /\ overtaken' \in BOOLEAN
          /\ open' \in BOOLEAN /\ changed' \in BOOLEAN
          /\ heard' \in BOOLEAN /\ silent' \in BOOLEAN /\ idle' \in BOOLEAN
      BY <3>1, <3>2 DEF TypeInv, ModesOK
    <3>4. /\ broken' \in BOOLEAN /\ timedout' \in BOOLEAN /\ dead' \in BOOLEAN
          /\ fdlost' \in BOOLEAN /\ watching' \in BOOLEAN /\ stale' \in BOOLEAN
      BY <3>1, <3>2 DEF TypeInv, ModesOK
    <3>5. /\ key_send' \in BOOLEAN /\ sendmeta' \in BOOLEAN
          /\ state' \in BOOLEAN /\ crashed' \in BOOLEAN
      BY <3>1, <3>2 DEF TypeInv, ModesOK
    <3> QED
      BY <3>3, <3>4, <3>5 DEF ModesOK
  <2>4. NumbersOK'
    BY <1>2, <2>1, SourceType DEF SwitchLevel, TypeInv, NumbersOK
  <2>5. ViewerOK'
    BY <1>2 DEF SwitchLevel, TypeInv, ViewerOK
  <2> QED
    BY <2>2, <2>3, <2>4, <2>5 DEF TypeInv
<1>3. CASE Close
  <2>1. QueueOK' /\ ViewerOK'
    BY <1>3 DEF Close, TypeInv, QueueOK, ViewerOK, NewViewer
  <2>2. ModesOK'
    <3>1. watching' \in BOOLEAN /\ stale' \in BOOLEAN
      BY <1>3 DEF Close, StopHandler, TypeInv, ModesOK
    <3>2. /\ turn' \in {"receive", "select", "alarm"} /\ state' \in BOOLEAN /\ sendmeta' \in BOOLEAN
          /\ broken' \in BOOLEAN /\ timedout' \in BOOLEAN /\ dead' \in BOOLEAN
      BY <1>3, TurnType DEF Close, TypeInv, ModesOK
    <3>3. UNCHANGED <<open, changed, heard, silent, idle, fdlost, key_send, crashed, overtaken>>
      BY <1>3 DEF Close
    <3> QED
      BY <3>1, <3>2, <3>3 DEF TypeInv, ModesOK
  <2>3. NumbersOK'
    BY <1>3 DEF Close, TypeInv, NumbersOK
  <2> QED
    BY <2>1, <2>2, <2>3 DEF TypeInv
<1> QED
  BY <1>1, <1>2, <1>3

\* What is no concern of the list and the viewer.
Elsewhere ==
  \/ CameraChanges \/ Stall \/ ClockBack \/ Break \/ ParamsArrive \/ SourceEnds
  \/ SelectFails \/ Proceed

LEMMA ElsewhereType ==
  ASSUME TypeInv, Elsewhere
  PROVE  TypeInv'
<1> USE LiveAssumption
    DEF source, times, packets, connection, handler, sending, counts, viewer
<1>1. CASE CameraChanges
  <2>1. QueueOK' /\ ViewerOK'
    BY <1>1 DEF CameraChanges, TypeInv, QueueOK, ViewerOK
  <2>2. ModesOK'
    BY <1>1 DEF CameraChanges, TypeInv, ModesOK
  <2>3. NumbersOK'
    BY <1>1 DEF CameraChanges, Params, TypeInv, NumbersOK
  <2> QED
    BY <2>1, <2>2, <2>3 DEF TypeInv
<1>2. CASE Stall
  <2>1. QueueOK' /\ ViewerOK'
    BY <1>2 DEF Stall, TypeInv, QueueOK, ViewerOK
  <2>2. ModesOK'
    BY <1>2 DEF Stall, TypeInv, ModesOK
  <2>3. NumbersOK'
    BY <1>2 DEF Stall, TypeInv, NumbersOK
  <2> QED
    BY <2>1, <2>2, <2>3 DEF TypeInv
<1>3. CASE ClockBack
  <2>1. QueueOK' /\ ViewerOK'
    BY <1>3 DEF ClockBack, TypeInv, QueueOK, ViewerOK
  <2>2. ModesOK'
    <3>1. /\ UNCHANGED <<turn, overtaken, open, changed, heard, broken, timedout, dead, fdlost,
                       watching, stale, key_send, sendmeta, state, crashed>>
          /\ idle' = FALSE /\ silent' = FALSE
      BY <1>3 DEF ClockBack
    <3>2. /\ turn' \in {"receive", "select", "alarm"} /\ overtaken' \in BOOLEAN
          /\ open' \in BOOLEAN /\ changed' \in BOOLEAN
          /\ heard' \in BOOLEAN /\ silent' \in BOOLEAN /\ idle' \in BOOLEAN
      BY <3>1 DEF TypeInv, ModesOK
    <3>3. /\ broken' \in BOOLEAN /\ timedout' \in BOOLEAN /\ dead' \in BOOLEAN
          /\ fdlost' \in BOOLEAN /\ watching' \in BOOLEAN /\ stale' \in BOOLEAN
      BY <3>1 DEF TypeInv, ModesOK
    <3>4. /\ key_send' \in BOOLEAN /\ sendmeta' \in BOOLEAN
          /\ state' \in BOOLEAN /\ crashed' \in BOOLEAN
      BY <3>1 DEF TypeInv, ModesOK
    <3> QED
      BY <3>2, <3>3, <3>4 DEF ModesOK
  <2>3. NumbersOK'
    BY <1>3 DEF ClockBack, TypeInv, NumbersOK
  <2> QED
    BY <2>1, <2>2, <2>3 DEF TypeInv
<1>4. CASE Break
  <2>1. QueueOK' /\ ViewerOK'
    BY <1>4 DEF Break, TypeInv, QueueOK, ViewerOK
  <2>2. ModesOK'
    BY <1>4 DEF Break, TypeInv, ModesOK
  <2>3. NumbersOK'
    BY <1>4 DEF Break, TypeInv, NumbersOK
  <2> QED
    BY <2>1, <2>2, <2>3 DEF TypeInv
<1>5. CASE ParamsArrive
  <2>1. QueueOK' /\ ViewerOK'
    BY <1>5 DEF ParamsArrive, FrameArrives, TypeInv, QueueOK, ViewerOK
  <2>2. ModesOK'
    BY <1>5, TurnType DEF ParamsArrive, FrameArrives, TypeInv, ModesOK
  <2>3. NumbersOK'
    BY <1>5 DEF ParamsArrive, FrameArrives, TypeInv, NumbersOK, Params
  <2> QED
    BY <2>1, <2>2, <2>3 DEF TypeInv
<1>6. CASE SourceEnds
  <2>1. QueueOK' /\ ViewerOK'
    BY <1>6 DEF SourceEnds, TypeInv, QueueOK, ViewerOK
  <2>2. ModesOK'
    <3>1. /\ UNCHANGED <<overtaken, changed, heard, silent, idle, broken, timedout, dead, fdlost,
                       watching, stale, key_send, sendmeta, crashed>>
          /\ open' = FALSE /\ state' \in {state, TRUE}
      BY <1>6 DEF SourceEnds
    <3>2. turn' \in {"receive", "select", "alarm"}
      BY <1>6, TurnType DEF SourceEnds
    <3>3. /\ turn' \in {"receive", "select", "alarm"} /\ overtaken' \in BOOLEAN
          /\ open' \in BOOLEAN /\ changed' \in BOOLEAN
          /\ heard' \in BOOLEAN /\ silent' \in BOOLEAN /\ idle' \in BOOLEAN
      BY <3>1, <3>2 DEF TypeInv, ModesOK
    <3>4. /\ broken' \in BOOLEAN /\ timedout' \in BOOLEAN /\ dead' \in BOOLEAN
          /\ fdlost' \in BOOLEAN /\ watching' \in BOOLEAN /\ stale' \in BOOLEAN
      BY <3>1, <3>2 DEF TypeInv, ModesOK
    <3>5. /\ key_send' \in BOOLEAN /\ sendmeta' \in BOOLEAN
          /\ state' \in BOOLEAN /\ crashed' \in BOOLEAN
      BY <3>1, <3>2 DEF TypeInv, ModesOK
    <3> QED
      BY <3>3, <3>4, <3>5 DEF ModesOK
  <2>3. NumbersOK'
    BY <1>6 DEF SourceEnds, TypeInv, NumbersOK
  <2> QED
    BY <2>1, <2>2, <2>3 DEF TypeInv
<1>7. CASE SelectFails
  <2>1. QueueOK' /\ ViewerOK'
    BY <1>7 DEF SelectFails, TypeInv, QueueOK, ViewerOK
  <2>2. ModesOK'
    BY <1>7, TurnType DEF SelectFails, TypeInv, ModesOK
  <2>3. NumbersOK'
    BY <1>7 DEF SelectFails, TypeInv, NumbersOK
  <2> QED
    BY <2>1, <2>2, <2>3 DEF TypeInv
<1>8. CASE Proceed
  <2>1. QueueOK' /\ ViewerOK'
    BY <1>8 DEF Proceed, TypeInv, QueueOK, ViewerOK
  <2>2. ModesOK'
    BY <1>8, TurnType DEF Proceed, TypeInv, ModesOK
  <2>3. NumbersOK'
    BY <1>8 DEF Proceed, TypeInv, NumbersOK
  <2> QED
    BY <2>1, <2>2, <2>3 DEF TypeInv
<1> QED
  BY <1>1, <1>2, <1>3, <1>4, <1>5, <1>6, <1>7, <1>8 DEF Elsewhere

LEMMA Steps ==
  ASSUME Next
  PROVE  \/ Elsewhere \/ Publish \/ SameLevel \/ SwitchLevel \/ Close
         \/ KeyArrives \/ DeltaArrives \/ AudioArrives \/ Dequeue
BY DEF Next, Loop, Elsewhere

LEMMA TypeInductive == Spec => []TypeInv
<1>1. Init => TypeInv
  <2> SUFFICES ASSUME Init PROVE TypeInv
    OBVIOUS
  <2> USE LiveAssumption DEF Init
  <2>1. QueueOK
    BY DEF QueueOK
  <2>2. camera \in Params /\ camera = 1
    BY DEF Params
  <2>3. open \in BOOLEAN /\ changed \in BOOLEAN /\ latest \in {0, 1}
    BY OpenedType
  <2>4. ModesOK
    BY <2>3 DEF ModesOK
  <2>5. NumbersOK
    BY <2>2, <2>3 DEF NumbersOK
  <2>6. ViewerOK
    BY DEF ViewerOK
  <2> QED
    BY <2>1, <2>4, <2>5, <2>6 DEF TypeInv
<1>2. TypeInv /\ [Next]_vars => TypeInv'
  <2> SUFFICES ASSUME TypeInv, [Next]_vars PROVE TypeInv'
    OBVIOUS
  <2>1. CASE UNCHANGED vars
    BY <2>1 DEF vars, source, times, packets, connection, handler, sending, counts, viewer,
                TypeInv, QueueOK, ModesOK, NumbersOK, ViewerOK
  <2> QED
    BY <2>1, Steps, FrameType, DequeueType, PublishType, ControlType, ElsewhereType
<1> QED
  BY <1>1, <1>2, PTL DEF Spec

\* The program's variables have their types, whatever the camera, the
\* platform and the network do: the list is never longer than the code lets it be.
THEOREM TypeCorrect == Spec => []TypeOK
BY TypeInductive, TypeInvImplies, PTL

-----------------------------------------------------------------------------
(***************************************************************************)
(* Live pictures only.  As long as there is a connection, the list holds   *)
(* nothing that was queued before it was made.                             *)
(***************************************************************************)
Since(l, r) == r # 0 => \A i \in 1..Len(l) : l[i].at = r

Asked == Since(queue, rtmp) /\ LiveOnly

LEMMA AskedInductive == Spec => []Asked
<1>1. Init => Asked
  BY DEF Init, Asked, Since, LiveOnly
<1>2. TypeInv /\ Asked /\ [Next]_vars => Asked'
  <2> SUFFICES ASSUME TypeInv, Asked, [Next]_vars PROVE Asked'
    OBVIOUS
  <2> USE DEF Asked, source, times, packets, connection, handler, sending, counts, viewer
  <2>1. CASE UNCHANGED vars
    BY <2>1 DEF vars, LiveOnly
  <2>2. CASE Elsewhere
    BY <2>2 DEF Elsewhere, CameraChanges, Stall, ClockBack, Break, ParamsArrive,
                SourceEnds, SelectFails, Proceed, LiveOnly
  <2>3. CASE Publish
    <3>1. queue' = <<>> /\ last' = None
      BY <2>3 DEF Publish, PlayQueue, EmptyQueue, NewViewer
    <3> QED
      BY <3>1 DEF Since, LiveOnly
  <2>4. CASE SameLevel
    BY <2>4 DEF SameLevel, LiveOnly
  <2>5. CASE SwitchLevel
    BY <2>5 DEF SwitchLevel, EmptyQueue, Since, LiveOnly
  <2>6. CASE Close
    BY <2>6 DEF Close, NewViewer, Since, LiveOnly
  <2>7. CASE KeyArrives \/ DeltaArrives \/ AudioArrives
    <3>1. PICK p : Comes(p)
      BY <2>7, FramesProper
    <3>2. rtmp' = rtmp /\ last' = last
      BY <3>1 DEF Comes, Enqueue
    <3>3. queue' = queue \/ queue' = Append(queue, p)
      BY <3>1 DEF Comes, Enqueue
    <3>4. Since(Append(queue, p), rtmp)
      BY <3>1, Behind DEF Comes, Since, TypeInv, QueueOK
    <3> QED
      BY <3>2, <3>3, <3>4 DEF LiveOnly
  <2>8. CASE Dequeue
    <3>1. Pop /\ rtmp' = rtmp
      BY <2>8 DEF Dequeue, DequeueAhead, DequeueSkips, Crash, DequeueFails, DequeueSends
    <3>2. Since(queue', rtmp)
      BY <3>1, PopType, HeadTail DEF Since, TypeInv, QueueOK
    <3>3. last' = last \/ (rtmp # 0 /\ last'.at = Head(queue).at)
      BY <2>8 DEF Dequeue, DequeueAhead, DequeueSkips, Crash, DequeueFails, DequeueSends
    <3>4. rtmp # 0 => Head(queue).at = rtmp
      BY <3>1, PopType, HeadTail DEF Since, TypeInv, QueueOK
    <3> QED
      BY <3>1, <3>2, <3>3, <3>4 DEF LiveOnly
  <2> QED
    BY <2>1, <2>2, <2>3, <2>4, <2>5, <2>6, <2>7, <2>8, Steps
<1> QED
  BY <1>1, <1>2, TypeInductive, PTL DEF Spec

\* Nothing is sent on a connection that was filmed before the platform asked
\* for it, though frames are queued all the time.
THEOREM OnlyLive == Spec => []LiveOnly
<1>1. Asked => LiveOnly
  BY DEF Asked
<1> QED
  BY <1>1, AskedInductive, PTL

-----------------------------------------------------------------------------
(***************************************************************************)
(* The handler.  A closed socket keeps its handler, or a closed one's is   *)
(* left over, only when a frame was queued or the level changed meanwhile; *)
(* otherwise the stream's state asks for the close before the next round.  *)
(***************************************************************************)
Watched ==
  /\ dead => rtmp # 0
  /\ rtmp = 0 /\ watching => overtaken
  /\ watching /\ fdlost => overtaken
  /\ crashed \/ stale => overtaken
  /\ dead /\ watching => overtaken \/ (state /\ turn \in {"alarm", "receive"})

ModesBoolean ==
  /\ dead \in BOOLEAN /\ watching \in BOOLEAN /\ fdlost \in BOOLEAN /\ stale \in BOOLEAN
  /\ state \in BOOLEAN /\ crashed \in BOOLEAN /\ overtaken \in BOOLEAN

LEMMA BooleanModes ==
  ASSUME TypeInv PROVE ModesBoolean
BY DEF TypeInv, ModesOK, ModesBoolean

LEMMA WatchedFrame ==
  ASSUME TypeInv, Watched, KeyArrives \/ DeltaArrives \/ AudioArrives
  PROVE  Watched'
<1>1. PICK p : Comes(p)
  BY FramesProper
<1>2. FrameArrives
  BY DEF KeyArrives, DeltaArrives, AudioArrives
<1>3. /\ UNCHANGED <<rtmp, dead, crashed, stale, state>>
      /\ overtaken' = (overtaken \/ (dead /\ watching /\ ~Full))
  BY <1>1 DEF Comes, Enqueue, connection, sending
<1>4. \/ UNCHANGED <<fdlost, watching>>
      \/ ~Full /\ rtmp # 0 /\ fdlost' = dead /\ watching' = (watching \/ ~dead)
  BY <1>1 DEF Comes, Enqueue, SetHandler
<1>5. \/ turn = "select" /\ turn' = "alarm"
      \/ turn = "alarm" /\ turn' = "receive"
  BY <1>2 DEF FrameArrives, At, Goes
<1>6. ModesBoolean
  BY BooleanModes
<1> QED
  BY <1>3, <1>4, <1>5, <1>6 DEF Watched, ModesBoolean

LEMMA WatchedDequeue ==
  ASSUME TypeInv, Watched, Dequeue
  PROVE  Watched'
<1> USE DEF connection, handler, sending
<1>1. Pop
  BY DEF Dequeue, DequeueAhead, DequeueSkips, Crash, DequeueFails, DequeueSends
<1>2. /\ turn = "select" /\ turn' = "alarm" /\ overtaken' = overtaken
      /\ watching \/ stale
  BY <1>1 DEF Pop, At, Goes
<1>3. /\ UNCHANGED <<rtmp, fdlost, stale>>
      /\ watching' => watching
      /\ state => state'
  <2>1. UNCHANGED <<rtmp, fdlost, stale>>
    BY DEF Dequeue, DequeueAhead, DequeueSkips, Crash, DequeueFails, DequeueSends
  <2>2. watching' => watching
    BY DEF Dequeue, DequeueAhead, DequeueSkips, Crash, DequeueFails, DequeueSends,
           DisableIfEmpty, Disable
  <2>3. state => state'
    BY DEF Dequeue, DequeueAhead, DequeueSkips, Crash, DequeueFails, DequeueSends, Waited
  <2> QED
    BY <2>1, <2>2, <2>3
<1>4. \/ overtaken
      \/ crashed' = crashed /\ dead' = dead
      \/ crashed' = crashed /\ state'
  <2>1. CASE DequeueAhead \/ DequeueSkips \/ DequeueSends
    BY <2>1 DEF DequeueAhead, DequeueSkips, DequeueSends
  <2>2. CASE Crash
    BY <1>2, <2>2 DEF Crash, Watched
  <2>3. CASE DequeueFails
    BY <2>3 DEF DequeueFails
  <2> QED
    BY <2>1, <2>2, <2>3 DEF Dequeue
<1>5. dead' => rtmp # 0
  BY DEF Dequeue, DequeueAhead, DequeueSkips, Crash, DequeueFails, DequeueSends, Watched
<1> USE BooleanModes DEF ModesBoolean
<1>6. (crashed' \/ stale' => overtaken') /\ (rtmp' = 0 /\ watching' => overtaken')
  BY <1>2, <1>3, <1>4 DEF Watched
<1>7. (watching' /\ fdlost' => overtaken') /\ (dead' => rtmp' # 0)
  BY <1>2, <1>3, <1>5 DEF Watched
<1>8. dead' /\ watching' => overtaken' \/ state'
  BY <1>2, <1>3, <1>4 DEF Watched
<1> QED
  BY <1>2, <1>6, <1>7, <1>8 DEF Watched

LEMMA WatchedRequest ==
  ASSUME TypeInv, Watched, Publish \/ SameLevel \/ SwitchLevel \/ Close
  PROVE  Watched'
<1> USE DEF connection, handler, sending
<1>1. CASE Publish
  BY <1>1 DEF Publish, Reuses, Watched, At
<1>2. CASE SameLevel
  BY <1>2 DEF SameLevel, Watched, At
<1>3. CASE SwitchLevel
  BY <1>3 DEF SwitchLevel, Watched, At
<1>4. CASE Close
  BY <1>4 DEF Close, StopHandler, Watched, At
<1> QED
  BY <1>1, <1>2, <1>3, <1>4

LEMMA WatchedElsewhere ==
  ASSUME TypeInv, Watched, Elsewhere
  PROVE  Watched'
<1> USE DEF connection, handler, sending
<1>1. CASE CameraChanges \/ Stall \/ ClockBack \/ Break
  <2>1. UNCHANGED <<turn, overtaken, rtmp, dead, fdlost, watching, stale, state, crashed>>
    BY <1>1 DEF CameraChanges, Stall, ClockBack, Break
  <2> QED
    BY <2>1, BooleanModes DEF Watched, ModesBoolean
<1>2. CASE ParamsArrive \/ SourceEnds
  <2>1. \/ turn = "select" /\ turn' = "alarm"
        \/ turn = "alarm" /\ turn' = "receive"
    <3>1. Goes /\ (At("select") \/ At("alarm"))
      BY <1>2 DEF ParamsArrive, FrameArrives, SourceEnds
    <3> QED
      BY <3>1 DEF At, Goes
  <2>2. /\ UNCHANGED <<overtaken, rtmp, dead, fdlost, watching, stale, crashed>>
        /\ state' \in {state, TRUE}
    BY <1>2 DEF ParamsArrive, SourceEnds
  <2> QED
    BY <2>1, <2>2, BooleanModes DEF Watched, ModesBoolean
<1>3. CASE SelectFails
  BY <1>3 DEF SelectFails, Watched, At, Goes
<1>4. CASE Proceed
  <2>1. turn \in {"receive", "select", "alarm"}
    BY DEF TypeInv, ModesOK
  <2> QED
    BY <1>4, <2>1 DEF Proceed, NeedsClose, Watched, Goes
<1> QED
  BY <1>1, <1>2, <1>3, <1>4 DEF Elsewhere

\* A lost connection does not bring the program down, unless a frame is queued or
\* the level changed between the failed send and the close of the stream.
THEOREM SafeHandler == Spec => []HandlerSafe
<1>1. Init => Watched
  BY DEF Init, Watched
<1>2. TypeInv /\ Watched /\ [Next]_vars => Watched'
  <2>1. UNCHANGED vars /\ Watched => Watched'
    BY DEF vars, connection, handler, sending, Watched
  <2> QED
    BY <2>1, Steps, WatchedFrame, WatchedDequeue, WatchedRequest, WatchedElsewhere
<1>3. Watched => HandlerSafe
  BY DEF Watched, HandlerSafe
<1> QED
  BY <1>1, <1>2, <1>3, TypeInductive, PTL DEF Spec

-----------------------------------------------------------------------------
(***************************************************************************)
(* Decodable pictures.  A player that has taken the first n packets has    *)
(* been given the parameter sets v, unless they were missed: they are the  *)
(* ones shown, and no other come before; or one of the packets brings      *)
(* them, and none after it brings others.                                  *)
(***************************************************************************)
Supplied(v, n, l, s, m) ==
  \/ v \in m
  \/ s = v /\ \A k \in 1..n : l[k].mspd => l[k].params = v
  \/ \E j \in 1..n : l[j].mspd /\ \A k \in j..n : l[k].mspd => l[k].params = v

KeysSupplied(l, s, m) ==
  \A i \in 1..Len(l) : l[i].kind = "key" => Supplied(l[i].params, i, l, s, m)

Announced(l) == \E i \in 1..Len(l) : l[i].mspd

\* A packet that needs what was sent before.
Rests(l) == \E i \in 1..Len(l) : l[i].kind # "delta" /\ ~l[i].mspd

Alive == rtmp # 0 /\ ~broken /\ ~dead

Supply ==
  /\ Decodable
  /\ Alive => KeysSupplied(queue, shown, missed)
  /\ Alive /\ (sendmeta \/ Announced(queue)) /\ ~changed /\ latest = camera =>
       Supplied(camera, Len(queue), queue, shown, missed)
  /\ Alive /\ (sendmeta \/ key_send \/ Rests(queue)) => shown # 0 \/ missed # {}

\* A packet behind the others takes nothing away.
LEMMA SuppliedMore ==
  ASSUME NEW l \in Seq(Proper), NEW p \in Proper, NEW s, NEW m, NEW v, NEW n \in 0..Len(l),
         Supplied(v, n, l, s, m)
  PROVE  Supplied(v, n, Append(l, p), s, m)
<1>1. Len(l) \in Nat /\ \A i \in 1..Len(l) : Append(l, p)[i] = l[i]
  OBVIOUS
<1>2. \A i \in 1..n : Append(l, p)[i] = l[i]
  BY <1>1
<1>3. CASE v \in m
  BY <1>3 DEF Supplied
<1>4. CASE s = v /\ \A k \in 1..n : l[k].mspd => l[k].params = v
  BY <1>2, <1>4 DEF Supplied
<1>5. ASSUME NEW j \in 1..n, l[j].mspd, \A k \in j..n : l[k].mspd => l[k].params = v
      PROVE  Supplied(v, n, Append(l, p), s, m)
  <2>1. Append(l, p)[j].mspd
    BY <1>2, <1>5
  <2>2. \A k \in j..n : k \in 1..n
    OBVIOUS
  <2>3. \A k \in j..n : Append(l, p)[k].mspd => Append(l, p)[k].params = v
    BY <1>2, <1>5, <2>2
  <2> QED
    BY <2>1, <2>3 DEF Supplied
<1> QED
  BY <1>3, <1>4, <1>5 DEF Supplied

\* A packet that brings nothing, or the same, changes nothing.
LEMMA SuppliedLonger ==
  ASSUME NEW l \in Seq(Proper), NEW p \in Proper, NEW s, NEW m, NEW v,
         p.mspd => p.params = v, p.mspd \/ Supplied(v, Len(l), l, s, m)
  PROVE  Supplied(v, Len(l) + 1, Append(l, p), s, m)
<1>1. /\ Len(l) \in Nat /\ \A i \in 1..Len(l) : Append(l, p)[i] = l[i]
      /\ Append(l, p)[Len(l) + 1] = p
  OBVIOUS
<1> DEFINE n == Len(l)
           k == Append(l, p)
<1>2. n \in Nat /\ k[n + 1] = p
  BY <1>1
<1> HIDE DEF n, k
<1>3. CASE p.mspd
  <2>1. n + 1 \in 1..(n + 1) /\ k[n + 1].mspd
    BY <1>2, <1>3
  <2>2. \A i \in (n + 1)..(n + 1) : k[i].mspd => k[i].params = v
    BY <1>2
  <2> QED
    BY <2>1, <2>2 DEF Supplied, n, k
<1>4. CASE ~p.mspd
  <2>1. Supplied(v, n, k, s, m)
    BY <1>1, <1>4, SuppliedMore DEF n, k
  <2>2. CASE v \in m
    BY <2>2 DEF Supplied
  <2>3. CASE s = v /\ \A i \in 1..n : k[i].mspd => k[i].params = v
    <3>1. \A i \in 1..(n + 1) : k[i].mspd => k[i].params = v
      BY <1>2, <1>4, <2>3
    <3> QED
      BY <2>3, <3>1 DEF Supplied, n, k
  <2>4. ASSUME NEW j \in 1..n, k[j].mspd, \A i \in j..n : k[i].mspd => k[i].params = v
        PROVE  Supplied(v, n + 1, k, s, m)
    <3>1. \A i \in j..(n + 1) : k[i].mspd => k[i].params = v
      BY <1>2, <1>4, <2>4
    <3>2. j \in 1..(n + 1)
      BY <1>2
    <3> QED
      BY <2>4, <3>1, <3>2 DEF Supplied
  <2> QED
    BY <2>1, <2>2, <2>3, <2>4 DEF Supplied, n, k
<1> QED
  BY <1>3, <1>4

\* The first packet is taken: what it brings is shown or missed.
LEMMA SuppliedTail ==
  ASSUME NEW l \in Seq(Proper), l # <<>>, NEW s, NEW m, NEW t, NEW q, NEW v,
         NEW n \in 1..Len(l), Supplied(v, n, l, s, m), m \subseteq q,
         l[1].mspd => t = l[1].params \/ (t = s /\ l[1].params \in q),
         ~l[1].mspd => t = s
  PROVE  Supplied(v, n - 1, Tail(l), t, q)
<1> DEFINE k == Tail(l)
<1>1. /\ Len(l) \in Nat \ {0} /\ \A i \in 1..(Len(l) - 1) : k[i] = l[i + 1]
  OBVIOUS
<1>2. /\ n \in Nat /\ \A i \in 1..(n - 1) : k[i] = l[i + 1]
  BY <1>1
<1> HIDE DEF k
<1>3. CASE v \in m
  BY <1>3 DEF Supplied
<1>4. CASE s = v /\ \A i \in 1..n : l[i].mspd => l[i].params = v
  <2>1. \A i \in 1..(n - 1) : k[i].mspd => k[i].params = v
    BY <1>2, <1>4
  <2>2. t = v
    BY <1>2, <1>4
  <2> QED
    BY <2>1, <2>2 DEF Supplied, k
<1>5. ASSUME NEW j \in 1..n, l[j].mspd, \A i \in j..n : l[i].mspd => l[i].params = v
      PROVE  Supplied(v, n - 1, k, t, q)
  <2>1. CASE j = 1
    <3>1. l[1].params = v
      BY <1>2, <1>5, <2>1
    <3>2. \A i \in 1..(n - 1) : k[i].mspd => k[i].params = v
      BY <1>2, <1>5, <2>1
    <3> QED
      BY <1>5, <2>1, <3>1, <3>2 DEF Supplied
  <2>2. CASE j # 1
    <3>1. j - 1 \in 1..(n - 1) /\ k[j - 1].mspd
      BY <1>2, <1>5, <2>2
    <3>2. \A i \in (j - 1)..(n - 1) : k[i].mspd => k[i].params = v
      BY <1>2, <1>5, <2>2
    <3> QED
      BY <3>1, <3>2 DEF Supplied
  <2> QED
    BY <2>1, <2>2
<1> QED
  BY <1>3, <1>4, <1>5 DEF Supplied, k

\* What the packets that stay need, when one has been taken.
LEMMA RestSupplied ==
  ASSUME NEW l \in Seq(Proper), l # <<>>, NEW s, NEW m, NEW t, NEW q, m \subseteq q,
         l[1].mspd => t = l[1].params \/ (t = s /\ l[1].params \in q),
         ~l[1].mspd => t = s
  PROVE  /\ KeysSupplied(l, s, m) => KeysSupplied(Tail(l), t, q)
         /\ \A v : Supplied(v, Len(l), l, s, m) => Supplied(v, Len(Tail(l)), Tail(l), t, q)
         /\ Announced(Tail(l)) => Announced(l)
         /\ Rests(Tail(l)) => Rests(l)
<1>1. /\ Len(l) \in Nat \ {0} /\ Len(Tail(l)) = Len(l) - 1
      /\ \A i \in 1..(Len(l) - 1) : Tail(l)[i] = l[i + 1]
  OBVIOUS
<1>2. \A i \in 1..Len(Tail(l)) : i + 1 \in 1..Len(l) /\ Tail(l)[i] = l[i + 1]
  BY <1>1
<1>3. \A v : \A n \in 1..Len(l) :
        Supplied(v, n, l, s, m) => Supplied(v, n - 1, Tail(l), t, q)
  BY SuppliedTail
<1>4. ASSUME KeysSupplied(l, s, m) PROVE KeysSupplied(Tail(l), t, q)
  <2> SUFFICES ASSUME NEW i \in 1..Len(Tail(l)), Tail(l)[i].kind = "key"
               PROVE  Supplied(Tail(l)[i].params, i, Tail(l), t, q)
    BY DEF KeysSupplied
  <2>1. Supplied(l[i + 1].params, i + 1, l, s, m)
    BY <1>2, <1>4 DEF KeysSupplied
  <2>2. (i + 1) - 1 = i
    OBVIOUS
  <2>3. Supplied(l[i + 1].params, (i + 1) - 1, Tail(l), t, q)
    BY <1>2, <1>3, <2>1
  <2> QED
    BY <1>2, <2>2, <2>3
<1>5. \A v : Supplied(v, Len(l), l, s, m) => Supplied(v, Len(Tail(l)), Tail(l), t, q)
  BY <1>1, <1>3
<1>6. Announced(Tail(l)) => Announced(l)
  BY <1>2 DEF Announced
<1>7. Rests(Tail(l)) => Rests(l)
  BY <1>2 DEF Rests
<1> QED
  BY <1>4, <1>5, <1>6, <1>7

\* A frame is queued, or discarded while the list is full.
LEMMA SupplyFrame ==
  ASSUME TypeInv, Supply, KeyArrives \/ DeltaArrives \/ AudioArrives
  PROVE  Supply'
<1>1. PICK p : /\ Comes(p)
               /\ p.kind = "key" => latest = camera /\ p.params = camera /\ changed' = FALSE
                                    /\ (p.mspd <=> changed \/ ~sendmeta)
               /\ p.kind # "key" => changed' = changed
               /\ p.kind = "audio" => sendmeta
  <2>1. CASE KeyArrives
    <3> DEFINE k == [kind |-> "key", params |-> camera, mspd |-> WithParams, at |-> rtmp]
    <3>1. Comes(k)
      BY <2>1, FramesProper
    <3>2. k.kind = "key" /\ k.params = camera /\ k.mspd = (changed \/ ~sendmeta)
      BY DEF WithParams
    <3>3. latest = camera /\ changed' = FALSE
      BY <2>1 DEF KeyArrives
    <3> HIDE DEF k
    <3> QED
      BY <3>1, <3>2, <3>3
  <2>2. CASE DeltaArrives
    <3>1. Comes([kind |-> "delta", params |-> 0, mspd |-> FALSE, at |-> rtmp])
      BY <2>2, LiveAssumption DEF Comes, DeltaArrives, TypeInv, NumbersOK, Proper, Packet
    <3> QED
      BY <2>2, <3>1 DEF DeltaArrives
  <2>3. CASE AudioArrives
    <3>1. Comes([kind |-> "audio", params |-> 0, mspd |-> FALSE, at |-> rtmp])
      BY <2>3, LiveAssumption DEF Comes, AudioArrives, TypeInv, NumbersOK, Proper, Packet
    <3> QED
      BY <2>3, <3>1 DEF AudioArrives
  <2> QED
    BY <2>1, <2>2, <2>3
<1>2. latest' = latest /\ camera' = camera
  BY DEF KeyArrives, DeltaArrives, AudioArrives, FrameArrives
<1>3. /\ UNCHANGED <<rtmp, broken, dead, sendmeta, key_send, shown, last>>
      /\ Alive' <=> Alive
  BY <1>1 DEF Comes, Enqueue, connection, sending, Alive
<1>4. /\ p \in Proper /\ p.kind \in {"key", "delta", "audio"}
      /\ p.mspd \in BOOLEAN /\ (p.mspd => p.kind = "key")
  BY <1>1 DEF Comes, Proper, Packet
<1>5. /\ queue \in Seq(Proper) /\ changed \in BOOLEAN /\ sendmeta \in BOOLEAN
  BY DEF TypeInv, QueueOK, ModesOK
<1>6. CASE Full
  <2>1. queue' = queue /\ missed' = missed \cup {v \in {p.params} : p.mspd}
    BY <1>1, <1>6 DEF Comes, Enqueue
  <2>2. missed \subseteq missed' /\ (p.mspd => p.params \in missed')
    BY <2>1
  <2>3. \A v, n : Supplied(v, n, queue, shown, missed) => Supplied(v, n, queue, shown, missed')
    BY <2>2 DEF Supplied
  <2>4. Decodable'
    BY <1>3, <2>2 DEF Supply, Decodable
  <2>5. Alive' => KeysSupplied(queue', shown', missed')
    BY <1>3, <2>1, <2>3 DEF Supply, KeysSupplied
  <2>6. Alive /\ (sendmeta \/ Announced(queue)) /\ ~changed' /\ latest = camera =>
          Supplied(camera, Len(queue), queue, shown, missed')
    <3>1. CASE p.kind = "key" /\ p.mspd
      BY <1>1, <2>2, <3>1 DEF Supplied
    <3>2. CASE ~(p.kind = "key" /\ p.mspd)
      BY <1>1, <1>4, <1>5, <2>3, <3>2 DEF Supply
    <3> QED
      BY <3>1, <3>2
  <2> QED
    BY <1>2, <1>3, <2>1, <2>4, <2>5, <2>6 DEF Supply
<1>7. CASE ~Full
  <2>1. queue' = Append(queue, p) /\ missed' = missed
    BY <1>1, <1>7 DEF Comes, Enqueue
  <2>2. /\ Len(queue) \in Nat /\ Len(queue') = Len(queue) + 1
        /\ \A i \in 1..Len(queue) : queue'[i] = queue[i]
        /\ queue'[Len(queue) + 1] = p
    BY <1>4, <1>5, <2>1, Behind
  <2>3. Decodable'
    BY <1>3, <2>1 DEF Supply, Decodable
  <2>4. ASSUME Alive, (sendmeta \/ Announced(queue')) /\ ~changed' /\ latest = camera
        PROVE  Supplied(camera, Len(queue'), queue', shown, missed)
    <3>1. p.mspd => p.params = camera
      BY <1>1, <1>4
    <3>2. p.mspd \/ Supplied(camera, Len(queue), queue, shown, missed)
      <4>1. CASE p.mspd
        BY <4>1
      <4>2. CASE ~p.mspd
        <5>1. ~changed
          BY <1>1, <1>4, <2>4, <4>2
        <5>2. Announced(queue') => Announced(queue)
          BY <2>2, <4>2 DEF Announced
        <5> QED
          BY <2>4, <5>1, <5>2 DEF Supply
      <4> QED
        BY <4>1, <4>2
    <3> QED
      BY <1>4, <1>5, <2>1, <2>2, <3>1, <3>2, SuppliedLonger
  <2>5. ASSUME Alive PROVE KeysSupplied(queue', shown, missed)
    <3> SUFFICES ASSUME NEW i \in 1..Len(queue'), queue'[i].kind = "key"
                 PROVE  Supplied(queue'[i].params, i, queue', shown, missed)
      BY DEF KeysSupplied
    <3>1. CASE i \in 1..Len(queue)
      <4>1. Supplied(queue[i].params, i, queue, shown, missed)
        BY <2>2, <2>5, <3>1 DEF Supply, KeysSupplied
      <4>2. i \in 0..Len(queue)
        BY <2>2, <3>1
      <4> QED
        BY <1>4, <1>5, <2>1, <2>2, <3>1, <4>1, <4>2, SuppliedMore
    <3>2. CASE i = Len(queue) + 1
      <4>1. p.kind = "key" /\ latest = camera /\ p.params = camera /\ ~changed'
        BY <1>1, <2>2, <3>2
      <4>2. sendmeta \/ Announced(queue')
        BY <1>1, <2>2, <4>1 DEF Announced
      <4> QED
        BY <2>2, <2>4, <2>5, <3>2, <4>1, <4>2
    <3> QED
      BY <2>2, <3>1, <3>2
  <2>6. ASSUME Alive, sendmeta \/ key_send \/ Rests(queue') PROVE shown # 0 \/ missed # {}
    <3>1. Rests(queue') => sendmeta \/ Rests(queue)
      <4>1. p.kind # "delta" /\ ~p.mspd => sendmeta
        BY <1>1, <1>4
      <4> QED
        BY <2>2, <4>1 DEF Rests
    <3> QED
      BY <2>6, <3>1 DEF Supply
  <2> QED
    BY <1>2, <1>3, <2>1, <2>3, <2>4, <2>5, <2>6 DEF Supply
<1> QED
  BY <1>6, <1>7

\* A packet is taken and dropped, skipped, sent, or cannot be sent.
LEMMA SupplyDequeue ==
  ASSUME TypeInv, Supply, Dequeue
  PROVE  Supply'
<1> USE DEF source, connection, handler, sending, viewer
<1>1. Pop
  BY DEF Dequeue, DequeueAhead, DequeueSkips, Crash, DequeueFails, DequeueSends
<1> DEFINE p == Head(queue)
<1>2. /\ p \in Proper /\ p = queue[1] /\ queue # <<>> /\ queue' = Tail(queue)
      /\ queue \in Seq(Proper)
  BY <1>1, PopType DEF TypeInv, QueueOK
<1>3. /\ p.mspd \in BOOLEAN /\ (p.mspd => p.kind = "key") /\ (p.kind = "key" => p.params # 0)
      /\ (p.kind # "key" => p.params = 0) /\ p.params # -1
      /\ p.params \in Params \cup {0} /\ p.kind \in {"key", "delta", "audio"}
  BY <1>2, LiveAssumption DEF Proper, Packet, Params
<1>4. 1 \in 1..Len(queue)
  BY <1>2
<1> HIDE DEF p
<1>5. UNCHANGED <<latest, camera, changed, rtmp, broken>>
  BY DEF Dequeue, DequeueAhead, DequeueSkips, Crash, DequeueFails, DequeueSends
<1>6. CASE Crash \/ DequeueFails
  <2>1. ~Alive' /\ UNCHANGED <<last, shown, missed>>
    <3>1. CASE Crash
      BY <3>1 DEF Crash, Alive
    <3>2. CASE DequeueFails
      <4>1. /\ rtmp = 0 \/ broken \/ dead
            /\ dead' = dead \/ dead' = (rtmp # 0)
        BY <3>2 DEF DequeueFails
      <4>2. ~Alive'
        BY <1>5, <4>1 DEF Alive
      <4> QED
        BY <3>2, <4>2 DEF DequeueFails
    <3> QED
      BY <1>6, <3>1, <3>2
  <2> QED
    BY <2>1 DEF Supply, Decodable
<1>7. CASE DequeueAhead \/ DequeueSkips \/ DequeueSends
  <2>1. (Alive' <=> Alive) /\ (DequeueSends => Alive)
    BY <1>5, <1>7 DEF DequeueAhead, DequeueSkips, DequeueSends, Alive
  <2>2. missed \subseteq missed'
    BY <1>7 DEF DequeueAhead, DequeueSkips, DequeueSends
  <2>3. /\ p.mspd => shown' = p.params \/ (shown' = shown /\ p.params \in missed')
        /\ ~p.mspd => shown' = shown
    <3>1. CASE DequeueAhead
      BY <3>1 DEF DequeueAhead, p
    <3>2. CASE DequeueSkips
      BY <1>3, <3>2 DEF DequeueSkips, p
    <3>3. CASE DequeueSends
      BY <3>3 DEF DequeueSends, p
    <3> QED
      BY <1>7, <3>1, <3>2, <3>3
  <2>4. /\ KeysSupplied(queue, shown, missed) => KeysSupplied(queue', shown', missed')
        /\ \A v : Supplied(v, Len(queue), queue, shown, missed) =>
                   Supplied(v, Len(queue'), queue', shown', missed')
        /\ Announced(queue') => Announced(queue)
        /\ Rests(queue') => Rests(queue)
    BY <1>2, <2>2, <2>3, RestSupplied
  <2>5. /\ sendmeta' => sendmeta \/ (DequeueSends /\ p.mspd)
        /\ key_send' => key_send \/ (DequeueSends /\ p.kind = "key")
    <3>1. CASE DequeueAhead \/ DequeueSkips
      BY <3>1 DEF DequeueAhead, DequeueSkips
    <3>2. CASE DequeueSends
      <4>1. /\ key_send' = (key_send \/ p.kind = "key")
            /\ sendmeta' = (sendmeta \/ p.mspd)
        BY <3>2 DEF DequeueSends, p
      <4> QED
        BY <3>2, <4>1
    <3> QED
      BY <1>7, <3>1, <3>2
  <2>6. DequeueSends => /\ \/ shown' = (IF p.mspd THEN p.params ELSE shown) /\ missed' = missed
                           \/ p.mspd /\ p.params \in missed' /\ shown' = shown
                        /\ last' = [params |-> p.params, at |-> p.at]
                        /\ p.kind = "key" \/ (p.kind = "delta" /\ key_send) \/ p.kind = "audio"
    BY DEF DequeueSends, p, Begins
  <2>7. ~DequeueSends => shown' = shown /\ last' = last
    BY <1>7 DEF DequeueAhead, DequeueSkips
  <2>8. p.mspd => Announced(queue)
    BY <1>2, <1>4 DEF Announced
  <2>9. p.kind # "delta" /\ ~p.mspd => Rests(queue)
    BY <1>2, <1>4 DEF Rests
  <2>10. DequeueSends => shown' # 0 \/ missed' # {}
    <3>1. DequeueSends /\ p.mspd => shown' # 0 \/ missed' # {}
      BY <1>3, <2>6
    <3>2. DequeueSends /\ ~p.mspd => key_send \/ Rests(queue)
      BY <1>3, <2>6, <2>9
    <3> QED
      BY <2>1, <2>6, <3>1, <3>2 DEF Supply
  <2>11. Decodable'
    <3>1. CASE ~DequeueSends
      BY <2>2, <2>7, <3>1 DEF Supply, Decodable
    <3>2. CASE DequeueSends
      <4>1. p.params # 0 => p.params \in {shown'} \cup missed'
        <5>1. CASE p.mspd
          BY <2>6, <3>2, <5>1
        <5>2. CASE ~p.mspd /\ p.params # 0
          <6>1. Supplied(p.params, 1, queue, shown, missed)
            BY <1>2, <1>3, <1>4, <2>1, <3>2, <5>2 DEF Supply, KeysSupplied
          <6>2. \A j \in 1..1 : ~queue[j].mspd
            BY <1>2, <5>2
          <6>3. p.params \in missed \/ shown = p.params
            BY <6>1, <6>2 DEF Supplied
          <6> QED
            BY <2>6, <3>2, <5>2, <6>3
        <5> QED
          BY <1>3, <5>1, <5>2
      <4> QED
        BY <2>6, <2>10, <3>2, <4>1 DEF Decodable
    <3> QED
      BY <3>1, <3>2
  <2>12. Alive' => KeysSupplied(queue', shown', missed')
    BY <2>1, <2>4 DEF Supply
  <2>13. Alive' /\ (sendmeta' \/ Announced(queue')) /\ ~changed' /\ latest' = camera' =>
           Supplied(camera', Len(queue'), queue', shown', missed')
    BY <1>5, <2>1, <2>4, <2>5, <2>8 DEF Supply
  <2>14. Alive' /\ (sendmeta' \/ key_send' \/ Rests(queue')) => shown' # 0 \/ missed' # {}
    BY <2>1, <2>2, <2>4, <2>5, <2>7, <2>10 DEF Supply
  <2> QED
    BY <2>11, <2>12, <2>13, <2>14 DEF Supply
<1> QED
  BY <1>6, <1>7 DEF Dequeue

\* A new connection starts with nothing; another level, with an empty list and
\* headers to be sent; the end of a stream, with no connection.
LEMMA SupplyRequest ==
  ASSUME TypeInv, Supply, Publish \/ SameLevel \/ SwitchLevel \/ Close
  PROVE  Supply'
<1> USE DEF source, times, packets, connection, handler, sending, counts, viewer
<1>1. CASE Publish
  <2>1. /\ queue' = <<>> /\ last' = None /\ sendmeta' = FALSE /\ key_send' = FALSE
    BY <1>1 DEF Publish, PlayQueue, EmptyQueue, NewViewer
  <2>2. ~Announced(queue') /\ ~Rests(queue') /\ KeysSupplied(queue', shown', missed')
    BY <2>1 DEF Announced, Rests, KeysSupplied
  <2> QED
    BY <2>1, <2>2 DEF Supply, Decodable
<1>2. CASE SameLevel
  <2>1. sendmeta' = FALSE /\ UNCHANGED <<queue, key_send, shown, last, missed>>
    BY <1>2 DEF SameLevel
  <2>2. (Alive' <=> Alive) /\ UNCHANGED <<camera, latest, changed>>
    BY <1>2 DEF SameLevel, Alive
  <2> QED
    BY <2>1, <2>2 DEF Supply, Decodable
<1>3. CASE SwitchLevel
  <2>1. /\ queue' = <<>> /\ sendmeta' = FALSE /\ UNCHANGED <<key_send, shown, last, missed>>
        /\ Alive' <=> Alive
    BY <1>3 DEF SwitchLevel, EmptyQueue, Alive
  <2>2. ~Announced(queue') /\ ~Rests(queue') /\ KeysSupplied(queue', shown', missed')
    BY <2>1 DEF Announced, Rests, KeysSupplied
  <2> QED
    BY <2>1, <2>2 DEF Supply, Decodable
<1>4. CASE Close
  <2>1. ~Alive' /\ last' = None
    BY <1>4 DEF Close, Alive, NewViewer
  <2> QED
    BY <2>1 DEF Supply, Decodable
<1> QED
  BY <1>1, <1>2, <1>3, <1>4

LEMMA SupplyElsewhere ==
  ASSUME TypeInv, Supply, Elsewhere
  PROVE  Supply'
<1> USE DEF source, times, packets, connection, handler, sending, counts, viewer
<1>1. UNCHANGED <<queue, sendmeta, key_send, shown, last, missed>>
  BY DEF Elsewhere, CameraChanges, Stall, ClockBack, Break, ParamsArrive, SourceEnds,
         SelectFails, Proceed
<1>2. Alive' => Alive
  BY DEF Elsewhere, CameraChanges, Stall, ClockBack, Break, ParamsArrive, SourceEnds,
         SelectFails, Proceed, Alive
<1>3. \/ UNCHANGED <<camera, latest, changed>>
      \/ changed' = TRUE
      \/ latest' # camera'
  <2>1. CASE CameraChanges
    BY <2>1 DEF CameraChanges, TypeInv, NumbersOK, Params
  <2>2. CASE ~CameraChanges
    BY <2>2 DEF Elsewhere, Stall, ClockBack, Break, ParamsArrive, SourceEnds,
                SelectFails, Proceed
  <2> QED
    BY <2>1, <2>2
<1> QED
  BY <1>1, <1>2, <1>3 DEF Supply, Decodable

\* A player can decode what it is sent: a key picture with its parameter sets comes
\* first, and every other one's are those sent last, unless the packet that
\* brought them was discarded or they timed out.
THEOREM AllDecodable == Spec => []Decodable
<1>1. Init => Supply
  BY DEF Init, Supply, Decodable, Alive
<1>2. TypeInv /\ Supply /\ [Next]_vars => Supply'
  <2>1. UNCHANGED vars /\ Supply => Supply'
    BY DEF vars, source, packets, connection, sending, viewer, Supply, Alive, Decodable
  <2> QED
    BY <2>1, Steps, SupplyFrame, SupplyDequeue, SupplyRequest, SupplyElsewhere
<1>3. Supply => Decodable
  BY DEF Supply
<1> QED
  BY <1>1, <1>2, <1>3, TypeInductive, PTL DEF Spec
=============================================================================
