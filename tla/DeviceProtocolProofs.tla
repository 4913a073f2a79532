------------------------ MODULE DeviceProtocolProofs ------------------------
(***************************************************************************)
(* Proofs about DeviceProtocol, for every set of message types, any number *)
(* of calls, platform requests and reconnections, and faults or not.       *)
(*                                                                         *)
(* Two conditions make the matching of answers sound, and both are needed: *)
(* see AnswersMatch.  Replies need another, that only the main loop makes  *)
(* calls that wait: see RepliesMatch and Refines.                          *)
(***************************************************************************)
EXTENDS DeviceProtocol, SequenceTheorems, TLAPS

\* No call is made by a callback that runs inside a waiting call.
NoNestedWait == NestDepth <= 1

\* The platform's ids stay below those the device counts up from.
IdsApart == \A id \in PlatIds : id < SeqInit

-----------------------------------------------------------------------------
\* Type correctness.

LEMMA PopType ==
  ASSUME TypeOK, stack # <<>>
  PROVE  /\ Top \in Frame
         /\ Pop \in Seq(Frame)
         /\ Len(Pop) = Len(stack) - 1
         /\ \A i \in 1..Len(Pop) : Pop[i] = stack[i]
<1> DEFINE n == Len(stack)
<1>1. n \in Nat /\ n # 0
  BY DEF TypeOK
<1>2. \A i \in 1..n : stack[i] \in Frame
  BY DEF TypeOK
<1>3. 1 \in Int /\ n - 1 \in Int
  BY <1>1
<1>4. \A i \in 1..n - 1 : stack[i] \in Frame
  BY <1>1, <1>2
<1>5. /\ Pop \in Seq(Frame)
      /\ Len(Pop) = IF 1 <= n - 1 THEN (n - 1) - 1 + 1 ELSE 0
      /\ \A i \in 1..((n - 1) - 1 + 1) : Pop[i] = stack[1 + i - 1]
  BY <1>3, <1>4, SubSeqProperties DEF Pop
<1> HIDE DEF n
<1>6. Len(Pop) = n - 1
  BY <1>1, <1>5
<1>7. \A i \in 1..n - 1 : Pop[i] = stack[i]
  BY <1>1, <1>5
<1>8. Top \in Frame
  BY <1>1, <1>2 DEF Top, n
<1>9. QED
  BY <1>5, <1>6, <1>7, <1>8 DEF n

LEMMA DispatchType ==
  ASSUME TypeOK, down # <<>>, Dispatch(Head(down))
  PROVE  stack' \in Seq(Frame)
<1>1. Head(down) \in Message
  BY DEF TypeOK
<1>2. [op |-> "callback", type |-> Head(down).type, id |-> Head(down).id,
       tag |-> Head(down).tag] \in Frame
  BY <1>1 DEF Message, Frame
<1>3. QED
  BY <1>2 DEF TypeOK, Dispatch

LEMMA TransmitType ==
  ASSUME TypeOK, NEW m \in Message, Transmit(m)
  PROVE  up' \in Seq(Message)
<1>1. up \in Seq(Message)
  BY DEF TypeOK
<1>2. up' = up \/ up' = Append(up, m)
  BY DEF Transmit
<1>3. QED
  BY <1>1, <1>2, AppendProperties

LEMMA HeadDown ==
  ASSUME TypeOK, down # <<>>
  PROVE  /\ Head(down) \in Message
         /\ Tail(down) \in Seq(Message)
BY DEF TypeOK

\* A notice is neither a request of the device nor one of the platform.
LEMMA NoticeApart ==
  ASSUME NEW id \in PlatIds
  PROVE  /\ [type |-> Notice, resp |-> FALSE, id |-> id, tag |-> 0] \in Message
         /\ Notice \notin DevTypes \cup PlatTypes
BY ConstantsAssumption DEF Message, MsgTypes, DevTypes, AppTypes, AutoReplied, Commands, Notice

LEMMA TypeStep == TypeOK /\ [Next]_vars => TypeOK'
<1> SUFFICES ASSUME TypeOK, [Next]_vars PROVE TypeOK'
  OBVIOUS
<1>0. seq_snd + 1 \in Nat /\ seq_snd + 1 >= SeqInit /\ calls + 1 \in Nat
  BY ConstantsAssumption DEF TypeOK
<1>1. ASSUME NEW t \in AskTypes, Ask(t) PROVE TypeOK'
  <2>1. Request(t) \in Message
    BY <1>0 DEF Request, Message, MsgTypes, DevTypes, TypeOK
  <2>2. up' \in Seq(Message)
    BY <1>1, <2>1, TransmitType DEF Ask, TypeOK
  <2>3. stack' \in Seq(Frame)
    <3>1. [op |-> "wait", type |-> t, id |-> seq_snd, tag |-> calls + 1] \in Frame
      BY <1>0 DEF Frame, MsgTypes, DevTypes, TypeOK
    <3>2. stack \in Seq(Frame)
      BY DEF TypeOK
    <3>3. QED
      BY <1>1, <3>1, <3>2, AppendProperties DEF Ask
  <2>4. outcome' \in Outcome
    BY <1>0, <1>1 DEF Ask, Outcome, TypeOK
  <2>5. QED
    BY <1>0, <1>1, <2>2, <2>3, <2>4 DEF Ask, SeqSndAfter, platform, TypeOK
<1>2. ASSUME NEW t \in TellTypes, Tell(t) PROVE TypeOK'
  <2>1. Request(t) \in Message
    BY <1>0 DEF Request, Message, MsgTypes, DevTypes, TypeOK
  <2>2. up' \in Seq(Message)
    BY <1>2, <2>1, TransmitType DEF Tell, TypeOK
  <2>3. QED
    BY <1>0, <1>2, <2>2 DEF Tell, SeqSndAfter, platform, TypeOK
<1>3. ASSUME CheckReceive PROVE TypeOK'
  <2>1. stack' \in Seq(Frame)
    BY <1>3, DispatchType DEF CheckReceive
  <2>2. SeqRcvAfter(Head(down)) \in Nat
    BY <1>3, HeadDown DEF CheckReceive, SeqRcvAfter, Message, TypeOK
  <2>3. QED
    BY <1>3, <2>1, <2>2, HeadDown DEF CheckReceive, platform, TypeOK
<1>4. ASSUME TakeAnswer PROVE TypeOK'
  <2>1. Pop \in Seq(Frame) /\ Top.tag \in Nat
    BY <1>4, PopType DEF TakeAnswer, Running, Frame
  <2>2. SeqRcvAfter(Head(down)) \in Nat
    BY <1>4, HeadDown DEF TakeAnswer, SeqRcvAfter, Message, TypeOK
  <2>3. outcome' \in Outcome
    <3>1. [type |-> Head(down).type, tag |-> Head(down).tag]
            \in [type : MsgTypes, tag : Nat]
      BY <1>4, HeadDown DEF TakeAnswer, Message
    <3>2. QED
      BY <1>4, <2>1, <3>1 DEF TakeAnswer, Returned, Outcome
  <2>4. QED
    BY <1>0, <1>4, <2>1, <2>2, <2>3, HeadDown DEF TakeAnswer, SeqSndAfter, platform, TypeOK
<1>5. ASSUME TakeOther PROVE TypeOK'
  <2>1. stack' \in Seq(Frame)
    BY <1>5, DispatchType DEF TakeOther
  <2>2. Head(down).id \in Nat
    BY <1>5, HeadDown DEF TakeOther, Message
  <2>3. QED
    BY <1>5, <2>1, <2>2, HeadDown DEF TakeOther, platform, TypeOK
<1>6. ASSUME WaitFails PROVE TypeOK'
  <2>1. Pop \in Seq(Frame) /\ Top.tag \in Nat
    BY <1>6, PopType DEF WaitFails, Running, Frame
  <2>2. outcome' \in Outcome
    BY <1>6, <2>1 DEF WaitFails, Returned, Outcome
  <2>3. QED
    BY <1>0, <1>6, <2>1, <2>2 DEF WaitFails, SeqSndAfter, platform, TypeOK
<1>7. ASSUME CallbackReturns PROVE TypeOK'
  <2>1. Pop \in Seq(Frame) /\ Top \in Frame
    BY <1>7, PopType DEF CallbackReturns, Running
  <2>2. Reply(Top) \in Message /\ Top.tag \in Nat
    BY <2>1 DEF Reply, Message, Frame, TypeOK
  <2>3. up' \in Seq(Message)
    BY <1>7, <2>2, TransmitType DEF CallbackReturns, TypeOK
  <2>4. replied' \in Seq(Nat)
    <3>1. replied \in Seq(Nat) /\ (replied' = replied \/ replied' = Append(replied, Top.tag))
      BY <1>7 DEF CallbackReturns, TypeOK
    <3>2. QED
      BY <2>2, <3>1, AppendProperties
  <2>5. QED
    BY <1>7, <2>1, <2>3, <2>4 DEF CallbackReturns, platform, TypeOK
<1>8. CASE Reconnect
  BY <1>8 DEF Reconnect, device, TypeOK
<1>9. CASE LinkBreaks
  BY <1>9 DEF LinkBreaks, device, TypeOK
<1>10. ASSUME PlatformReads PROVE TypeOK'
  <2>1. Head(up) \in Message /\ Tail(up) \in Seq(Message)
    BY <1>10 DEF PlatformReads, TypeOK
  <2>2. QED
    BY <1>10, <2>1 DEF PlatformReads, device, TypeOK
<1>11. ASSUME NEW m \in todo, PlatformAnswers(m) PROVE TypeOK'
  <2>1. /\ [m EXCEPT !.resp = (m.type # "ADD_CHANNEL")] \in Message
        /\ m.tag \in Nat
    BY DEF Message, TypeOK
  <2>2. down' \in Seq(Message)
    BY <1>11, <2>1, AppendProperties DEF PlatformAnswers, TypeOK
  <2>3. QED
    BY <1>11, <2>1, <2>2 DEF PlatformAnswers, device, TypeOK
<1>12. ASSUME NEW t \in PlatTypes, NEW id \in PlatIds, PlatformAsks(t, id)
       PROVE TypeOK'
  <2>1. issued' \in Seq([type : PlatTypes, id : PlatIds]) /\ Len(issued) \in Nat
    <3>1. [type |-> t, id |-> id] \in [type : PlatTypes, id : PlatIds]
      OBVIOUS
    <3>2. QED
      BY <1>12, <3>1, AppendProperties DEF PlatformAsks, TypeOK
  <2>2. down' \in Seq(Message)
    <3>1. [type |-> t, resp |-> FALSE, id |-> id, tag |-> Len(issued) + 1] \in Message
      BY ConstantsAssumption, <2>1 DEF Message, MsgTypes
    <3>2. QED
      BY <1>12, <3>1, AppendProperties DEF PlatformAsks, TypeOK
  <2>3. QED
    BY <1>12, <2>1, <2>2 DEF PlatformAsks, device, TypeOK
<1>13. CASE UNCHANGED vars
  BY <1>13 DEF vars, device, platform, TypeOK
<1>14. ASSUME NEW id \in PlatIds, PlatformNotifies(id) PROVE TypeOK'
  <2>1. down' \in Seq(Message)
    BY <1>14, NoticeApart, AppendProperties DEF PlatformNotifies, TypeOK
  <2>2. QED
    BY <1>14, <2>1 DEF PlatformNotifies, device, platform, TypeOK
<1>15. QED
  BY <1>1, <1>2, <1>3, <1>4, <1>5, <1>6, <1>7, <1>8, <1>9, <1>10, <1>11, <1>12,
     <1>13, <1>14 DEF Next, Device, Environment

(***************************************************************************)
(* Every reachable state is well typed, and dev->seq_snd never falls below *)
(* its first value (protocol.c:437-439).                                   *)
(***************************************************************************)
THEOREM TypeCorrect == Spec => []TypeOK
<1>1. Init => TypeOK
  BY ConstantsAssumption DEF Init, TypeOK, Outcome
<1>2. QED
  BY <1>1, TypeStep, PTL DEF Spec

-----------------------------------------------------------------------------
(***************************************************************************)
(* Why an answer is never misattributed.  At most one call waits; the id   *)
(* of every request and answer in flight is determined by its serial       *)
(* number; and those of the platform's requests lie elsewhere.             *)
(***************************************************************************)
WaitsAt(i) == i \in 1..Len(stack) /\ stack[i].op = "wait"

OneWaits ==
  /\ \A i, j \in 1..Len(stack) : WaitsAt(i) /\ WaitsAt(j) => i = j
  /\ \A i \in 1..Len(stack) :
       WaitsAt(i) => stack[i].tag = calls /\ stack[i].type \in AskTypes

SeqSndCounts ==
  seq_snd = IF \E i \in 1..Len(stack) : WaitsAt(i)
            THEN SeqInit + calls - 1 ELSE SeqInit + calls

\* m is a request of the device, or the answer to one.
Numbered(m) ==
  /\ m.tag \in 1..calls /\ m.id = SeqInit + m.tag - 1
  /\ \A i \in 1..Len(stack) :
       WaitsAt(i) /\ stack[i].tag = m.tag => m.type = stack[i].type

OnWire(q) == {q[i] : i \in 1..Len(q)}

InFlight ==
  /\ \A m \in OnWire(up) \cup OnWire(down) \cup todo :
       m.type \in DevTypes => Numbered(m)
  /\ \A m \in OnWire(down) : m.type \notin DevTypes => m.id \in PlatIds
  /\ \A m \in OnWire(up) : ~m.resp => m.type \in DevTypes
  /\ \A m \in todo : m.type \in DevTypes

AnswerInv ==
  TypeOK /\ OneWaits /\ SeqSndCounts /\ InFlight /\ OwnAnswer

\* The top frame of a stack that runs "wait" is the one that waits.
LEMMA TopWaits ==
  ASSUME AnswerInv, Running("wait")
  PROVE  /\ Len(stack) \in 1..Len(stack) /\ WaitsAt(Len(stack))
         /\ \A i \in 1..Len(Pop) : ~(Pop[i].op = "wait")
         /\ seq_snd = SeqInit + calls - 1
         /\ Top.tag = calls /\ Top.type \in AskTypes
<1>1. stack # <<>> /\ Len(stack) \in Nat /\ Len(stack) # 0
  BY DEF AnswerInv, TypeOK, Running
<1>2. Len(stack) \in 1..Len(stack) /\ WaitsAt(Len(stack))
  BY <1>1 DEF Running, Top, WaitsAt
<1>3. ASSUME NEW i \in 1..Len(Pop), Pop[i].op = "wait" PROVE FALSE
  <2>1. i \in 1..Len(stack) /\ i # Len(stack) /\ Pop[i] = stack[i]
    BY <1>1, PopType DEF AnswerInv
  <2>2. WaitsAt(i)
    BY <1>3, <2>1 DEF WaitsAt
  <2>3. QED
    BY <1>2, <2>1, <2>2 DEF AnswerInv, OneWaits
<1>4. QED
  BY <1>2, <1>3 DEF AnswerInv, OneWaits, SeqSndCounts, Top

\* Application code that may call has no waiting call below it.
LEMMA NoneWaits ==
  ASSUME AnswerInv, NoNestedWait, MayCall
  PROVE  \A i \in 1..Len(stack) : ~WaitsAt(i)
<1>1. Len(stack) \in Nat /\ NestDepth \in Nat
  BY ConstantsAssumption DEF AnswerInv, TypeOK
<1>2. CASE stack = <<>>
  BY <1>2
<1>3. CASE Running("callback") /\ Len(stack) <= NestDepth
  BY <1>1, <1>3 DEF NoNestedWait, Running, Top, WaitsAt
<1>4. QED
  BY <1>2, <1>3 DEF MayCall

\* Nothing in flight changes: what was said of it stays true when the stack
\* and the counters stay, too.
LEMMA SameNumbers ==
  ASSUME UNCHANGED <<stack, calls>>, NEW m, Numbered(m)
  PROVE  Numbered(m)'
BY DEF Numbered, WaitsAt

\* A frame that is not a wait frame comes or goes.
LEMMA PopNumbers ==
  ASSUME AnswerInv, stack # <<>>, stack' = Pop, UNCHANGED calls, NEW m, Numbered(m)
  PROVE  Numbered(m)'
<1>1. \A i \in 1..Len(Pop) : i \in 1..Len(stack) /\ Pop[i] = stack[i]
  BY PopType DEF AnswerInv, TypeOK
<1>2. QED
  BY <1>1 DEF Numbered, WaitsAt

LEMMA DispatchNumbers ==
  ASSUME AnswerInv, down # <<>>, Dispatch(Head(down)), UNCHANGED calls
  PROVE  /\ \A i : WaitsAt(i) <=> WaitsAt(i)'
         /\ \A i : WaitsAt(i) => stack'[i] = stack[i]
         /\ \A m : Numbered(m) => Numbered(m)'
<1>1. stack \in Seq(Frame) /\ Len(stack) \in Nat
  BY DEF AnswerInv, TypeOK
<1>2. PICK f \in Frame : stack' = stack \/ (stack' = Append(stack, f) /\ f.op = "callback")
  <2>1. [op |-> "callback", type |-> Head(down).type, id |-> Head(down).id,
         tag |-> Head(down).tag] \in Frame
    BY HeadDown DEF AnswerInv, Message, Frame
  <2>2. QED
    BY <2>1 DEF Dispatch
<1>3. /\ \A i \in 1..Len(stack) : i \in 1..Len(stack') /\ stack'[i] = stack[i]
      /\ \A i \in 1..Len(stack') : i \in 1..Len(stack) \/ stack'[i].op = "callback"
  <2>1. CASE stack' = Append(stack, f)
    BY <1>1, <1>2, <2>1, AppendProperties
  <2>2. QED
    BY <1>1, <1>2, <2>1
<1>4. (\A i : WaitsAt(i) <=> WaitsAt(i)') /\ (\A i : WaitsAt(i) => stack'[i] = stack[i])
  BY <1>3 DEF WaitsAt
<1>5. \A m : Numbered(m) => Numbered(m)'
  BY <1>3, <1>4 DEF Numbered, WaitsAt
<1>6. QED
  BY <1>4, <1>5

\* A request that was just built is numbered by its serial number.
LEMMA CallNumbers ==
  ASSUME AnswerInv, NoNestedWait, MayCall, calls' = calls + 1, NEW t,
         \/ UNCHANGED stack
         \/ stack' = Append(stack, [op |-> "wait", type |-> t,
                                   id |-> seq_snd, tag |-> calls + 1])
  PROVE  /\ \A m : Numbered(m) => Numbered(m)'
         /\ \A m : m = Request(t) => Numbered(m)'
<1> DEFINE f == [op |-> "wait", type |-> t, id |-> seq_snd, tag |-> calls + 1]
<1>1. stack \in Seq(Frame) /\ Len(stack) \in Nat /\ calls \in Nat /\ SeqInit \in Nat
  BY ConstantsAssumption DEF AnswerInv, TypeOK
<1>2. \A i \in 1..Len(stack') :
        WaitsAt(i)' => stack'[i].tag = calls + 1 /\ stack'[i].type = t
  <2>1. CASE stack' = Append(stack, f)
    <3>1. /\ Len(stack') = Len(stack) + 1 /\ stack'[Len(stack) + 1] = f
          /\ \A i \in 1..Len(stack) : stack'[i] = stack[i]
      BY <1>1, <2>1
    <3>2. QED
      BY <1>1, <3>1, NoneWaits DEF WaitsAt
  <2>2. CASE UNCHANGED stack
    BY <2>2, NoneWaits DEF WaitsAt
  <2>3. QED
    BY <2>1, <2>2
<1>3. \A m : Numbered(m) => Numbered(m)'
  BY <1>1, <1>2 DEF Numbered
<1>4. seq_snd = SeqInit + calls
  BY NoneWaits DEF AnswerInv, SeqSndCounts
<1>5. \A m : m = Request(t) => Numbered(m)'
  BY <1>1, <1>2, <1>4 DEF Numbered, Request
<1>6. QED
  BY <1>3, <1>5

\* What sending, receiving and losing messages does to a channel.
LEMMA Wires ==
  ASSUME NEW S, NEW q \in Seq(S)
  PROVE  /\ \A m \in S : OnWire(Append(q, m)) = OnWire(q) \cup {m}
         /\ q # <<>> => /\ OnWire(Tail(q)) \subseteq OnWire(q)
                        /\ Head(q) \in OnWire(q)
         /\ OnWire(<<>>) = {}
<1>1. ASSUME NEW m \in S PROVE OnWire(Append(q, m)) = OnWire(q) \cup {m}
  <2>1. /\ Len(q) \in Nat /\ Len(Append(q, m)) = Len(q) + 1
        /\ Append(q, m)[Len(q) + 1] = m
        /\ \A i \in 1..Len(q) : Append(q, m)[i] = q[i]
    BY AppendProperties
  <2>2. QED
    BY <2>1 DEF OnWire
<1>2. ASSUME q # <<>>
      PROVE  OnWire(Tail(q)) \subseteq OnWire(q) /\ Head(q) \in OnWire(q)
  <2>1. /\ Len(q) \in Nat /\ Len(q) # 0 /\ Len(Tail(q)) = Len(q) - 1
        /\ \A i \in 1..Len(Tail(q)) : Tail(q)[i] = q[i + 1]
        /\ Head(q) = q[1]
    BY <1>2, HeadTailProperties
  <2>2. QED
    BY <2>1 DEF OnWire
<1>3. OnWire(<<>>) = {}
  BY DEF OnWire
<1>4. QED
  BY <1>1, <1>2, <1>3

\* The device's steps add to the wire only what is numbered, or a reply.
LEMMA FlightKept ==
  ASSUME AnswerInv, \A m : Numbered(m) => Numbered(m)',
         \A m \in OnWire(up') \cup OnWire(down') \cup todo' :
           \/ m \in OnWire(up) \cup OnWire(down) \cup todo
           \/ m.type \in DevTypes => Numbered(m)',
         \A m \in OnWire(down') :
           m.type \notin DevTypes => m \in OnWire(down) \/ m.id \in PlatIds,
         \A m \in OnWire(up') :
           ~m.resp => m \in OnWire(up) \/ m.type \in DevTypes,
         \A m \in todo' : m \in todo \/ m.type \in DevTypes
  PROVE  InFlight'
<1>1. \A m \in OnWire(up') \cup OnWire(down') \cup todo' :
        m.type \in DevTypes => Numbered(m)'
  BY DEF AnswerInv, InFlight
<1>2. \A m \in OnWire(down') : m.type \notin DevTypes => m.id \in PlatIds
  BY DEF AnswerInv, InFlight
<1>3. /\ \A m \in OnWire(up') : ~m.resp => m.type \in DevTypes
      /\ \A m \in todo' : m.type \in DevTypes
  BY DEF AnswerInv, InFlight
<1>4. QED
  BY <1>1, <1>2, <1>3 DEF InFlight, OnWire

LEMMA AnswerStep ==
  ASSUME NoNestedWait, IdsApart, AnswerInv, [Next]_vars
  PROVE  AnswerInv'
<1> USE DEF AnswerInv
<1>0. TypeOK' /\ calls \in Nat /\ SeqInit \in Nat /\ stack \in Seq(Frame)
      /\ up \in Seq(Message) /\ down \in Seq(Message)
  BY TypeStep, ConstantsAssumption DEF TypeOK
<1>1. ASSUME NEW t \in DevTypes, MayCall, calls' = calls + 1, Transmit(Request(t)) \/ up' = up,
             UNCHANGED <<down, todo>>,
             \/ UNCHANGED <<stack, outcome>> /\ seq_snd' = seq_snd + 1
             \/ /\ UNCHANGED stack /\ seq_snd' = seq_snd + 1
                /\ outcome' = [call |-> calls + 1, result |-> "fail", by |-> NoAnswer]
             \/ /\ t \in AskTypes /\ UNCHANGED <<seq_snd, outcome>>
                /\ stack' = Append(stack, [op |-> "wait", type |-> t,
                                          id |-> seq_snd, tag |-> calls + 1])
      PROVE  AnswerInv'
  <2>1. \A m \in OnWire(up') : m \in OnWire(up) \/ m = Request(t)
    <3>1. Request(t) \in Message
      BY <1>0, <1>1 DEF Request, Message, MsgTypes, TypeOK
    <3>2. up' = up \/ up' = Append(up, Request(t))
      BY <1>1 DEF Transmit
    <3>3. OnWire(Append(up, Request(t))) = OnWire(up) \cup {Request(t)}
      BY <1>0, <3>1, Wires
    <3>4. QED
      BY <3>2, <3>3
  <2>2. InFlight'
    <3>1. \A m \in OnWire(up') : m \in OnWire(up) \/ m.type \in DevTypes
      BY <2>1 DEF Request
    <3>2. QED
      BY <1>1, <2>1, <3>1, CallNumbers, FlightKept
  <2>3. seq_snd = SeqInit + calls
    BY <1>1, NoneWaits DEF SeqSndCounts
  <2>4. OneWaits' /\ SeqSndCounts'
    <3>1. CASE UNCHANGED stack
      BY <1>0, <1>1, <2>3, <3>1, NoneWaits DEF OneWaits, SeqSndCounts, WaitsAt
    <3>2. CASE /\ t \in AskTypes /\ UNCHANGED seq_snd
               /\ stack' = Append(stack, [op |-> "wait", type |-> t,
                                         id |-> seq_snd, tag |-> calls + 1])
      <4>1. /\ Len(stack) \in Nat /\ Len(stack') = Len(stack) + 1
            /\ stack'[Len(stack) + 1].op = "wait" /\ stack'[Len(stack) + 1].type = t
            /\ stack'[Len(stack) + 1].tag = calls + 1
            /\ \A i \in 1..Len(stack) : stack'[i] = stack[i]
        BY <1>0, <3>2
      <4>2. \A i : WaitsAt(i)' <=> i = Len(stack) + 1
        BY <1>1, <4>1, NoneWaits DEF WaitsAt
      <4>3. OneWaits'
        BY <1>1, <3>2, <4>1, <4>2 DEF OneWaits
      <4>4. SeqSndCounts'
        <5>1. \E i \in 1..Len(stack') : WaitsAt(i)'
          <6>1. Len(stack) + 1 \in 1..Len(stack')
            BY <4>1
          <6>2. QED
            BY <4>2, <6>1
        <5>2. seq_snd' = SeqInit + calls' - 1
          BY <1>0, <1>1, <2>3, <3>2
        <5>3. QED
          BY <5>1, <5>2 DEF SeqSndCounts
      <4>5. QED
        BY <4>3, <4>4
    <3>3. QED
      BY <1>1, <3>1, <3>2
  <2>5. OwnAnswer'
    BY <1>1 DEF OwnAnswer
  <2>6. QED
    BY <1>0, <2>2, <2>4, <2>5
<1>2. ASSUME down # <<>>, down' = Tail(down), Dispatch(Head(down)),
             UNCHANGED <<seq_snd, outcome, up, todo, calls>>
      PROVE  AnswerInv'
  <2>1. InFlight'
    BY <1>0, <1>2, DispatchNumbers, FlightKept, Wires
  <2>2. OneWaits' /\ SeqSndCounts'
    BY <1>2, DispatchNumbers DEF OneWaits, SeqSndCounts, WaitsAt
  <2>3. OwnAnswer'
    BY <1>2 DEF OwnAnswer
  <2>4. QED
    BY <1>0, <2>1, <2>2, <2>3
<1>3. ASSUME Running("wait"), stack' = Pop, seq_snd' = seq_snd + 1,
             down' = down \/ (down # <<>> /\ down' = Tail(down)),
             UNCHANGED <<up, todo, calls>>
      PROVE  InFlight' /\ OneWaits' /\ SeqSndCounts'
  <2>1. InFlight'
    BY <1>0, <1>3, PopNumbers, FlightKept, Wires DEF Running
  <2>2. \A i : ~WaitsAt(i)'
    BY <1>3, TopWaits DEF WaitsAt
  <2>3. OneWaits' /\ SeqSndCounts'
    BY <1>0, <1>3, <2>2, TopWaits DEF OneWaits, SeqSndCounts
  <2>4. QED
    BY <2>1, <2>3
<1>4. CASE TakeAnswer
  <2>1. OwnAnswer'
    <3>1. Head(down) \in OnWire(down) /\ Head(down).id = seq_snd /\ Head(down).id \in Nat
      BY <1>0, <1>4, Wires, HeadDown DEF TakeAnswer, IsAnswer, Message
    <3>2. /\ seq_snd = SeqInit + calls - 1 /\ calls >= 1
          /\ Top.tag = calls /\ Top.type \in AskTypes
          /\ Len(stack) \in 1..Len(stack) /\ WaitsAt(Len(stack))
      <4>1. Running("wait")
        BY <1>4 DEF TakeAnswer
      <4>2. seq_snd \in Nat /\ seq_snd >= SeqInit
        BY DEF TypeOK
      <4>3. QED
        BY <1>0, <4>1, <4>2, TopWaits
    <3>3. Head(down).type \in DevTypes
      BY <1>0, <3>1, <3>2 DEF InFlight, IdsApart
    <3>4. Numbered(Head(down))
      BY <3>1, <3>3 DEF InFlight
    <3>5. Head(down).tag = calls
      BY <1>0, <3>1, <3>2, <3>4 DEF Numbered
    <3>6. Head(down).type = Top.type
      BY <3>2, <3>4, <3>5 DEF Numbered, Top
    <3>7. QED
      BY <1>4, <3>2, <3>5, <3>6 DEF TakeAnswer, Returned, OwnAnswer
  <2>2. QED
    BY <1>0, <1>3, <1>4, <2>1 DEF TakeAnswer, SeqSndAfter, platform
<1>5. CASE WaitFails
  <2>1. OwnAnswer'
    BY <1>5 DEF WaitFails, Returned, OwnAnswer
  <2>2. QED
    BY <1>0, <1>3, <1>5, <2>1 DEF WaitFails, SeqSndAfter, platform
<1>6. CASE CallbackReturns
  <2>1. stack # <<>> /\ stack' = Pop /\ UNCHANGED <<seq_snd, outcome, down, todo, calls>>
    BY <1>6 DEF CallbackReturns, Running, platform
  <2>2. \A m \in OnWire(up') :
          m \in OnWire(up) \/ (m.resp /\ m.type \in AppTypes \cup {"PLATFORM_REQ_PUBKEY"})
    <3>1. up' = up \/ (Transmit(Reply(Top)) /\ Top.type \in AppTypes \cup {"PLATFORM_REQ_PUBKEY"})
      BY <1>6 DEF CallbackReturns, AppTypes
    <3>2. Reply(Top) \in Message /\ Reply(Top).type = Top.type /\ Reply(Top).resp
      BY <2>1, PopType DEF Reply, Message, Frame, TypeOK
    <3>3. OnWire(Append(up, Reply(Top))) = OnWire(up) \cup {Reply(Top)}
      BY <1>0, <3>2, Wires
    <3>4. up' = up \/ (up' = Append(up, Reply(Top))
                       /\ Top.type \in AppTypes \cup {"PLATFORM_REQ_PUBKEY"})
      BY <3>1 DEF Transmit
    <3>5. QED
      BY <3>2, <3>3, <3>4
  <2>3. InFlight'
    BY <2>1, <2>2, PopNumbers, FlightKept, ConstantsAssumption DEF DevTypes
  <2>4. \A i \in 1..Len(stack) : WaitsAt(i) => i # Len(stack)
    BY <1>6 DEF CallbackReturns, Running, Top, WaitsAt
  <2>5. (\A i : WaitsAt(i)' <=> WaitsAt(i)) /\ (\A i : WaitsAt(i) => stack'[i] = stack[i])
    <3>1. Len(stack) \in Nat /\ Len(stack') = Len(stack) - 1
          /\ \A i \in 1..Len(stack') : stack'[i] = stack[i]
      BY <1>0, <2>1, PopType
    <3>2. QED
      BY <2>4, <3>1 DEF WaitsAt
  <2>6. OneWaits' /\ SeqSndCounts'
    BY <2>1, <2>5 DEF OneWaits, SeqSndCounts, WaitsAt
  <2>7. OwnAnswer'
    BY <2>1 DEF OwnAnswer
  <2>8. QED
    BY <1>0, <2>3, <2>6, <2>7
<1>7. ASSUME UNCHANGED <<device, calls>>, InFlight' PROVE AnswerInv'
  BY <1>0, <1>7 DEF device, OneWaits, SeqSndCounts, WaitsAt, OwnAnswer
<1>8. ASSUME UNCHANGED <<device, calls>>,
             OnWire(up') \subseteq OnWire(up), OnWire(down') \subseteq OnWire(down),
             \A m \in todo' : m \in todo \/ (m \in OnWire(up) /\ ~m.resp)
      PROVE  AnswerInv'
  <2>1. \A m \in todo' : m \in todo \/ m.type \in DevTypes
    BY <1>8 DEF InFlight
  <2>2. \A m : Numbered(m) => Numbered(m)'
    BY <1>8, SameNumbers DEF device
  <2>3. InFlight'
    BY <1>8, <2>1, <2>2, FlightKept
  <2>4. QED
    BY <1>7, <1>8, <2>3
<1>9. CASE Reconnect \/ LinkBreaks
  BY <1>0, <1>8, <1>9, Wires DEF Reconnect, LinkBreaks
<1>10. CASE PlatformReads
  BY <1>0, <1>8, <1>10, Wires DEF PlatformReads, Answerable
<1>11. ASSUME NEW m \in todo, PlatformAnswers(m) PROVE AnswerInv'
  <2> DEFINE a == [m EXCEPT !.resp = (m.type # "ADD_CHANNEL")]
  <2>1. m \in Message /\ a \in Message /\ a.type = m.type /\ a.id = m.id /\ a.tag = m.tag
    BY DEF TypeOK, Message
  <2>2. OnWire(down') = OnWire(down) \cup {a} /\ todo' \subseteq todo /\ UNCHANGED <<device, up, calls>>
    BY <1>0, <1>11, <2>1, Wires DEF PlatformAnswers
  <2>3. a.type \in DevTypes => Numbered(a)
    BY <2>1 DEF InFlight, Numbered
  <2>4. \A x : Numbered(x) => Numbered(x)'
    BY <2>2, SameNumbers DEF device
  <2>5. m.type \notin DevTypes => FALSE
    BY DEF InFlight
  <2>6. InFlight'
    BY <2>2, <2>3, <2>4, <2>5, <2>1, FlightKept
  <2>7. QED
    BY <1>7, <2>2, <2>6
<1>12. ASSUME NEW t \in PlatTypes, NEW id \in PlatIds, PlatformAsks(t, id)
       PROVE  AnswerInv'
  <2> DEFINE r == [type |-> t, resp |-> FALSE, id |-> id, tag |-> Len(issued) + 1]
  <2>1. r \in Message /\ r.type \notin DevTypes
    BY ConstantsAssumption DEF TypeOK, Message, MsgTypes, DevTypes
  <2>2. OnWire(down') = OnWire(down) \cup {r} /\ UNCHANGED <<device, up, todo, calls>>
    <3>1. down' = Append(down, r) /\ UNCHANGED <<device, up, todo, calls>>
      BY <1>12 DEF PlatformAsks
    <3>2. \A x \in Message : OnWire(Append(down, x)) = OnWire(down) \cup {x}
      BY <1>0, Wires
    <3>3. QED
      BY <2>1, <3>1, <3>2
  <2>3. QED
    BY <1>7, <2>1, <2>2, SameNumbers, FlightKept DEF device
<1>13. CASE UNCHANGED vars
  BY <1>8, <1>13 DEF vars, platform
<1>14. ASSUME NEW t \in AskTypes, Ask(t) PROVE AnswerInv'
  BY <1>1, <1>14 DEF Ask, SeqSndAfter, platform, DevTypes
<1>15. ASSUME NEW t \in TellTypes, Tell(t) PROVE AnswerInv'
  BY <1>1, <1>15 DEF Tell, SeqSndAfter, platform, DevTypes
<1>16. CASE CheckReceive \/ TakeOther
  BY <1>2, <1>16 DEF CheckReceive, TakeOther, platform
<1>17. ASSUME NEW id \in PlatIds, PlatformNotifies(id) PROVE AnswerInv'
  <2>1. PICK r \in Message : /\ r.type \notin DevTypes /\ r.id = id
                             /\ down' = Append(down, r)
    BY <1>17, NoticeApart DEF PlatformNotifies
  <2>2. OnWire(down') = OnWire(down) \cup {r} /\ UNCHANGED <<device, up, todo, calls>>
    BY <1>0, <1>17, <2>1, Wires DEF PlatformNotifies, platform
  <2>3. QED
    BY <1>7, <2>1, <2>2, SameNumbers, FlightKept DEF device
<1>18. QED
  BY <1>4, <1>5, <1>6, <1>9, <1>10, <1>11, <1>12, <1>13, <1>14, <1>15, <1>16, <1>17
  DEF Next, Device, Environment

(***************************************************************************)
(* An answer is returned only to the call it answers (protocol.c:408-433), *)
(* as long as no callback inside a waiting call makes another call and the *)
(* platform's message ids stay below those of the device.                  *)
(***************************************************************************)
THEOREM AnswersMatch ==
  ASSUME NoNestedWait, IdsApart
  PROVE  Spec => []OwnAnswer
<1>1. Init => AnswerInv
  <2>1. Init => TypeOK
    BY ConstantsAssumption DEF Init, TypeOK, Outcome
  <2>2. QED
    BY <2>1, ConstantsAssumption
    DEF Init, AnswerInv, OneWaits, SeqSndCounts, WaitsAt, InFlight, OnWire, OwnAnswer
<1>2. AnswerInv /\ [Next]_vars => AnswerInv'
  BY AnswerStep
<1>3. AnswerInv => OwnAnswer
  BY DEF AnswerInv
<1>4. QED
  BY <1>1, <1>2, <1>3, PTL DEF Spec

-----------------------------------------------------------------------------
(***************************************************************************)
(* Why a reply bears the id of its request.  When only the main loop makes *)
(* calls that wait, a callback is on top of the stack as long as it runs,  *)
(* and nothing is received before it has returned.  A callback may send    *)
(* what does not wait, however deep the stack.                             *)
(***************************************************************************)
MainLoopWaits == \A t \in AskTypes : Ask(t) => stack = <<>>

CallbackTop ==
  \A i \in 1..Len(stack) : stack[i].op = "callback" => i = Len(stack)

\* m is, or replies to, the request of the platform that its tag is the place of.
Asked(m) ==
  m.tag \in 1..Len(issued) /\ issued[m.tag] = [type |-> m.type, id |-> m.id]

Serving == Running("callback") /\ Top.type \in PlatTypes

ReplyInv ==
  /\ TypeOK /\ CallbackTop /\ ReplyMatches
  /\ \A m \in OnWire(down) : m.type \in PlatTypes => ~m.resp /\ Asked(m)
  /\ \A m \in todo : m.type \notin PlatTypes
  /\ Serving => Top.id = seq_rcv /\ Asked(Top)

\* What is replied to was asked by the platform.
LEMMA ServedType ==
  ASSUME NEW f \in Frame, f.type \in AutoReplied \cup Commands \cup {"PLATFORM_REQ_PUBKEY"}
  PROVE  f.type \in PlatTypes
BY ConstantsAssumption DEF Frame, MsgTypes, DevTypes, AppTypes, AutoReplied, Commands, Notice

LEMMA MatchesOnWire == ReplyMatches <=> \A m \in OnWire(up) : m.resp => Asked(m)
BY DEF ReplyMatches, OnWire, Asked

\* The platform's requests keep their places.
LEMMA AskedKept ==
  ASSUME TypeOK, NEW r \in [type : PlatTypes, id : PlatIds],
         issued' = issued \/ issued' = Append(issued, r), NEW m, Asked(m)
  PROVE  Asked(m)'
<1>1. issued \in Seq([type : PlatTypes, id : PlatIds]) /\ Len(issued) \in Nat
  BY DEF TypeOK
<1>2. m.tag \in 1..Len(issued') /\ issued'[m.tag] = issued[m.tag]
  <2>1. CASE issued' = Append(issued, r)
    BY <1>1, <2>1, AppendProperties DEF Asked
  <2>2. QED
    BY <2>1 DEF Asked
<1> QED
  BY <1>2 DEF Asked

\* What a step must show when it leaves the platform's requests alone.
LEMMA ReplyKept ==
  ASSUME ReplyInv, TypeOK', UNCHANGED issued, CallbackTop',
         \A m \in OnWire(up') : m \in OnWire(up) \/ ~m.resp \/ Asked(m),
         \A m \in OnWire(down') : m \in OnWire(down) \/ m.type \notin PlatTypes,
         \A m \in todo' : m \in todo \/ m.type \notin PlatTypes,
         Serving' => (Top.id = seq_rcv /\ Asked(Top))'
  PROVE  ReplyInv'
<1>1. \A m : Asked(m) <=> Asked(m)'
  BY DEF Asked
<1>2. ReplyMatches'
  <2>1. \A m \in OnWire(up') : m.resp => Asked(m)'
    BY <1>1, MatchesOnWire DEF ReplyInv
  <2> QED
    BY <2>1 DEF ReplyMatches, OnWire, Asked
<1>3. (\A m \in OnWire(down) : m.type \in PlatTypes => ~m.resp /\ Asked(m))'
  <2>1. \A m \in OnWire(down') : m.type \in PlatTypes => ~m.resp /\ Asked(m)'
    BY <1>1 DEF ReplyInv
  <2> QED
    BY <2>1 DEF OnWire, Asked
<1>4. (\A m \in todo : m.type \notin PlatTypes)'
  BY DEF ReplyInv
<1> QED
  BY <1>2, <1>3, <1>4 DEF ReplyInv

\* A frame is put on the stack: a call that waits, with nothing below it, or
\* a callback, with at most a waiting call below it.
LEMMA PushTop ==
  ASSUME TypeOK, NEW f \in Frame, stack' = Append(stack, f),
         \A i \in 1..Len(stack) : stack[i].op # "callback"
  PROVE  CallbackTop' /\ Top' = f /\ (Running("callback")' <=> f.op = "callback")
<1>1. /\ Len(stack) \in Nat /\ Len(stack') = Len(stack) + 1 /\ stack' # <<>>
      /\ stack'[Len(stack) + 1] = f /\ \A i \in 1..Len(stack) : stack'[i] = stack[i]
  BY AppendProperties DEF TypeOK
<1> QED
  BY <1>1 DEF CallbackTop, Top, Running

\* A frame leaves the stack, and below it there is no callback.
LEMMA PopTop ==
  ASSUME TypeOK, CallbackTop, stack # <<>>, stack' = Pop
  PROVE  CallbackTop' /\ ~Running("callback")'
<1>1. /\ Len(stack) \in Nat /\ Len(stack') = Len(stack) - 1
      /\ \A i \in 1..Len(stack') : stack'[i] = stack[i]
  BY PopType DEF TypeOK
<1>2. \A i \in 1..Len(stack') : stack'[i].op # "callback"
  BY <1>1 DEF CallbackTop
<1>3. stack' # <<>> => Len(stack') \in 1..Len(stack')
  BY <1>1, PopType DEF TypeOK
<1> QED
  BY <1>2, <1>3 DEF CallbackTop, Running, Top

\* The device sends a request.
LEMMA ReplySends ==
  ASSUME ReplyInv, TypeOK', NEW t \in DevTypes,
         Transmit(Request(t)) \/ UNCHANGED up, UNCHANGED <<seq_rcv, down, todo, issued>>,
         \/ UNCHANGED stack
         \/ /\ stack = <<>>
            /\ stack' = Append(stack, [op |-> "wait", type |-> t, id |-> seq_snd, tag |-> calls + 1])
  PROVE  ReplyInv'
<1> DEFINE f == [op |-> "wait", type |-> t, id |-> seq_snd, tag |-> calls + 1]
<1>2. f \in Frame /\ Request(t) \in Message /\ ~Request(t).resp
  BY DEF Frame, MsgTypes, Request, Message, ReplyInv, TypeOK
<1>3. \A m \in OnWire(up') : m \in OnWire(up) \/ ~m.resp
  <2>1. up \in Seq(Message) /\ (up' = up \/ up' = Append(up, Request(t)))
    BY DEF Transmit, ReplyInv, TypeOK
  <2>2. OnWire(Append(up, Request(t))) = OnWire(up) \cup {Request(t)}
    BY <1>2, <2>1, Wires
  <2> QED
    BY <1>2, <2>1, <2>2
<1>4. CallbackTop' /\ (Serving' => (Top.id = seq_rcv /\ Asked(Top))')
  <2>1. CASE UNCHANGED stack
    BY <2>1 DEF ReplyInv, CallbackTop, Serving, Running, Top, Asked
  <2>2. CASE stack = <<>> /\ stack' = Append(stack, f)
    <3>1. CallbackTop' /\ ~Running("callback")'
      BY <1>2, <2>2, PushTop DEF ReplyInv
    <3> QED
      BY <3>1 DEF Serving
  <2> QED
    BY <2>1, <2>2
<1> QED
  BY <1>3, <1>4, ReplyKept

\* The device receives, in the main loop or while a call waits.
LEMMA ReplyReceives ==
  ASSUME ReplyInv, TypeOK', down # <<>>, down' = Tail(down), UNCHANGED <<up, todo, issued>>,
         stack = <<>> \/ Running("wait"),
         Dispatch(Head(down)), Head(down).type \in PlatTypes => seq_rcv' = Head(down).id
  PROVE  ReplyInv'
<1> DEFINE m == Head(down)
           f == [op |-> "callback", type |-> m.type, id |-> m.id, tag |-> m.tag]
<1>1. down \in Seq(Message) /\ m \in Message /\ f \in Frame
  BY HeadDown DEF Message, Frame, ReplyInv, TypeOK
<1>2. m \in OnWire(down) /\ OnWire(down') \subseteq OnWire(down)
  BY <1>1, Wires
<1>3. \A i \in 1..Len(stack) : stack[i].op # "callback"
  BY DEF ReplyInv, CallbackTop, Running, Top
<1>4. CallbackTop' /\ (Serving' => (Top.id = seq_rcv /\ Asked(Top))')
  <2>1. CASE stack' = stack
    <3>1. ~Running("callback")
      BY DEF Running, Top
    <3> QED
      BY <2>1, <3>1 DEF ReplyInv, CallbackTop, Serving, Running, Top
  <2>2. CASE stack' = Append(stack, f)
    <3>1. CallbackTop' /\ Top' = f
      BY <1>1, <1>3, <2>2, PushTop DEF ReplyInv
    <3>2. m.type \in PlatTypes => Asked(m)
      BY <1>2 DEF ReplyInv
    <3> QED
      BY <3>1, <3>2 DEF Serving, Asked
  <2> QED
    BY <2>1, <2>2 DEF Dispatch
<1> QED
  BY <1>2, <1>4, ReplyKept

\* A waiting call returns.
LEMMA ReplyReturns ==
  ASSUME ReplyInv, TypeOK', Running("wait"), stack' = Pop, UNCHANGED <<up, todo, issued>>,
         down' = down \/ (down # <<>> /\ down' = Tail(down))
  PROVE  ReplyInv'
<1>1. down \in Seq(Message)
  BY DEF ReplyInv, TypeOK
<1>2. OnWire(down') \subseteq OnWire(down)
  BY <1>1, Wires
<1>3. CallbackTop' /\ ~Running("callback")'
  BY PopTop DEF Running, ReplyInv
<1> QED
  BY <1>2, <1>3, ReplyKept DEF Serving

LEMMA ReplyAnswered ==
  ASSUME ReplyInv, TypeOK', CallbackReturns
  PROVE  ReplyInv'
<1>1. stack # <<>> /\ stack' = Pop /\ UNCHANGED <<down, todo, issued>>
  BY DEF CallbackReturns, Running, platform
<1>2. CallbackTop' /\ ~Running("callback")'
  BY <1>1, PopTop DEF ReplyInv
<1>3. \A m \in OnWire(up') : m \in OnWire(up) \/ Asked(m)
  <2>1. CASE Transmit(Reply(Top)) /\ Top.type \in AutoReplied \cup Commands \cup {"PLATFORM_REQ_PUBKEY"}
    <3>1. Top \in Frame /\ up \in Seq(Message) /\ Reply(Top) \in Message
      BY <1>1, PopType DEF Reply, Message, Frame, ReplyInv, TypeOK
    <3>2. Top.type \in PlatTypes
      BY <2>1, <3>1, ServedType
    <3>3. Asked(Reply(Top))
      BY <3>2 DEF ReplyInv, Serving, CallbackReturns, Asked, Reply
    <3>4. up' = up \/ up' = Append(up, Reply(Top))
      BY <2>1 DEF Transmit
    <3>5. OnWire(Append(up, Reply(Top))) = OnWire(up) \cup {Reply(Top)}
      BY <3>1, Wires
    <3> QED
      BY <3>3, <3>4, <3>5
  <2> QED
    BY <2>1 DEF CallbackReturns
<1> QED
  BY <1>1, <1>2, <1>3, ReplyKept DEF Serving

\* The platform makes a request.
LEMMA ReplyAsked ==
  ASSUME ReplyInv, TypeOK', NEW t \in PlatTypes, NEW id \in PlatIds, PlatformAsks(t, id)
  PROVE  ReplyInv'
<1> DEFINE r == [type |-> t, id |-> id]
<1>1. r \in [type : PlatTypes, id : PlatIds] /\ issued' = Append(issued, r)
      /\ issued \in Seq([type : PlatTypes, id : PlatIds]) /\ Len(issued) \in Nat
  BY DEF PlatformAsks, ReplyInv, TypeOK
<1>2. PICK m \in Message : /\ m.type = t /\ ~m.resp /\ m.id = id /\ m.tag = Len(issued) + 1
                           /\ down' = Append(down, m)
  <2>1. [type |-> t, resp |-> FALSE, id |-> id, tag |-> Len(issued) + 1] \in Message
    BY <1>1, ConstantsAssumption DEF Message, MsgTypes
  <2> QED
    BY <2>1 DEF PlatformAsks
<1>3. \A x : Asked(x) => Asked(x)'
  BY <1>1, AskedKept DEF ReplyInv
<1>4. Asked(m)'
  <2>1. Len(issued') = Len(issued) + 1 /\ issued'[Len(issued) + 1] = r
    BY <1>1, AppendProperties
  <2> QED
    BY <1>1, <1>2, <2>1 DEF Asked
<1>5. UNCHANGED <<device, up, todo>> /\ OnWire(down') = OnWire(down) \cup {m}
  <2>1. UNCHANGED <<device, up, todo>> /\ down \in Seq(Message)
    BY DEF PlatformAsks, ReplyInv, TypeOK
  <2>2. OnWire(Append(down, m)) = OnWire(down) \cup {m}
    BY <2>1, Wires
  <2> QED
    BY <1>2, <2>1, <2>2
<1>6. ReplyMatches'
  <2>1. \A x \in OnWire(up') : x.resp => Asked(x)'
    BY <1>3, <1>5, MatchesOnWire DEF ReplyInv
  <2> QED
    BY <2>1 DEF ReplyMatches, OnWire, Asked
<1>7. (\A x \in OnWire(down) : x.type \in PlatTypes => ~x.resp /\ Asked(x))'
  <2>1. \A x \in OnWire(down') : x.type \in PlatTypes => ~x.resp /\ Asked(x)'
    BY <1>2, <1>3, <1>4, <1>5 DEF ReplyInv
  <2> QED
    BY <2>1 DEF OnWire, Asked
<1>8. CallbackTop' /\ (Serving => Top.id = seq_rcv /\ Asked(Top))'
  <2>1. Serving' => Serving /\ Top' = Top
    BY <1>5 DEF device, Serving, Running, Top
  <2> QED
    BY <1>3, <1>5, <2>1 DEF device, ReplyInv, CallbackTop
<1> QED
  BY <1>5, <1>6, <1>7, <1>8 DEF ReplyInv

LEMMA ReplyStep ==
  ASSUME ReplyInv, [Next]_vars, [MainLoopWaits]_vars
  PROVE  ReplyInv'
<1>0. TypeOK' /\ up \in Seq(Message) /\ down \in Seq(Message)
  BY TypeStep DEF ReplyInv, TypeOK
<1>1. ASSUME UNCHANGED <<stack, seq_rcv, issued>>, OnWire(up') \subseteq OnWire(up),
             \A m \in OnWire(down') : m \in OnWire(down) \/ m.type \notin PlatTypes,
             \A m \in todo' : m \in todo \/ m.type \notin PlatTypes
      PROVE  ReplyInv'
  <2>1. CallbackTop' /\ (Serving' => (Top.id = seq_rcv /\ Asked(Top))')
    BY <1>1 DEF ReplyInv, CallbackTop, Serving, Running, Top, Asked
  <2> QED
    BY <1>0, <1>1, <2>1, ReplyKept
<1>2. ASSUME NEW t \in AskTypes, Ask(t) PROVE ReplyInv'
  <2>1. CASE UNCHANGED vars
    BY <1>1, <2>1 DEF vars, device, platform
  <2>2. CASE stack = <<>>
    BY <1>0, <1>2, <2>2, ReplySends DEF Ask, platform, DevTypes
  <2> QED
    BY <1>2, <2>1, <2>2 DEF MainLoopWaits
<1>3. ASSUME NEW t \in TellTypes, Tell(t) PROVE ReplyInv'
  BY <1>0, <1>3, ReplySends DEF Tell, platform, DevTypes
<1>4. CASE CheckReceive
  <2>1. Head(down).type \in PlatTypes => ~Head(down).resp
    BY <1>0, <1>4, Wires DEF CheckReceive, ReplyInv
  <2> QED
    BY <1>0, <1>4, <2>1, ReplyReceives DEF CheckReceive, SeqRcvAfter, platform
<1>5. CASE TakeOther
  BY <1>0, <1>5, ReplyReceives DEF TakeOther, platform
<1>6. CASE TakeAnswer \/ WaitFails
  BY <1>0, <1>6, ReplyReturns DEF TakeAnswer, WaitFails, platform
<1>7. CASE CallbackReturns
  BY <1>0, <1>7, ReplyAnswered
<1>8. CASE Reconnect \/ LinkBreaks
  BY <1>0, <1>1, <1>8, Wires DEF Reconnect, LinkBreaks, device
<1>9. CASE PlatformReads
  <2>1. \A m \in todo' : m \in todo \/ m.type \notin PlatTypes
    BY <1>9, ConstantsAssumption DEF PlatformReads, Answerable, AppTypes, AutoReplied, Commands
  <2> QED
    BY <1>0, <1>1, <1>9, <2>1, Wires DEF PlatformReads, device
<1>10. ASSUME NEW m \in todo, PlatformAnswers(m) PROVE ReplyInv'
  <2> DEFINE a == [m EXCEPT !.resp = (m.type # "ADD_CHANNEL")]
  <2>1. a \in Message /\ a.type = m.type /\ m.type \notin PlatTypes
    BY DEF ReplyInv, TypeOK, Message
  <2>2. OnWire(down') = OnWire(down) \cup {a} /\ todo' \subseteq todo
        /\ UNCHANGED <<device, up, issued>>
    BY <1>0, <1>10, <2>1, Wires DEF PlatformAnswers
  <2> QED
    BY <1>1, <2>1, <2>2 DEF device
<1>11. ASSUME NEW t \in PlatTypes, NEW id \in PlatIds, PlatformAsks(t, id) PROVE ReplyInv'
  BY <1>0, <1>11, ReplyAsked
<1>12. CASE UNCHANGED vars
  BY <1>1, <1>12 DEF vars, device, platform
<1>13. ASSUME NEW id \in PlatIds, PlatformNotifies(id) PROVE ReplyInv'
  <2>1. PICK r \in Message : r.type \notin PlatTypes /\ down' = Append(down, r)
    BY <1>13, NoticeApart DEF PlatformNotifies
  <2>2. OnWire(down') = OnWire(down) \cup {r} /\ UNCHANGED <<device, up, todo, issued>>
    BY <1>0, <1>13, <2>1, Wires DEF PlatformNotifies, platform
  <2> QED
    BY <1>1, <2>1, <2>2 DEF device
<1> QED
  BY <1>2, <1>3, <1>4, <1>5, <1>6, <1>7, <1>8, <1>9, <1>10, <1>11, <1>12, <1>13
  DEF Next, Device, Environment

(***************************************************************************)
(* A reply bears the id and the type of the request it replies to, as long *)
(* as callbacks make no call that waits: nothing is received, and          *)
(* dev->seq_rcv not overwritten, while a callback runs (protocol.c:318,    *)
(* 372, 425).                                                              *)
(***************************************************************************)
THEOREM RepliesMatch == Spec /\ [][MainLoopWaits]_vars => []ReplyMatches
<1>1. Init => ReplyInv
  <2>1. Init => TypeOK
    BY ConstantsAssumption DEF Init, TypeOK, Outcome
  <2> QED
    BY <2>1 DEF Init, ReplyInv, CallbackTop, ReplyMatches, OnWire, Serving, Running
<1>2. ReplyInv /\ [Next]_vars /\ [MainLoopWaits]_vars => ReplyInv'
  BY ReplyStep
<1>3. ReplyInv => ReplyMatches
  BY DEF ReplyInv
<1> QED
  BY <1>1, <1>2, <1>3, PTL DEF Spec

\* Where callbacks do not call the SDK at all, only the main loop can wait.
LEMMA NoCallsWait ==
  ASSUME NestDepth = 0
  PROVE  Spec => [][MainLoopWaits]_vars
<1>1. TypeOK /\ [Next]_vars => [MainLoopWaits]_vars
  BY DEF MainLoopWaits, Ask, MayCall, Running, TypeOK
<1> QED
  BY <1>1, TypeCorrect, PTL DEF Spec

(***************************************************************************)
(* The same, where callbacks do not call the SDK (protocol.c:318, 372).    *)
(***************************************************************************)
COROLLARY RepliesMatchAlone ==
  ASSUME NestDepth = 0
  PROVE  Spec => []ReplyMatches
BY NoCallsWait, RepliesMatch, PTL

-----------------------------------------------------------------------------
(***************************************************************************)
(* Why the device implements RequestReply.  What waits to be taken in was  *)
(* answered; and the platform's requests replied to, the one being served  *)
(* and those on their way are, one behind the other, in their order.       *)
(***************************************************************************)
AnswersGiven == \A m \in OnWire(down) : m.type \in DevTypes => m.tag \in answered

\* The request m comes after all that have had their turn.
Later(m) ==
  /\ \A k \in 1..Len(replied) : replied[k] < m.tag
  /\ Serving => Top.tag < m.tag

\* A request on its way comes after those, and after the ones before it.
Follows(i) ==
  down[i].type \in PlatTypes =>
    /\ Later(down[i])
    /\ \A j \in 1..Len(down) :
         j < i /\ down[j].type \in PlatTypes => down[j].tag < down[i].tag

InTurn ==
  /\ \A k \in 1..Len(replied) : replied[k] \in 1..Len(issued)
  /\ Serving => \A k \in 1..Len(replied) : replied[k] < Top.tag
  /\ \A i \in 1..Len(down) : Follows(i)

ContractInv == AnswerInv /\ ReplyInv /\ AnswersGiven /\ InTurn

\* The steps that let no request of the platform have its turn.
LEMMA TurnKept ==
  ASSUME ReplyInv, InTurn, UNCHANGED <<replied, issued>>,
         Serving' => Serving /\ Top' = Top,
         \/ UNCHANGED down
         \/ down # <<>> /\ down' = Tail(down)
         \/ down' = <<>>
         \/ \E m \in Message : m.type \notin PlatTypes /\ down' = Append(down, m)
  PROVE  InTurn'
<1>1. down \in Seq(Message) /\ Len(down) \in Nat
  BY DEF ReplyInv, TypeOK
<1>2. \A m : Later(m) => Later(m)'
  BY DEF Later
<1>3. ASSUME NEW i \in 1..Len(down') PROVE Follows(i)'
  <2>1. CASE UNCHANGED down
    BY <1>2, <2>1 DEF InTurn, Follows
  <2>2. CASE down # <<>> /\ down' = Tail(down)
    <3>1. /\ Len(down') = Len(down) - 1
          /\ \A j \in 1..Len(down') : j + 1 \in 1..Len(down) /\ down'[j] = down[j + 1]
      BY <1>1, <2>2, HeadTailProperties
    <3>2. /\ Follows(i + 1)
          /\ \A j \in 1..Len(down') : j < i => j + 1 < i + 1
      BY <1>1, <3>1 DEF InTurn
    <3> QED
      BY <1>2, <3>1, <3>2 DEF Follows
  <2>3. CASE down' = <<>>
    BY <2>3
  <2>4. ASSUME NEW m \in Message, m.type \notin PlatTypes, down' = Append(down, m)
        PROVE  Follows(i)'
    <3>1. /\ Len(down') = Len(down) + 1 /\ down'[Len(down) + 1] = m
          /\ \A j \in 1..Len(down) : down'[j] = down[j]
      BY <1>1, <2>4, AppendProperties
    <3>2. CASE i = Len(down) + 1
      BY <2>4, <3>1, <3>2 DEF Follows
    <3>3. CASE i \in 1..Len(down)
      BY <1>1, <1>2, <2>4, <3>1, <3>3 DEF InTurn, Follows
    <3> QED
      BY <1>1, <3>1, <3>2, <3>3
  <2> QED
    BY <2>1, <2>2, <2>3, <2>4
<1> QED
  BY <1>3 DEF InTurn

\* The next of them arrives.
LEMMA TurnArrives ==
  ASSUME ReplyInv, InTurn, ~Serving, down # <<>>, down' = Tail(down), UNCHANGED <<replied, issued>>,
         Serving' => Head(down).type \in PlatTypes /\ Top'.tag = Head(down).tag
  PROVE  InTurn'
<1>1. /\ down \in Seq(Message) /\ Len(down) \in Nat /\ Len(down) # 0 /\ Head(down) = down[1]
      /\ Len(down') = Len(down) - 1
      /\ \A j \in 1..Len(down') : j + 1 \in 1..Len(down) /\ down'[j] = down[j + 1]
  BY HeadTailProperties DEF ReplyInv, TypeOK
<1>2. Serving' => \A k \in 1..Len(replied) : replied[k] < Top'.tag
  BY <1>1 DEF InTurn, Follows, Later
<1>3. ASSUME NEW i \in 1..Len(down') PROVE Follows(i)'
  <2>1. /\ Follows(i + 1) /\ 1 \in 1..Len(down) /\ 1 < i + 1
        /\ \A j \in 1..Len(down') : j < i => j + 1 < i + 1
    BY <1>1 DEF InTurn
  <2>2. \A m : m = down[i + 1] /\ m.type \in PlatTypes => Later(m)'
    <3>1. SUFFICES ASSUME NEW m, m = down[i + 1], m.type \in PlatTypes PROVE Later(m)'
      OBVIOUS
    <3>2. Later(m) /\ (Head(down).type \in PlatTypes => Head(down).tag < m.tag)
      BY <1>1, <2>1, <3>1 DEF Follows
    <3> QED
      BY <3>2 DEF Later
  <2> QED
    BY <1>1, <2>1, <2>2 DEF Follows
<1> QED
  BY <1>2, <1>3 DEF InTurn

\* The one being served is replied to, or not.
LEMMA TurnEnds ==
  ASSUME ReplyInv, InTurn, ~Serving', UNCHANGED <<down, issued>>,
         UNCHANGED replied \/ (Serving /\ replied' = Append(replied, Top.tag))
  PROVE  InTurn'
<1>1. CASE UNCHANGED replied
  BY <1>1, TurnKept
<1>2. CASE Serving /\ replied' = Append(replied, Top.tag)
  <2>1. Top.tag \in 1..Len(issued) /\ replied \in Seq(Nat) /\ Len(issued) \in Nat
    BY <1>2 DEF ReplyInv, Asked, TypeOK
  <2>2. /\ Len(replied) \in Nat /\ Len(replied') = Len(replied) + 1
        /\ replied'[Len(replied) + 1] = Top.tag
        /\ \A k \in 1..Len(replied) : replied'[k] = replied[k]
    BY <1>2, <2>1, AppendProperties
  <2>3. \A k \in 1..Len(replied') : k \in 1..Len(replied) \/ replied'[k] = Top.tag
    BY <2>2
  <2>4. \A m : Later(m) => Later(m)'
    BY <1>2, <2>2, <2>3 DEF Later
  <2>5. \A i \in 1..Len(down') : Follows(i)'
    BY <2>4 DEF InTurn, Follows
  <2> QED
    BY <2>1, <2>2, <2>3, <2>5 DEF InTurn
<1> QED
  BY <1>1, <1>2

\* The platform makes one more.
LEMMA TurnAsked ==
  ASSUME ReplyInv, InTurn, NEW t \in PlatTypes, NEW id \in PlatIds, PlatformAsks(t, id)
  PROVE  InTurn'
<1>1. PICK m \in Message : m.type = t /\ m.tag = Len(issued) + 1 /\ down' = Append(down, m)
  <2>1. [type |-> t, resp |-> FALSE, id |-> id, tag |-> Len(issued) + 1] \in Message
    BY ConstantsAssumption DEF Message, MsgTypes, ReplyInv, TypeOK
  <2> QED
    BY <2>1 DEF PlatformAsks
<1>2. /\ down \in Seq(Message) /\ Len(down) \in Nat
      /\ Len(issued) \in Nat /\ Len(issued') = Len(issued) + 1
  BY AppendProperties DEF PlatformAsks, ReplyInv, TypeOK
<1>3. /\ UNCHANGED <<replied, device>> /\ (Serving' <=> Serving) /\ Top' = Top
  BY DEF PlatformAsks, device, Serving, Running, Top
<1>4. /\ Len(down') = Len(down) + 1 /\ down'[Len(down) + 1] = m
      /\ \A j \in 1..Len(down) : down'[j] = down[j]
  BY <1>1, <1>2, AppendProperties
<1>5. \A x : Later(x) => Later(x)'
  BY <1>3 DEF Later
<1>6. \A j \in 1..Len(down) : down[j].type \in PlatTypes => down[j].tag \in 1..Len(issued)
  BY DEF ReplyInv, OnWire, Asked
<1>7. Later(m)'
  <2>1. Serving => Top.tag \in 1..Len(issued)
    BY DEF ReplyInv, Asked
  <2> QED
    BY <1>1, <1>2, <1>3, <2>1 DEF Later, InTurn
<1>8. ASSUME NEW i \in 1..Len(down') PROVE Follows(i)'
  <2>1. CASE i = Len(down) + 1
    BY <1>1, <1>2, <1>4, <1>6, <1>7, <2>1 DEF Follows
  <2>2. CASE i \in 1..Len(down)
    BY <1>2, <1>4, <1>5, <2>2 DEF InTurn, Follows
  <2> QED
    BY <1>2, <1>4, <2>1, <2>2
<1> QED
  BY <1>2, <1>3, <1>8 DEF InTurn

LEMMA TurnStep ==
  ASSUME ReplyInv, InTurn, [Next]_vars, [MainLoopWaits]_vars
  PROVE  InTurn'
<1>0. TypeOK /\ CallbackTop /\ down \in Seq(Message)
  BY DEF ReplyInv, TypeOK
<1>1. ASSUME NEW t \in DevTypes, UNCHANGED <<down, replied, issued>>,
             \/ UNCHANGED stack
             \/ /\ stack = <<>>
                /\ stack' = Append(stack, [op |-> "wait", type |-> t, id |-> seq_snd, tag |-> calls + 1])
      PROVE  InTurn'
  <2> DEFINE f == [op |-> "wait", type |-> t, id |-> seq_snd, tag |-> calls + 1]
  <2>1. CASE UNCHANGED stack
    BY <1>1, <2>1, TurnKept DEF Serving, Running, Top
  <2>2. CASE stack = <<>> /\ stack' = Append(stack, f)
    <3>1. f \in Frame
      BY <1>0, <1>1 DEF TypeOK, Frame, MsgTypes
    <3>2. ~Serving'
      BY <1>0, <2>2, <3>1, PushTop DEF Serving
    <3> QED
      BY <1>1, <3>2, TurnKept
  <2> QED
    BY <1>1, <2>1, <2>2
<1>2. ASSUME down # <<>>, down' = Tail(down), stack = <<>> \/ Running("wait"),
             Dispatch(Head(down)), UNCHANGED <<replied, issued>>
      PROVE  InTurn'
  <2> DEFINE m == Head(down)
             f == [op |-> "callback", type |-> m.type, id |-> m.id, tag |-> m.tag]
  <2>1. f \in Frame
    BY <1>0, <1>2, HeadDown DEF Message, Frame
  <2>2. ~Serving /\ \A i \in 1..Len(stack) : stack[i].op # "callback"
    BY <1>0, <1>2 DEF CallbackTop, Serving, Running, Top
  <2>3. Serving' => m.type \in PlatTypes /\ Top'.tag = m.tag
    <3>1. CASE UNCHANGED stack
      BY <2>2, <3>1 DEF Serving, Running, Top
    <3>2. CASE stack' = Append(stack, f)
      BY <1>0, <2>1, <2>2, <3>2, PushTop DEF Serving
    <3> QED
      BY <1>2, <3>1, <3>2 DEF Dispatch
  <2> QED
    BY <1>2, <2>2, <2>3, TurnArrives
<1>3. ASSUME stack # <<>>, stack' = Pop PROVE ~Serving'
  BY <1>0, <1>3, PopTop DEF Serving
<1>4. ASSUME UNCHANGED <<stack, replied, issued>>,
             \/ UNCHANGED down \/ down' = <<>>
             \/ \E m \in Message : m.type \notin PlatTypes /\ down' = Append(down, m)
      PROVE  InTurn'
  BY <1>4, TurnKept DEF Serving, Running, Top
<1>5. ASSUME NEW t \in AskTypes, Ask(t) PROVE InTurn'
  <2>1. CASE UNCHANGED vars
    BY <1>4, <2>1 DEF vars, device, platform
  <2>2. CASE stack = <<>>
    BY <1>1, <1>5, <2>2 DEF Ask, platform, DevTypes
  <2> QED
    BY <1>5, <2>1, <2>2 DEF MainLoopWaits
<1>6. ASSUME NEW t \in TellTypes, Tell(t) PROVE InTurn'
  BY <1>1, <1>6 DEF Tell, platform, DevTypes
<1>7. CASE CheckReceive \/ TakeOther
  BY <1>2, <1>7 DEF CheckReceive, TakeOther, platform
<1>8. CASE TakeAnswer \/ WaitFails
  BY <1>3, <1>8, TurnKept DEF TakeAnswer, WaitFails, Running, platform
<1>9. CASE CallbackReturns
  <2>1. UNCHANGED replied \/ (Serving /\ replied' = Append(replied, Top.tag))
    <3>1. Top \in Frame
      BY <1>0, <1>9, PopType DEF CallbackReturns, Running
    <3>2. Top.type \in AutoReplied \cup Commands \cup {"PLATFORM_REQ_PUBKEY"} => Top.type \in PlatTypes
      BY <3>1, ServedType
    <3> QED
      BY <1>9, <3>2 DEF CallbackReturns, Serving
  <2> QED
    BY <1>3, <1>9, <2>1, TurnEnds DEF CallbackReturns, Running, platform
<1>10. CASE Reconnect \/ LinkBreaks \/ PlatformReads \/ UNCHANGED vars
  BY <1>4, <1>10 DEF Reconnect, LinkBreaks, PlatformReads, vars, device, platform
<1>11. ASSUME NEW m \in todo, PlatformAnswers(m) PROVE InTurn'
  <2>1. /\ [m EXCEPT !.resp = (m.type # "ADD_CHANNEL")] \in Message
        /\ [m EXCEPT !.resp = (m.type # "ADD_CHANNEL")].type \notin PlatTypes
    BY DEF ReplyInv, TypeOK, Message
  <2> QED
    BY <1>4, <1>11, <2>1 DEF PlatformAnswers, device
<1>12. ASSUME NEW t \in PlatTypes, NEW id \in PlatIds, PlatformAsks(t, id) PROVE InTurn'
  BY <1>12, TurnAsked
<1>13. ASSUME NEW id \in PlatIds, PlatformNotifies(id) PROVE InTurn'
  BY <1>4, <1>13, NoticeApart DEF PlatformNotifies, device, platform
<1> QED
  BY <1>5, <1>6, <1>7, <1>8, <1>9, <1>10, <1>11, <1>12, <1>13 DEF Next, Device, Environment

LEMMA GivenStep ==
  ASSUME AnswerInv, AnswersGiven, [Next]_vars
  PROVE  AnswersGiven'
<1>0. down \in Seq(Message) /\ todo \subseteq Message
  BY DEF AnswerInv, TypeOK
<1>1. ASSUME UNCHANGED answered, down' = down \/ down' = <<>> \/ (down # <<>> /\ down' = Tail(down))
      PROVE  AnswersGiven'
  <2>1. OnWire(down') \subseteq OnWire(down)
    BY <1>0, <1>1, Wires
  <2>2. \A m \in OnWire(down') : m.type \in DevTypes => m.tag \in answered'
    BY <1>1, <2>1 DEF AnswersGiven
  <2> QED
    BY <2>2 DEF AnswersGiven, OnWire
<1>2. ASSUME NEW a \in Message, down' = Append(down, a), answered \subseteq answered',
             a.type \in DevTypes => a.tag \in answered'
      PROVE  AnswersGiven'
  <2>1. OnWire(Append(down, a)) = OnWire(down) \cup {a}
    BY <1>0, Wires
  <2>2. \A m \in OnWire(down') : m.type \in DevTypes => m.tag \in answered'
    BY <1>2, <2>1 DEF AnswersGiven
  <2> QED
    BY <2>2 DEF AnswersGiven, OnWire
<1>3. ASSUME NEW m \in todo, PlatformAnswers(m) PROVE AnswersGiven'
  <2> DEFINE a == [m EXCEPT !.resp = (m.type # "ADD_CHANNEL")]
  <2>1. a \in Message /\ a.tag = m.tag
    BY <1>0 DEF Message
  <2>2. down' = Append(down, a) /\ answered' = answered \cup {m.tag}
    BY <1>3 DEF PlatformAnswers
  <2> HIDE DEF a
  <2> QED
    BY <1>2, <2>1, <2>2
<1>4. ASSUME NEW t \in PlatTypes, NEW id \in PlatIds, PlatformAsks(t, id) PROVE AnswersGiven'
  <2> DEFINE a == [type |-> t, resp |-> FALSE, id |-> id, tag |-> Len(issued) + 1]
  <2>1. a \in Message /\ a.type \notin DevTypes
    BY ConstantsAssumption DEF Message, MsgTypes, DevTypes, AnswerInv, TypeOK
  <2>2. down' = Append(down, a) /\ UNCHANGED answered
    BY <1>4 DEF PlatformAsks
  <2> HIDE DEF a
  <2> QED
    BY <1>2, <2>1, <2>2
<1>5. CASE \/ \E t \in AskTypes : Ask(t)
           \/ \E t \in TellTypes : Tell(t)
           \/ CallbackReturns \/ WaitFails \/ Reconnect
  BY <1>1, <1>5 DEF Ask, Tell, CallbackReturns, WaitFails, Reconnect, platform
<1>6. CASE CheckReceive \/ TakeAnswer \/ TakeOther
  BY <1>1, <1>6 DEF CheckReceive, TakeAnswer, TakeOther, platform
<1>7. CASE LinkBreaks \/ PlatformReads \/ UNCHANGED vars
  BY <1>1, <1>7 DEF LinkBreaks, PlatformReads, vars, platform
<1>8. ASSUME NEW id \in PlatIds, PlatformNotifies(id) PROVE AnswersGiven'
  <2>1. PICK a \in Message : a.type \notin DevTypes /\ down' = Append(down, a)
    BY <1>8, NoticeApart DEF PlatformNotifies
  <2> QED
    BY <1>2, <1>8, <2>1 DEF PlatformNotifies, platform
<1> QED
  BY <1>3, <1>4, <1>5, <1>6, <1>7, <1>8 DEF Next, Device, Environment

-----------------------------------------------------------------------------
(***************************************************************************)
(* The refinement: each step of the device is a step of RequestReply, or   *)
(* none.                                                                   *)
(***************************************************************************)
LEMMA WaitingSet == Waiting = {stack[i].tag : i \in {k \in 1..Len(stack) : WaitsAt(k)}}
BY DEF Waiting, WaitsAt

\* A call that waits leaves no other behind.
LEMMA LastWaits ==
  ASSUME AnswerInv, Running("wait"), stack' = Pop
  PROVE  Waiting = {Top.tag} /\ Waiting' = {}
<1>1. /\ Len(stack) \in 1..Len(stack) /\ WaitsAt(Len(stack))
      /\ \A i \in 1..Len(Pop) : Pop[i].op # "wait"
  BY TopWaits
<1>2. \A i \in 1..Len(stack) : WaitsAt(i) => i = Len(stack)
  BY <1>1 DEF AnswerInv, OneWaits
<1> QED
  BY <1>1, <1>2 DEF Waiting, WaitsAt, Top

\* A callback comes or goes, and the calls that wait stay.
LEMMA SameWait ==
  ASSUME \A i : WaitsAt(i) <=> WaitsAt(i)', \A i : WaitsAt(i) => stack'[i] = stack[i]
  PROVE  Waiting' = Waiting
<1>1. \A i : i \in {k \in 1..Len(stack) : stack[k].op = "wait"}
              <=> i \in {k \in 1..Len(stack') : stack'[k].op = "wait"}
  BY DEF WaitsAt
<1> QED
  BY <1>1 DEF Waiting, WaitsAt

LEMMA CallbackPops ==
  ASSUME TypeOK, Running("callback"), stack' = Pop
  PROVE  Waiting' = Waiting
<1>1. /\ Len(stack) \in Nat /\ Len(stack') = Len(stack) - 1
      /\ \A i \in 1..Len(stack') : stack'[i] = stack[i]
  BY PopType DEF Running, TypeOK
<1>2. stack[Len(stack)].op # "wait"
  BY DEF Running, Top
<1> QED
  BY <1>1, <1>2, SameWait DEF WaitsAt

LEMMA ContractCall ==
  ASSUME AnswerInv, NEW t, calls' = calls + 1,
         UNCHANGED <<answered, issued, replied>>,
         \/ UNCHANGED <<stack, outcome>>
         \/ /\ UNCHANGED stack
            /\ outcome' = [call |-> calls + 1, result |-> "fail", by |-> NoAnswer]
         \/ /\ stack = <<>>
            /\ stack' = Append(stack, [op |-> "wait", type |-> t, id |-> seq_snd, tag |-> calls + 1])
            /\ UNCHANGED outcome
  PROVE  Contract!Call
<1>2. CASE UNCHANGED <<stack, outcome>>
  BY <1>2 DEF Contract!Call, Waiting, AnswerReturned
<1>3. CASE /\ UNCHANGED stack
           /\ outcome' = [call |-> calls + 1, result |-> "fail", by |-> NoAnswer]
  BY <1>3 DEF Contract!Call, Waiting, AnswerReturned
<1>4. CASE /\ stack = <<>>
           /\ stack' = Append(stack, [op |-> "wait", type |-> t, id |-> seq_snd, tag |-> calls + 1])
           /\ UNCHANGED outcome
  <2>1. Len(stack') = 1 /\ stack'[1].op = "wait" /\ stack'[1].tag = calls + 1
    BY <1>4
  <2>2. Waiting = {} /\ Waiting' = {calls + 1}
    BY <1>4, <2>1 DEF Waiting
  <2> QED
    BY <1>4, <2>2 DEF Contract!Call, AnswerReturned
<1> QED
  BY <1>2, <1>3, <1>4

LEMMA ContractReturn ==
  ASSUME NoNestedWait, IdsApart, ContractInv, TakeAnswer \/ WaitFails
  PROVE  Contract!Return
<1>1. /\ Running("wait") /\ stack' = Pop /\ UNCHANGED <<calls, answered, issued, replied>>
  BY DEF TakeAnswer, WaitFails, platform
<1>2. Waiting = {Top.tag} /\ Waiting' = {}
  BY <1>1, LastWaits DEF ContractInv
<1>3. AnswerReturned' = 0 \/ (AnswerReturned' = Top.tag /\ Top.tag \in answered)
  <2>1. CASE TakeAnswer
    <3>1. OwnAnswer' /\ outcome'.call = Top.tag
          /\ outcome'.by = [type |-> Head(down).type, tag |-> Head(down).tag]
          /\ outcome'.result \in {"ok", "nomem"}
      <4>1. [Next]_vars
        BY <2>1 DEF Next, Device
      <4>2. AnswerInv'
        BY <4>1, AnswerStep DEF ContractInv
      <4> QED
        BY <2>1, <4>2 DEF AnswerInv, TakeAnswer, Returned
    <3>2. Head(down).type \in AskTypes /\ Head(down).tag = Top.tag
      BY <3>1 DEF OwnAnswer
    <3>3. Head(down) \in OnWire(down)
      BY <2>1, Wires DEF TakeAnswer, ContractInv, AnswerInv, TypeOK
    <3> QED
      BY <3>1, <3>2, <3>3 DEF ContractInv, AnswersGiven, AnswerReturned, DevTypes
  <2>2. CASE WaitFails
    BY <2>2 DEF WaitFails, Returned, AnswerReturned
  <2> QED
    BY <2>1, <2>2
<1>4. outcome'.call = Top.tag
  BY DEF TakeAnswer, WaitFails, Returned
<1> QED
  BY <1>1, <1>2, <1>3, <1>4 DEF Contract!Return

LEMMA ContractReply ==
  ASSUME ContractInv, CallbackReturns
  PROVE  Contract!PlatformReply \/ UNCHANGED Contract!vars
<1>1. /\ Running("callback") /\ stack' = Pop /\ stack # <<>>
      /\ UNCHANGED <<calls, answered, issued, outcome>>
  BY DEF CallbackReturns, Running, platform
<1>2. Waiting' = Waiting /\ AnswerReturned' = AnswerReturned
  BY <1>1, CallbackPops DEF ContractInv, ReplyInv, AnswerReturned
<1>3. CASE UNCHANGED replied
  BY <1>1, <1>2, <1>3 DEF Contract!vars
<1>4. CASE /\ Top.type \in AutoReplied \cup Commands \cup {"PLATFORM_REQ_PUBKEY"}
           /\ replied' = Append(replied, Top.tag)
  <2>1. Top \in Frame
    BY <1>1, PopType DEF ContractInv, ReplyInv
  <2>2. Serving
    BY <1>1, <1>4, <2>1, ServedType DEF Serving
  <2>3. Top.tag \in 1..Len(issued) /\ \A i \in 1..Len(replied) : replied[i] < Top.tag
    BY <2>2 DEF ContractInv, ReplyInv, Asked, InTurn
  <2> QED
    BY <1>1, <1>2, <1>4, <2>3 DEF Contract!PlatformReply
<1> QED
  BY <1>3, <1>4 DEF CallbackReturns

LEMMA ContractStep ==
  ASSUME NoNestedWait, IdsApart, ContractInv, [Next]_vars, [MainLoopWaits]_vars
  PROVE  [Contract!Next]_(Contract!vars)
<1> USE DEF Contract!Next
<1>0. AnswerInv /\ issued \in Seq([type : PlatTypes, id : PlatIds])
  BY DEF ContractInv, AnswerInv, TypeOK
<1>1. ASSUME NEW t \in AskTypes, Ask(t), stack = <<>> PROVE Contract!Call
  BY <1>0, <1>1, ContractCall DEF Ask, platform
<1>2. ASSUME NEW t \in TellTypes, Tell(t) PROVE Contract!Call
  BY <1>0, <1>2, ContractCall DEF Tell, platform
<1>3. CASE CheckReceive \/ TakeOther
  <2>1. /\ down # <<>> /\ Dispatch(Head(down)) /\ UNCHANGED <<calls, outcome, platform, replied>>
    BY <1>3 DEF CheckReceive, TakeOther
  <2>2. Waiting' = Waiting
    BY <1>0, <2>1, DispatchNumbers, SameWait
  <2> QED
    BY <2>1, <2>2 DEF Contract!vars, AnswerReturned, platform
<1>4. CASE TakeAnswer \/ WaitFails
  BY <1>0, <1>4, ContractReturn
<1>5. CASE CallbackReturns
  BY <1>5, ContractReply
<1>6. CASE Reconnect \/ LinkBreaks \/ PlatformReads \/ UNCHANGED vars
  BY <1>6 DEF Reconnect, LinkBreaks, PlatformReads, vars, device, platform,
              Contract!vars, Waiting, AnswerReturned
<1>7. ASSUME NEW m \in todo, PlatformAnswers(m) PROVE Contract!Answer
  <2>1. m.tag \in 1..calls
    BY <1>0 DEF AnswerInv, InFlight, Numbered
  <2> QED
    BY <1>7, <2>1 DEF PlatformAnswers, device, Contract!Answer, Waiting, AnswerReturned
<1>8. ASSUME NEW t \in PlatTypes, NEW id \in PlatIds, PlatformAsks(t, id)
      PROVE  Contract!PlatformRequest
  <2>1. Len(issued') = Len(issued) + 1
    BY <1>0, <1>8, AppendProperties DEF PlatformAsks
  <2> QED
    BY <1>8, <2>1
    DEF PlatformAsks, device, Contract!PlatformRequest, Waiting, AnswerReturned
<1>9. CASE \E t \in AskTypes : Ask(t)
  BY <1>1, <1>6, <1>9 DEF MainLoopWaits
<1>10. ASSUME NEW id \in PlatIds, PlatformNotifies(id) PROVE UNCHANGED Contract!vars
  BY <1>10 DEF PlatformNotifies, device, platform, Contract!vars, Waiting, AnswerReturned
<1> QED
  BY <1>2, <1>3, <1>4, <1>5, <1>6, <1>7, <1>8, <1>9, <1>10 DEF Next, Device, Environment

(***************************************************************************)
(* The device implements RequestReply, as long as the platform's ids stay  *)
(* below the device's, callbacks make no call that waits, and a callback   *)
(* that runs inside a waiting call makes none at all: a call returns the   *)
(* answer to itself or none (protocol.c:408-433), and the platform's       *)
(* requests are replied to in their order, each at most once               *)
(* (protocol.c:318-372, 425).                                              *)
(***************************************************************************)
THEOREM Refines ==
  ASSUME NoNestedWait, IdsApart
  PROVE  Spec /\ [][MainLoopWaits]_vars => ImplementsContract
<1>1. Init => ContractInv /\ Contract!Init
  <2>1. Init => TypeOK
    BY ConstantsAssumption DEF Init, TypeOK, Outcome
  <2>2. Init => AnswerInv
    BY <2>1, ConstantsAssumption
    DEF Init, AnswerInv, OneWaits, SeqSndCounts, WaitsAt, InFlight, OnWire, OwnAnswer
  <2>3. Init => ReplyInv
    BY <2>1 DEF Init, ReplyInv, CallbackTop, ReplyMatches, OnWire, Serving, Running
  <2>4. Init => AnswersGiven /\ InTurn
    BY DEF Init, AnswersGiven, InTurn, OnWire, Serving, Running
  <2>5. Init => Contract!Init
    BY DEF Init, Contract!Init, Waiting, AnswerReturned
  <2> QED
    BY <2>2, <2>3, <2>4, <2>5 DEF ContractInv
<1>2. ContractInv /\ [Next]_vars /\ [MainLoopWaits]_vars => ContractInv'
  BY AnswerStep, ReplyStep, TurnStep, GivenStep DEF ContractInv
<1>3. ContractInv /\ [Next]_vars /\ [MainLoopWaits]_vars => [Contract!Next]_(Contract!vars)
  BY ContractStep
<1> QED
  BY <1>1, <1>2, <1>3, PTL DEF Spec, ImplementsContract, Contract!Spec

(***************************************************************************)
(* The same, where callbacks do not call the SDK.                          *)
(***************************************************************************)
COROLLARY RefinesAlone ==
  ASSUME NestDepth = 0, IdsApart
  PROVE  Spec => ImplementsContract
<1>1. NoNestedWait
  BY DEF NoNestedWait
<1> QED
  BY <1>1, NoCallsWait, Refines, PTL
=============================================================================
