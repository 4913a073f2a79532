--------------------------- MODULE DeviceProtocol ---------------------------
(***************************************************************************)
(* The request/response protocol between one device and the OneNET video   *)
(* platform (src/src/protocol.c, the callers in src/src/device.c).         *)
(*                                                                         *)
(* The device is a single thread of control.  ont_device_msg_sendmsg       *)
(* sends a request and, when it waits for the answer, hands every other    *)
(* message it receives to ont_device_msg_callback, which runs application  *)
(* code on the same C stack; that code may call the SDK again.  `stack' is *)
(* this C stack: a frame "wait" is a sendmsg in its wait loop, a frame     *)
(* "callback" a message being dispatched.                                  *)
(*                                                                         *)
(* Messages are whole: how bytes become messages is module MsgFraming.     *)
(***************************************************************************)
EXTENDS Integers, Sequences

CONSTANTS
  SeqInit,      \* first value of dev->seq_snd
  PlatIds,      \* message ids the platform gives its own requests
  AskTypes,     \* device requests sent with wait_resp = 1
  TellTypes,    \* device requests sent with wait_resp = 0
  PlatTypes,    \* platform requests that occur
  NestDepth,    \* deepest stack from which a callback may call the SDK again
  Faults,       \* can the link break and a send time out?
  MaxCalls,     \* bound: requests the device issues
  MaxPlatReqs,  \* bound: requests the platform issues
  MaxNotices,   \* bound: messages on the link when the platform sends a notice
  MaxConnects   \* bound: reconnections

\* Platform requests whose reply ont_device_msg_callback sends itself.
AutoReplied == {"LIVE_START", "RVOD_START", "CHANNEL_RECORD_STATUS"}

\* Platform requests whose reply, if any, the command handler sends.
Commands == {"PLATFORM_CMD", "USERDEFINED_CMD"}

\* Platform requests handed to application code.
AppTypes == AutoReplied \cup Commands \cup {"USERDEFINED_ACTIVATED_CMD"}

\* What else the platform may send, as often as it likes: a message whose type
\* the SDK does not know.
Notice == "NOTICE"

ASSUME ConstantsAssumption ==
  /\ SeqInit \in Nat
  /\ PlatIds \subseteq Nat
  /\ NestDepth \in Nat
  /\ MaxCalls \in Nat /\ MaxPlatReqs \in Nat /\ MaxConnects \in Nat
  /\ MaxNotices \in Nat
  /\ Faults \in BOOLEAN
  /\ PlatTypes \subseteq AppTypes \cup {"PLATFORM_REQ_PUBKEY"}
  /\ AskTypes \cap TellTypes = {}
  /\ (AskTypes \cup TellTypes) \cap (AppTypes \cup {"PLATFORM_REQ_PUBKEY"}) = {}
  /\ {"KEEPALIVE", Notice} \cap AskTypes = {} /\ Notice \notin TellTypes

DevTypes == AskTypes \cup TellTypes

VARIABLES
  seq_snd,   \* dev->seq_snd
  seq_rcv,   \* dev->seq_rcv
  stack,     \* the device's C stack, innermost frame last
  outcome,   \* what the last waiting sendmsg returned, and to which call
  link,      \* "up", or "broken": the device has not noticed yet
  up,        \* in flight, device to platform
  down,      \* in flight, platform to device
  todo,      \* requests the platform has read and not answered
  calls,     \* number of requests the device has issued: their serial numbers
  issued,    \* the requests the platform has issued, in order
  answered,  \* serial numbers of the device's requests the platform answered
  replied,   \* places in issued of the requests replied to, in reply order
  connects   \* reconnections so far

device   == <<seq_snd, seq_rcv, stack, outcome>>
platform == <<todo, issued, answered>>
vars == <<device, link, up, down, platform, calls, replied, connects>>

(***************************************************************************)
(* A message has its type without the response bit 0x8000, that bit, its   *)
(* id on the wire, and (ghost) the serial number of the request it is, or  *)
(* that it answers: a place in the device's calls or in issued.            *)
(***************************************************************************)
MsgTypes == DevTypes \cup PlatTypes \cup {Notice}
Message == [type : MsgTypes, resp : BOOLEAN, id : Nat, tag : Nat]
Frame   == [op : {"wait", "callback"},
            type : MsgTypes, id : Nat, tag : Nat]
NoAnswer == [type |-> "none", tag |-> 0]
Outcome == [call : Nat, result : {"none", "ok", "nomem", "timeout", "fail"},
            by : {NoAnswer} \cup [type : MsgTypes, tag : Nat]]

TypeOK ==
  /\ seq_snd \in Nat /\ seq_snd >= SeqInit
  /\ seq_rcv \in Nat
  /\ stack \in Seq(Frame)
  /\ outcome \in Outcome
  /\ link \in {"up", "broken"}
  /\ up \in Seq(Message) /\ down \in Seq(Message)
  /\ todo \subseteq Message
  /\ calls \in Nat
  /\ issued \in Seq([type : PlatTypes, id : PlatIds])
  /\ answered \subseteq Nat /\ replied \in Seq(Nat)
  /\ connects \in Nat

Init ==
  /\ seq_snd = SeqInit /\ seq_rcv = 0
  /\ stack = <<>>
  /\ outcome = [call |-> 0, result |-> "none", by |-> NoAnswer]
  /\ link = "up" /\ up = <<>> /\ down = <<>>
  /\ todo = {} /\ issued = <<>> /\ answered = {}
  /\ calls = 0 /\ replied = <<>> /\ connects = 0

-----------------------------------------------------------------------------
Top == stack[Len(stack)]
Pop == SubSeq(stack, 1, Len(stack) - 1)
Running(op) == stack # <<>> /\ Top.op = op

\* Application code has control: in the main loop, or in a callback that
\* is not too deep.  The answer to a keepalive is handed to application code too.
MayCall ==
  \/ stack = <<>>
  \/ Running("callback") /\ Top.type \in AppTypes \cup {"KEEPALIVE"} /\ Len(stack) <= NestDepth

\* The bytes of m leave the device; on a broken link nobody reads them.
Transmit(m) == up' = IF link = "up" THEN Append(up, m) ELSE up

\* Every request uses up one id, whatever becomes of it.
\* (SeqSndReversed, SeqRcvKept, IsAnyAnswer,
\* HasAwaitedType, DropOther and WaitWithoutDeadline are faulty variants, by
\* which the properties are tried out.)
SeqSndReversed == seq_snd - 1
SeqSndAfter == seq_snd + 1

\* A request takes its id from seq_snd, a response from seq_rcv.
Request(t) == [type |-> t, resp |-> FALSE, id |-> seq_snd, tag |-> calls + 1]
Reply(f)   == [type |-> f.type, resp |-> TRUE, id |-> seq_rcv, tag |-> f.tag]

Returned(result, by) ==
  outcome' = [call |-> Top.tag, result |-> result, by |-> by]

\* ont_device_msg_sendmsg, wait_resp = 1: up to the wait loop.  A send that
\* fails may have sent everything: the time is looked at after the bytes.
Ask(t) ==
  /\ MayCall /\ calls < MaxCalls
  /\ calls' = calls + 1
  /\ \/ /\ Transmit(Request(t))
        /\ stack' = Append(stack, [op |-> "wait", type |-> t,
                                   id |-> seq_snd, tag |-> calls + 1])
        /\ UNCHANGED <<seq_snd, outcome>>
     \/ /\ Faults
        /\ seq_snd' = SeqSndAfter
        /\ outcome' = [call |-> calls + 1, result |-> "fail", by |-> NoAnswer]
        /\ Transmit(Request(t)) \/ UNCHANGED up
        /\ UNCHANGED stack
  /\ UNCHANGED <<seq_rcv, link, down, platform, replied, connects>>

\* ont_device_msg_sendmsg, wait_resp = 0, for a request.
Tell(t) ==
  /\ MayCall /\ calls < MaxCalls
  /\ calls' = calls + 1
  /\ seq_snd' = SeqSndAfter
  /\ \/ Transmit(Request(t))
     \/ Faults /\ UNCHANGED up
  /\ UNCHANGED <<seq_rcv, stack, outcome, link, down, platform, replied, connects>>

-----------------------------------------------------------------------------
\* ont_device_msg_rcv remembers the id of a message without the response bit.
SeqRcvKept(m) == seq_rcv
SeqRcvAfter(m) == IF m.resp THEN seq_rcv ELSE m.id

\* The switch of ont_device_msg_callback; a message it does not know, such
\* as an answer nobody waits for any more, is dropped.
Recognized(m) == m.type \in PlatTypes \/ (m.type = "KEEPALIVE" /\ m.resp)

Dispatch(m) ==
  stack' = IF Recognized(m)
           THEN Append(stack, [op |-> "callback", type |-> m.type,
                               id |-> m.id, tag |-> m.tag])
           ELSE stack

\* ont_device_check_receive, when a message is there.  With none, or on a
\* broken link, it changes nothing.
CheckReceive ==
  /\ stack = <<>> /\ down # <<>>
  /\ down' = Tail(down)
  /\ seq_rcv' = SeqRcvAfter(Head(down))
  /\ Dispatch(Head(down))
  /\ UNCHANGED <<seq_snd, outcome, link, up, platform, calls, replied, connects>>

\* The test by which sendmsg recognizes the answer it waits for.
IsAnyAnswer(m) == m.resp
HasAwaitedType(m) == m.type = Top.type
IsAnswer(m) == m.id = seq_snd

\* The wait loop of sendmsg receives what it takes for the answer; an answer
\* longer than the caller's buffer is consumed too.
TakeAnswer ==
  /\ Running("wait") /\ down # <<>> /\ IsAnswer(Head(down))
  /\ down' = Tail(down)
  /\ seq_rcv' = SeqRcvAfter(Head(down))
  /\ stack' = Pop
  /\ seq_snd' = SeqSndAfter
  /\ \E result \in {"ok", "nomem"} :
       Returned(result, [type |-> Head(down).type, tag |-> Head(down).tag])
  /\ UNCHANGED <<link, up, platform, calls, replied, connects>>

\* Faulty variant: the wait loop drops what it does not wait for.
DropOther ==
  /\ Running("wait") /\ down # <<>> /\ ~IsAnswer(Head(down))
  /\ down' = Tail(down)
  /\ seq_rcv' = Head(down).id
  /\ UNCHANGED <<seq_snd, stack, outcome, link, up, platform, calls, replied, connects>>

\* The wait loop receives another message and has it dispatched.
TakeOther ==
  /\ Running("wait") /\ down # <<>> /\ ~IsAnswer(Head(down))
  /\ down' = Tail(down)
  /\ seq_rcv' = Head(down).id
  /\ Dispatch(Head(down))
  /\ UNCHANGED <<seq_snd, outcome, link, up, platform, calls, replied, connects>>

\* Faulty variant: no deadline, only a failing socket ends the wait.
WaitWithoutDeadline ==
  /\ Running("wait") /\ link = "broken"
  /\ Returned("fail", NoAnswer)
  /\ stack' = Pop
  /\ seq_snd' = SeqSndAfter
  /\ UNCHANGED <<seq_rcv, link, up, down, platform, calls, replied, connects>>

\* ont_device_msg_rcv returns an error to the wait loop: nothing came in
\* time, or the socket failed.
WaitFails ==
  /\ Running("wait")
  /\ \E result \in {"timeout"} \cup (IF link = "broken" THEN {"fail"} ELSE {}) :
       Returned(result, NoAnswer)
  /\ stack' = Pop
  /\ seq_snd' = SeqSndAfter
  /\ UNCHANGED <<seq_rcv, link, up, down, platform, calls, replied, connects>>

\* The callback returns.  A request of AutoReplied and a key request are
\* replied to, a command may be.  That the reply could not be sent is ignored.
CallbackReturns ==
  /\ Running("callback")
  /\ stack' = Pop
  /\ \/ /\ Top.type \in AutoReplied \cup Commands \cup {"PLATFORM_REQ_PUBKEY"}
        /\ Transmit(Reply(Top))
        /\ replied' = Append(replied, Top.tag)
     \/ /\ Faults \/ Top.type \notin AutoReplied \cup {"PLATFORM_REQ_PUBKEY"}
        /\ UNCHANGED <<up, replied>>
  /\ UNCHANGED <<seq_snd, seq_rcv, outcome, link, down, platform, calls, connects>>

\* The application reconnects after an error: a new, empty connection.  The
\* device keeps its counters.
Reconnect ==
  /\ Faults /\ stack = <<>> /\ connects < MaxConnects
  /\ connects' = connects + 1
  /\ link' = "up" /\ up' = <<>> /\ down' = <<>> /\ todo' = {}
  /\ UNCHANGED <<device, issued, answered, calls, replied>>

-----------------------------------------------------------------------------
\* The link, and the platform as the SDK sees it.
LinkBreaks ==
  /\ Faults /\ link = "up"
  /\ link' = "broken" /\ up' = <<>> /\ down' = <<>> /\ todo' = {}
  /\ UNCHANGED <<device, issued, answered, calls, replied, connects>>

Answerable(m) == ~m.resp /\ m.type \in AskTypes \cup {"KEEPALIVE"}

PlatformReads ==
  /\ up # <<>>
  /\ up' = Tail(up)
  /\ todo' = IF Answerable(Head(up)) THEN todo \cup {Head(up)} ELSE todo
  /\ UNCHANGED <<device, link, down, issued, answered, calls, replied, connects>>

\* An answer bears the id of its request, and its type with the response
\* bit, except that ADD_CHANNEL's answer has no response bit.
PlatformAnswers(m) ==
  /\ link = "up"
  /\ todo' = todo \ {m}
  /\ answered' = answered \cup {m.tag}
  /\ down' = Append(down, [m EXCEPT !.resp = (m.type # "ADD_CHANNEL")])
  /\ UNCHANGED <<device, link, up, issued, calls, replied, connects>>

PlatformAsks(t, id) ==
  /\ link = "up" /\ Len(issued) < MaxPlatReqs
  /\ issued' = Append(issued, [type |-> t, id |-> id])
  /\ down' = Append(down, [type |-> t, resp |-> FALSE, id |-> id,
                           tag |-> Len(issued) + 1])
  /\ UNCHANGED <<device, link, up, todo, answered, calls, replied, connects>>

\* The platform sends what the SDK does not know.
PlatformNotifies(id) ==
  /\ link = "up" /\ Len(down) < MaxNotices
  /\ down' = Append(down, [type |-> Notice, resp |-> FALSE, id |-> id, tag |-> 0])
  /\ UNCHANGED <<device, link, up, platform, calls, replied, connects>>

-----------------------------------------------------------------------------
Device ==
  \/ \E t \in AskTypes : Ask(t)
  \/ \E t \in TellTypes : Tell(t)
  \/ CheckReceive \/ TakeAnswer \/ TakeOther \/ WaitFails
  \/ CallbackReturns
  \/ Reconnect

Environment ==
  \/ LinkBreaks
  \/ PlatformReads
  \/ \E m \in todo : PlatformAnswers(m)
  \/ \E t \in PlatTypes, id \in PlatIds : PlatformAsks(t, id)
  \/ \E id \in PlatIds : PlatformNotifies(id)

Next == Device \/ Environment

Spec == Init /\ [][Next]_vars

(***************************************************************************)
(* The device runs: msg_rcv polls the socket until something arrives or    *)
(* the time is up, callbacks return, the main loop keeps receiving.  The   *)
(* platform and the link owe nothing.                                      *)
(***************************************************************************)
Fairness ==
  /\ WF_vars(TakeAnswer \/ TakeOther \/ WaitFails)
  /\ WF_vars(CallbackReturns)
  /\ WF_vars(CheckReceive)

FairSpec == Spec /\ Fairness

-----------------------------------------------------------------------------
(***************************************************************************)
(* The device implements the contract of module RequestReply.              *)
(***************************************************************************)
Waiting == {stack[i].tag : i \in {k \in 1..Len(stack) : stack[k].op = "wait"}}

AnswerReturned ==
  IF outcome.result \notin {"ok", "nomem"} THEN 0
  ELSE IF outcome.by.type \in AskTypes THEN outcome.by.tag ELSE -1

Contract == INSTANCE RequestReply WITH
  asked <- calls, waiting <- Waiting, answered <- answered,
  result <- [call |-> outcome.call, answer |-> AnswerReturned],
  requested <- Len(issued), replied <- replied

ImplementsContract == Contract!Spec

(***************************************************************************)
(* The answer a waiting call returns is the platform's answer to that very *)
(* call: never a late answer to an earlier call that gave up, never the    *)
(* keepalive's, never a request of the platform (protocol.c:408-433).      *)
(***************************************************************************)
OwnAnswer ==
  outcome.result \in {"ok", "nomem"} =>
    outcome.by.type \in AskTypes /\ outcome.by.tag = outcome.call

(***************************************************************************)
(* Every reply on the wire bears the id of the platform request it is the  *)
(* reply to, although it is built from dev->seq_rcv, which every received  *)
(* message may change between the request and its reply (protocol.c:318,   *)
(* 372, 425).                                                              *)
(***************************************************************************)
ReplyMatches ==
  \A i \in 1..Len(up) : up[i].resp =>
    /\ up[i].tag \in 1..Len(issued)
    /\ issued[up[i].tag] = [type |-> up[i].type, id |-> up[i].id]

\* Waiting calls are given other messages without end.  Only each receive has
\* a deadline, not the wait as a whole (protocol.c:408).
Flooded == []<><<TakeOther>>_vars

(***************************************************************************)
(* A call that waits returns, answered or not, at whatever depth of the    *)
(* stack it waits and whatever is dispatched meanwhile: the application is *)
(* not stuck in sendmsg (protocol.c:408-433), unless the platform sends    *)
(* other messages to waiting calls for ever.                               *)
(***************************************************************************)
CallReturns ==
  Flooded \/ \A c \in 1..MaxCalls : (c \in Waiting) ~> (c \notin Waiting)

(***************************************************************************)
(* On a healthy link every request of AutoReplied gets its reply, also     *)
(* when it arrives while the device waits for an answer, and when its      *)
(* callback makes a call that waits; unless such a wait never ends.        *)
(***************************************************************************)
RequestsServed ==
  Flooded \/ \A r \in 1..MaxPlatReqs :
    (r <= Len(issued) /\ issued[r].type \in AutoReplied) ~> (\E i \in 1..Len(replied) : replied[i] = r)
=============================================================================
