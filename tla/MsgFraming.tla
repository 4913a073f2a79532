------------------------------ MODULE MsgFraming ------------------------------
(***************************************************************************)
(* How ont_device_msg_rcv (src/src/protocol.c:230-331) cuts the byte       *)
(* stream of the platform into messages, and how ont_device_msg_sendmsg    *)
(* (389-402) puts the device's into the other.                             *)
(*                                                                         *)
(* The socket is not blocking: a message may arrive in any number of       *)
(* pieces, msg_rcv may give up between any two of them, and the next call  *)
(* resumes from dev->rcv_buf and dev->rcv_length.  A message is a header   *)
(* of Header bytes that tells the length of the whole, and a body, which   *)
(* the device may be unable to decrypt.  A message may have to be sent in  *)
(* any number of pieces too; a send that gives up is not resumed.          *)
(***************************************************************************)
EXTENDS Integers, Sequences

CONSTANTS
  Header,       \* ONT_PROTOCOL_COMM_PLAIN_HEADER
  Lengths,      \* lengths of messages, header included
  BufLength,    \* first value of dev->buf_length
  GarbageLen,   \* lengths read by headers of left-over bytes, by the first byte's place
  Undecryptable,\* can the platform send what the device cannot decrypt?
  MaxMsgs,      \* bound: messages the platform sends
  Requests,     \* lengths of the messages the device sends
  MaxRequests,  \* bound: how many it sends
  MaxConnects   \* bound: reconnections

ASSUME FramingAssumption ==
  /\ Header \in Nat \ {0} /\ BufLength \in Nat /\ BufLength >= Header
  /\ Lengths \subseteq Nat /\ \A n \in Lengths : n > Header
  /\ GarbageLen \in Seq(Nat) /\ Requests \subseteq Nat \ {0}
  /\ Undecryptable \in BOOLEAN
  /\ MaxMsgs \in Nat /\ MaxRequests \in Nat /\ MaxConnects \in Nat

VARIABLES
  sent,        \* the messages the platform has sent, on any connection
  wire,        \* bytes sent on this connection and not received yet
  first,       \* number of messages sent before this connection
  buf,         \* dev->rcv_buf up to rcv_offset
  rcv_length,  \* dev->rcv_length
  buf_length,  \* dev->buf_length
  pc,          \* where the device is: in msg_rcv, at the "header" or the "body", in the
               \* loop that sends ("send"), or in neither ("idle")
  len,         \* header->msg_length
  delivered,   \* messages returned on this connection; 0: no message was sent so
  stale,       \* did this connection begin with rcv_length > 0?
  connects,    \* reconnections so far
  up,          \* bytes the platform gets on this connection
  asked,       \* lengths of the device's messages on this connection, those left
               \* out of which no byte was sent
  snd_offset,  \* bytes sent of the last of them
  torn,        \* has a send on this connection given up in the middle of a message?
  requests     \* messages the device has begun to send, on any connection

receiving == <<sent, wire, first, buf, rcv_length, buf_length, len, delivered, stale>>
sending == <<up, asked, snd_offset, torn, requests>>
vars == <<receiving, pc, connects, sending>>


\* Byte j of message k; message 0 is the content of freshly allocated memory.
Byte == [msg : 0..Len(sent), pos : Nat]
Bytes(k, n) == [j \in 1..n |-> [msg |-> k, pos |-> j]]
Junk == [msg |-> 0, pos |-> 0]

TypeOK ==
  /\ sent \in Seq([len : Lengths, ok : BOOLEAN])
  /\ wire \in Seq(Byte) /\ first \in 0..Len(sent)
  /\ buf \in Seq(Byte) /\ buf_length \in Nat
  /\ Len(buf) <= buf_length /\ Header <= buf_length /\ rcv_length \in 0..Len(buf)
  /\ pc \in {"idle", "header", "body", "send"}
  /\ pc = "header" => Len(buf) < Header
  /\ pc = "body" => len <= buf_length /\ (Len(buf) <= len \/ Len(buf) = Header)
  /\ len \in Nat
  /\ delivered \in Seq(0..Len(sent))
  /\ stale \in BOOLEAN /\ connects \in 0..MaxConnects
  /\ up \in Seq([msg : Nat, pos : Nat]) /\ asked \in Seq(Requests) /\ snd_offset \in Nat
  /\ torn \in BOOLEAN /\ requests \in 0..MaxRequests

Init ==
  /\ sent = <<>> /\ wire = <<>> /\ first = 0
  /\ buf = <<>> /\ rcv_length = 0 /\ buf_length = BufLength
  /\ pc = "idle" /\ len = 0
  /\ delivered = <<>> /\ stale = FALSE /\ connects = 0
  /\ up = <<>> /\ asked = <<>> /\ snd_offset = 0 /\ torn = FALSE /\ requests = 0

-----------------------------------------------------------------------------
\* The length a complete header b reads.  A header made of the bytes of two
\* messages, or from the middle of one, may read any, 0 included.
LengthRead(b) ==
  LET k == b[1].msg  p == b[1].pos IN
  IF k # 0 /\ \A j \in 1..Header : b[j] = [msg |-> k, pos |-> j] THEN sent[k].len
  ELSE IF p \in DOMAIN GarbageLen THEN GarbageLen[p] ELSE 0

\* Memory for a longer message: only the header is copied.
Reallocated(b, n) ==
  IF n > buf_length
  THEN [j \in 1..Len(b) |-> IF j <= Header THEN b[j] ELSE Junk] ELSE b

ReadLengthOnly(b) ==
  len' = LengthRead(b) /\ buf' = b /\ pc' = "body" /\ UNCHANGED buf_length

\* The header is complete: its length is read, the buffer enlarged if need be.
ReadLength(b) ==
  LET n == LengthRead(b) IN
  /\ len' = n
  /\ buf' = Reallocated(b, n)
  /\ buf_length' = IF n > buf_length THEN n ELSE buf_length
  /\ pc' = "body"

\* One recv: some of the at most n bytes wanted, perhaps none.
Received(n) == {SubSeq(wire, 1, c) : c \in 0..(IF n < Len(wire) THEN n ELSE Len(wire))}

Took(bytes) == wire' = SubSeq(wire, Len(bytes) + 1, Len(wire))

\* msg_rcv is called.
Call ==
  /\ pc = "idle"
  /\ LET b == SubSeq(buf, 1, rcv_length) IN
     IF rcv_length < Header
     THEN pc' = "header" /\ buf' = b /\ UNCHANGED <<len, buf_length>>
     ELSE ReadLength(b)
  /\ UNCHANGED <<sent, wire, first, rcv_length, delivered, stale, connects, sending>>

RecvHeader ==
  /\ pc = "header"
  /\ \E bytes \in Received(Header - Len(buf)) :
       /\ Took(bytes)
       /\ IF Len(buf \o bytes) < Header
          THEN buf' = buf \o bytes /\ UNCHANGED <<pc, len, buf_length>>
          ELSE ReadLength(buf \o bytes)
  /\ UNCHANGED <<sent, first, rcv_length, delivered, stale, connects, sending>>

\* There is no body to receive if the length does not exceed the header.
RecvBody ==
  /\ pc = "body" /\ Len(buf) < len
  /\ \E bytes \in Received(len - Len(buf)) :
       Took(bytes) /\ buf' = buf \o bytes
  /\ UNCHANGED <<sent, first, rcv_length, buf_length, pc, len, delivered, stale, connects, sending>>

\* rcv_offset is saved for the next call: the time is up, recv failed, or, with
\* the whole message there, there is no memory to decrypt it.
RcvLengthForgotten == 0
RcvLengthOneMore == Len(buf) + 1
RcvLengthAfterError == Len(buf)

GiveUp ==
  /\ pc \in {"header", "body"}
  /\ rcv_length' = RcvLengthAfterError
  /\ pc' = "idle"
  /\ UNCHANGED <<sent, wire, first, buf, buf_length, len, delivered, stale, connects, sending>>

\* The message in the buffer, 0 if what lies there was never sent.
MessageIn(b) ==
  LET k == b[1].msg IN
  IF k # 0 /\ b = Bytes(k, sent[k].len) THEN k ELSE 0

\* Can the message be decrypted?  Of garbage, nothing is known; if its length is
\* below the header's, what is left to decrypt has a negative one, which the
\* decryption refuses or takes for nothing.
Decrypts == IF MessageIn(buf) # 0 THEN {sent[MessageIn(buf)].ok} ELSE {TRUE, ~Undecryptable}

RcvLengthKept == Len(buf)
RcvLengthAfterSuccess == 0

Deliver ==
  /\ pc = "body" /\ Len(buf) >= len /\ TRUE \in Decrypts
  /\ rcv_length' = RcvLengthAfterSuccess
  /\ delivered' = Append(delivered, MessageIn(buf))
  /\ pc' = "idle"
  /\ UNCHANGED <<sent, wire, first, buf, buf_length, len, stale, connects, sending>>

\* ONT_ERR_DEC_FAIL: rcv_length is set to 0, and at __end to rcv_offset.
DecryptFails ==
  /\ pc = "body" /\ Len(buf) >= len /\ FALSE \in Decrypts
  /\ rcv_length' = Len(buf)
  /\ pc' = "idle"
  /\ UNCHANGED <<sent, wire, first, buf, buf_length, len, delivered, stale, connects, sending>>

-----------------------------------------------------------------------------
\* ont_device_msg_sendmsg: a message is made and sent, in pieces of any size.
SendBegins ==
  /\ pc = "idle" /\ requests < MaxRequests
  /\ requests' = requests + 1
  /\ \E n \in Requests : asked' = Append(asked, n)
  /\ snd_offset' = 0 /\ pc' = "send"
  /\ UNCHANGED <<receiving, connects, up, torn>>

ToSend == asked[Len(asked)]

SendFromStart ==
  /\ pc = "send" /\ snd_offset < ToSend
  /\ \E c \in 0..(ToSend - snd_offset) :
       /\ up' = up \o SubSeq(Bytes(Len(asked), ToSend), 1, c)
       /\ snd_offset' = snd_offset + c
  /\ UNCHANGED <<receiving, pc, connects, asked, torn, requests>>
SendSome ==
  /\ pc = "send" /\ snd_offset < ToSend
  /\ \E c \in 0..(ToSend - snd_offset) :
       /\ up' = up \o SubSeq(Bytes(Len(asked), ToSend), snd_offset + 1, snd_offset + c)
       /\ snd_offset' = snd_offset + c
  /\ UNCHANGED <<receiving, pc, connects, asked, torn, requests>>

\* All is sent; that the time is up after the last piece changes the result only.
\* (snd_offset is a local variable, and gone.)
SendEnds ==
  /\ pc = "send" /\ snd_offset = ToSend
  /\ pc' = "idle" /\ snd_offset' = 0
  /\ UNCHANGED <<receiving, connects, up, asked, torn, requests>>

\* The time is up, or send failed: the rest of the message is not sent.
SendGivesUp ==
  /\ pc = "send" /\ snd_offset < ToSend
  /\ pc' = "idle" /\ snd_offset' = 0
  /\ torn' = (torn \/ snd_offset > 0)
  /\ asked' = IF snd_offset > 0 THEN asked ELSE SubSeq(asked, 1, Len(asked) - 1)
  /\ UNCHANGED <<receiving, connects, up, requests>>

-----------------------------------------------------------------------------
\* ont_device_connect: a new socket; nothing of the receive state is reset.
Connect ==
  /\ pc = "idle" /\ connects < MaxConnects
  /\ connects' = connects + 1
  /\ wire' = <<>> /\ first' = Len(sent) /\ delivered' = <<>>
  /\ stale' = (rcv_length > 0)
  /\ up' = <<>> /\ asked' = <<>> /\ torn' = FALSE
  /\ UNCHANGED <<sent, buf, rcv_length, buf_length, pc, len, snd_offset, requests>>

PlatformSends ==
  /\ Len(sent) < MaxMsgs
  /\ \E n \in Lengths, ok \in {TRUE, ~Undecryptable} :
       /\ sent' = Append(sent, [len |-> n, ok |-> ok])
       /\ wire' = wire \o Bytes(Len(sent) + 1, n)
  /\ UNCHANGED <<first, buf, rcv_length, buf_length, pc, len, delivered, stale, connects,
                 sending>>

Receive == RecvHeader \/ RecvBody \/ Deliver \/ DecryptFails
Send == SendBegins \/ SendSome \/ SendEnds \/ SendGivesUp

Next == Call \/ Receive \/ GiveUp \/ Send \/ Connect \/ PlatformSends

Spec == Init /\ [][Next]_vars

(***************************************************************************)
(* The main loop keeps calling check_receive, and bytes that were sent     *)
(* arrive: a recv that takes something happens again and again.  A send    *)
(* ends, be it because the time is up.                                     *)
(***************************************************************************)
Progress == Receive /\ (wire' # wire \/ rcv_length' # rcv_length \/ delivered' # delivered)

SendStops == SendEnds \/ SendGivesUp

FairSpec == Spec /\ WF_vars(Call) /\ WF_vars(SendStops) /\ SF_vars(Progress)

-----------------------------------------------------------------------------
\* The messages of this connection that are not delivered yet.
Undelivered == [i \in 1..(Len(sent) - first - Len(delivered)) |-> first + Len(delivered) + i]

(***************************************************************************)
(* The connection is a link of whole messages, as MessageLink specifies    *)
(* it: of all that the device does between two calls of msg_rcv that bring *)
(* a message, and of all the ways the bytes arrive in, nothing is to be    *)
(* seen but that message, the one that is due (protocol.c:238-331).  What  *)
(* a connection hands on that began with a stale buffer is not looked at.  *)
(***************************************************************************)
Link == INSTANCE MessageLink WITH
  sent <- Len(sent), sound <- ~stale,
  down <- IF stale THEN <<>> ELSE Undelivered,
  delivered <- IF stale THEN <<>> ELSE delivered

ImplementsLink == Link!Spec

\* The bytes s begin with message k, and go from the end of one message, of the
\* given lengths, to the beginning of the next.
Frames(s, k, size) ==
  /\ s # <<>> => s[1] = [msg |-> k, pos |-> 1]
  /\ \A i \in DOMAIN s :
       LET m == s[i].msg  rest == size[m] - s[i].pos IN
       /\ m \in DOMAIN size /\ rest >= 0
       /\ \A j \in 1..rest : i + j <= Len(s) => s[i + j] = [msg |-> m, pos |-> s[i].pos + j]
       /\ i + rest < Len(s) => s[i + rest + 1] = [msg |-> m + 1, pos |-> 1]

SentLengths == [k \in DOMAIN sent |-> sent[k].len]

\* What a call that resumes finds in the buffer.
Kept == IF pc \in {"header", "body"} THEN buf ELSE SubSeq(buf, 1, rcv_length)

(***************************************************************************)
(* No byte is lost or counted twice between two calls: what a resuming     *)
(* call finds in the buffer and what is still to be received are the bytes *)
(* of the messages not delivered yet (protocol.c:239, 262-269, 325-326).   *)
(***************************************************************************)
BytesAccountedFor ==
  ~stale =>
    LET s == Kept \o wire  k == first + Len(delivered) + 1 IN
    /\ Frames(s, k, SentLengths)
    /\ IF s = <<>> THEN k = Len(sent) + 1
       ELSE s[Len(s)] = [msg |-> Len(sent), pos |-> sent[Len(sent)].len]

(***************************************************************************)
(* What the platform gets is the device's messages one after the other,    *)
(* into however many pieces each was cut, as long as no send has given up  *)
(* in the middle of one (protocol.c:391-402).  From then on the connection *)
(* is of no use: the next message begins inside the one that was given up. *)
(***************************************************************************)
WholeFrames ==
  ~torn =>
    /\ Frames(up, 1, asked)
    /\ pc # "send" =>
         IF up = <<>> THEN asked = <<>>
         ELSE up[Len(up)] = [msg |-> Len(asked), pos |-> asked[Len(asked)]]

(***************************************************************************)
(* What msg_rcv hands on is one message the platform sent: "success handle *)
(* one message" (protocol.c:314).                                          *)
(***************************************************************************)
HandlesOneMessage == \A i \in 1..Len(delivered) : delivered[i] # 0

(***************************************************************************)
(* Every message sent is delivered, although msg_rcv may time out in the   *)
(* middle of it any number of times, unless its connection is given up,    *)
(* began with a stale buffer, or brings a message that cannot be           *)
(* decrypted, which msg_rcv meets again for ever.                          *)
(***************************************************************************)
AllDelivered ==
  \A k \in 1..MaxMsgs :
    k <= Len(sent) ~> \/ k <= first + Len(delivered)
                      \/ stale
                      \/ \E i \in (first + 1)..Len(sent) : ~sent[i].ok
=============================================================================
