--------------------------- MODULE MsgFramingProofs ----------------------------
(***************************************************************************)
(* Proofs about MsgFraming, for all lengths of messages, headers and       *)
(* buffers, every cut of the two streams of bytes, and any number of       *)
(* messages and connections.                                               *)
(***************************************************************************)
EXTENDS MsgFraming, SequenceTheorems, TLAPS

-----------------------------------------------------------------------------
\* Sequences: what is cut off, and what is put together.

LEMMA Prefix ==
  ASSUME NEW S, NEW q \in Seq(S), NEW n \in 0..Len(q)
  PROVE  /\ SubSeq(q, 1, n) \in Seq(S) /\ Len(SubSeq(q, 1, n)) = n
         /\ \A i \in 1..n : SubSeq(q, 1, n)[i] = q[i]
<1>1. \A i \in 1..n : q[i] \in S
  OBVIOUS
<1>2. 1 \in Int /\ n \in Int /\ n >= 0
  OBVIOUS
<1>3. QED
  BY <1>1, <1>2, SubSeqProperties

LEMMA Middle ==
  ASSUME NEW S, NEW q \in Seq(S), NEW m \in 0..Len(q), NEW n \in m..Len(q)
  PROVE  /\ SubSeq(q, m + 1, n) \in Seq(S) /\ Len(SubSeq(q, m + 1, n)) = n - m
         /\ \A i \in 1..(n - m) : SubSeq(q, m + 1, n)[i] = q[m + i]
<1>1. \A i \in (m + 1)..n : q[i] \in S
  OBVIOUS
<1>2. m + 1 \in Int /\ n \in Int
  OBVIOUS
<1>3. /\ SubSeq(q, m + 1, n) \in Seq(S)
      /\ Len(SubSeq(q, m + 1, n)) = IF m + 1 <= n THEN n - (m + 1) + 1 ELSE 0
      /\ \A i \in 1..(n - (m + 1) + 1) : SubSeq(q, m + 1, n)[i] = q[m + 1 + i - 1]
  BY <1>1, <1>2, SubSeqProperties
<1>4. QED
  BY <1>3

LEMMA BytesType ==
  ASSUME NEW S, NEW k, NEW n \in Nat, \A j \in 1..n : [msg |-> k, pos |-> j] \in S
  PROVE  Bytes(k, n) \in Seq(S) /\ Len(Bytes(k, n)) = n
<1>1. Bytes(k, n) \in [1..n -> S]
  BY DEF Bytes
<1>2. QED
  BY <1>1, SeqDef, LenProperties

\* What has been taken from the platform's bytes and what has not.
LEMMA ReceivedType ==
  ASSUME NEW S, wire \in Seq(S), NEW n \in Nat, NEW bytes \in Received(n), Took(bytes)
  PROVE  /\ bytes \in Seq(S) /\ wire' \in Seq(S)
         /\ Len(bytes) <= n /\ Len(bytes) <= Len(wire)
         /\ bytes \o wire' = wire
<1>1. PICK c \in 0..Len(wire) : c <= n /\ bytes = SubSeq(wire, 1, c)
  BY DEF Received
<1>2. bytes \in Seq(S) /\ Len(bytes) = c
  BY <1>1, Prefix
<1>3. wire' = SubSeq(wire, c + 1, Len(wire))
  BY <1>2 DEF Took
<1>4. wire' \in Seq(S)
  BY <1>3, Middle
<1>5. SubSeq(wire, 1, c) \o SubSeq(wire, c + 1, Len(wire)) = SubSeq(wire, 1, Len(wire))
  <2>1. 1 \in 1..Len(wire) + 1 /\ c \in 1 - 1..Len(wire) /\ Len(wire) \in c..Len(wire)
    OBVIOUS
  <2>2. QED
    BY <2>1, ConcatAdjacentSubSeq
<1>6. SubSeq(wire, 1, Len(wire)) = wire
  BY SubSeqFull
<1>7. bytes \o wire' = wire
  BY <1>1, <1>3, <1>5, <1>6
<1>8. Len(wire) \in Nat
  OBVIOUS
<1>9. QED
  BY <1>1, <1>2, <1>4, <1>7, <1>8

-----------------------------------------------------------------------------
(***************************************************************************)
(* Types.  A recv stays within the buffer because the length that the      *)
(* header reads is the same in every call that resumes: its bytes are kept *)
(* when the buffer is replaced, and what is kept behind it fits.           *)
(***************************************************************************)
Fits ==
  /\ pc = "body" => Header <= Len(buf) /\ len = LengthRead(buf)
  /\ pc \in {"idle", "send"} /\ rcv_length > Header =>
       rcv_length <= LengthRead(buf) /\ LengthRead(buf) <= buf_length
TypeInv == TypeOK /\ Fits

LEMMA SentType ==
  ASSUME TypeOK
  PROVE  \A k \in 1..Len(sent) : sent[k] \in [len : Lengths, ok : BOOLEAN] /\ sent[k].len \in Lengths
<1>1. sent \in Seq([len : Lengths, ok : BOOLEAN])
  BY DEF TypeOK
<1>2. \A k \in 1..Len(sent) : sent[k] \in [len : Lengths, ok : BOOLEAN]
  BY <1>1, ElementOfSeq
<1>3. QED
  BY <1>2

LEMMA LengthReadType ==
  ASSUME TypeOK, NEW b \in Seq(Byte), Len(b) >= Header
  PROVE  LengthRead(b) \in Nat
<1>1. b[1] \in Byte
  BY FramingAssumption, ElementOfSeq
<1>2. b[1].msg = 0 \/ b[1].msg \in 1..Len(sent)
  BY <1>1 DEF TypeOK, Byte
<1>3. \A k \in 1..Len(sent) : sent[k].len \in Nat
  BY SentType, FramingAssumption
<1>4. \A p \in DOMAIN GarbageLen : GarbageLen[p] \in Nat
  BY FramingAssumption
<1>5. \/ LengthRead(b) = 0
      \/ LengthRead(b) = sent[b[1].msg].len /\ b[1].msg # 0
      \/ b[1].pos \in DOMAIN GarbageLen /\ LengthRead(b) = GarbageLen[b[1].pos]
  BY DEF LengthRead
<1> QED
  BY <1>2, <1>3, <1>4, <1>5

LEMMA HeaderOnly ==
  ASSUME NEW S, NEW b \in Seq(S), NEW c \in Seq(S), Len(b) >= Header, Len(c) >= Header,
         \A j \in 1..Header : b[j] = c[j]
  PROVE  LengthRead(b) = LengthRead(c)
<1>1. 1 \in 1..Header /\ b[1] = c[1]
  BY FramingAssumption
<1>2. (\A j \in 1..Header : b[j] = [msg |-> b[1].msg, pos |-> j])
        <=> \A j \in 1..Header : c[j] = [msg |-> c[1].msg, pos |-> j]
  BY <1>1
<1> QED
  BY <1>1, <1>2 DEF LengthRead

LEMMA JunkType ==
  ASSUME TypeOK PROVE Junk \in Byte
BY DEF TypeOK, Junk, Byte

LEMMA ReallocatedType ==
  ASSUME TypeOK, NEW b \in Seq(Byte), NEW n \in Nat, Len(b) >= Header
  PROVE  /\ Reallocated(b, n) \in Seq(Byte) /\ Len(Reallocated(b, n)) = Len(b)
         /\ LengthRead(Reallocated(b, n)) = LengthRead(b)
<1>1. CASE n > buf_length
  <2> DEFINE c == [j \in 1..Len(b) |-> IF j <= Header THEN b[j] ELSE Junk]
  <2>1. Reallocated(b, n) = c
    BY <1>1 DEF Reallocated
  <2>2. c \in [1..Len(b) -> Byte]
    BY JunkType
  <2>3. c \in Seq(Byte) /\ Len(c) = Len(b)
    BY <2>2, SeqDef, LenProperties
  <2>4. \A j \in 1..Header : c[j] = b[j]
    BY FramingAssumption
  <2> HIDE DEF c
  <2>5. LengthRead(c) = LengthRead(b)
    BY <2>3, <2>4, HeaderOnly
  <2>6. QED
    BY <2>1, <2>3, <2>5
<1>2. CASE ~(n > buf_length)
  BY <1>2 DEF Reallocated
<1>3. QED
  BY <1>1, <1>2

\* A call that has a header goes on with the body.
LEMMA ReadLengthType ==
  ASSUME TypeOK, NEW b \in Seq(Byte), Len(b) >= Header, ReadLength(b), sent' = sent,
         Len(b) > Header => Len(b) <= LengthRead(b) /\ LengthRead(b) <= buf_length,
         Len(b) <= buf_length
  PROVE  /\ buf' \in Seq(Byte) /\ Len(buf') = Len(b) /\ pc' = "body"
         /\ len' = LengthRead(b) /\ len' \in Nat /\ len' <= buf_length'
         /\ LengthRead(buf') = len'
         /\ buf_length' \in Nat /\ Header <= buf_length' /\ (Len(b) <= len' \/ Len(b) = Header)
<1>1. LengthRead(b) \in Nat
  BY LengthReadType
<1>2. /\ len' = LengthRead(b) /\ buf' = Reallocated(b, LengthRead(b)) /\ pc' = "body"
      /\ buf_length' = IF LengthRead(b) > buf_length THEN LengthRead(b) ELSE buf_length
  BY DEF ReadLength
<1>3. /\ buf' \in Seq(Byte) /\ Len(buf') = Len(b) /\ LengthRead(buf') = LengthRead(b)
  BY <1>1, <1>2, ReallocatedType
<1>4. buf_length \in Nat /\ Header <= buf_length
  BY DEF TypeOK
<1>5. QED
  BY <1>1, <1>2, <1>3, <1>4, FramingAssumption

LEMMA CallType ==
  ASSUME TypeInv, Call PROVE TypeInv'
<1> DEFINE b == SubSeq(buf, 1, rcv_length)
<1>1. /\ pc = "idle" /\ buf \in Seq(Byte) /\ rcv_length \in 0..Len(buf) /\ rcv_length \in Nat
      /\ Len(buf) <= buf_length /\ buf_length \in Nat /\ Header <= buf_length /\ Len(buf) \in Nat
  BY DEF TypeInv, TypeOK, Call
<1>2. b \in Seq(Byte) /\ Len(b) = rcv_length /\ \A j \in 1..rcv_length : b[j] = buf[j]
  BY <1>1, Prefix
<1>3. /\ UNCHANGED <<sent, wire, first, rcv_length, delivered, stale, connects, sending>>
      /\ Byte' = Byte
  BY DEF Call, Byte
<1> HIDE DEF b
<1>4. CASE rcv_length < Header
  <2>1. pc' = "header" /\ buf' = b /\ UNCHANGED <<len, buf_length>>
    BY <1>4 DEF Call, b
  <2>2. QED
    BY <1>1, <1>2, <1>3, <1>4, <2>1 DEF TypeInv, TypeOK, Fits, sending
<1>5. CASE rcv_length >= Header
  <2>1. ReadLength(b)
    BY <1>1, <1>5, FramingAssumption DEF Call, b
  <2>2. LengthRead(b) = LengthRead(buf)
    <3>1. Len(b) >= Header /\ Len(buf) >= Header /\ \A j \in 1..Header : b[j] = buf[j]
      BY <1>1, <1>2, <1>5, FramingAssumption
    <3>2. QED
      BY <1>1, <1>2, <3>1, HeaderOnly
  <2>3. rcv_length > Header => rcv_length <= LengthRead(buf) /\ LengthRead(buf) <= buf_length
    BY <1>1, <1>5 DEF TypeInv, Fits
  <2>4. TypeOK /\ sent' = sent /\ Len(b) >= Header /\ Len(b) <= buf_length
    BY <1>1, <1>2, <1>3, <1>5 DEF TypeInv
  <2>5. /\ buf' \in Seq(Byte) /\ Len(buf') = Len(b) /\ pc' = "body"
        /\ len' = LengthRead(b) /\ len' \in Nat /\ len' <= buf_length'
        /\ LengthRead(buf') = len'
        /\ buf_length' \in Nat /\ Header <= buf_length' /\ (Len(b) <= len' \/ Len(b) = Header)
    BY <1>2, <2>1, <2>2, <2>3, <2>4, ReadLengthType
  <2>6. LengthRead(buf)' = LengthRead(buf')
    BY <1>3 DEF LengthRead
  <2>7. Fits'
    BY <1>2, <1>5, <2>5, <2>6 DEF Fits
  <2>8. TypeOK'
    BY <1>1, <1>2, <1>3, <1>5, <2>5, FramingAssumption DEF TypeInv, TypeOK, sending
  <2>9. QED
    BY <2>7, <2>8 DEF TypeInv
<1>6. QED
  BY <1>1, <1>4, <1>5, FramingAssumption

\* What is put behind the buffer.
LEMMA JoinType ==
  ASSUME NEW S, NEW q \in Seq(S), NEW r \in Seq(S)
  PROVE  /\ q \o r \in Seq(S) /\ Len(q \o r) = Len(q) + Len(r)
         /\ \A j \in 1..Len(q) : (q \o r)[j] = q[j]
         /\ \A j \in 1..Len(r) : (q \o r)[Len(q) + j] = r[j]
<1>1. /\ q \o r \in Seq(S) /\ Len(q \o r) = Len(q) + Len(r)
      /\ \A i \in 1..Len(q) + Len(r) : (q \o r)[i] = IF i <= Len(q) THEN q[i] ELSE r[i - Len(q)]
  BY ConcatProperties
<1>2. Len(q) \in Nat /\ Len(r) \in Nat
  OBVIOUS
<1>3. \A j \in 1..Len(r) : Len(q) + j \in 1..Len(q) + Len(r) /\ ~(Len(q) + j <= Len(q)) /\ (Len(q) + j) - Len(q) = j
  BY <1>2
<1>4. \A j \in 1..Len(r) : (q \o r)[Len(q) + j] = r[j]
  BY <1>1, <1>3
<1>5. \A j \in 1..Len(q) : j \in 1..Len(q) + Len(r) /\ j <= Len(q)
  BY <1>2
<1>6. QED
  BY <1>1, <1>4, <1>5

LEMMA RecvHeaderType ==
  ASSUME TypeInv, RecvHeader PROVE TypeInv'
<1>1. /\ pc = "header" /\ buf \in Seq(Byte) /\ wire \in Seq(Byte) /\ Len(buf) < Header
      /\ rcv_length \in 0..Len(buf) /\ Len(buf) \in Nat
      /\ buf_length \in Nat /\ Header <= buf_length
  BY DEF TypeInv, TypeOK, RecvHeader
<1>2. PICK bytes \in Received(Header - Len(buf)) :
        /\ Took(bytes)
        /\ IF Len(buf \o bytes) < Header
           THEN buf' = buf \o bytes /\ UNCHANGED <<pc, len, buf_length>>
           ELSE ReadLength(buf \o bytes)
  BY DEF RecvHeader
<1>3. /\ UNCHANGED <<sent, first, rcv_length, delivered, stale, connects, sending>>
      /\ Byte' = Byte
  BY DEF RecvHeader, Byte
<1> DEFINE b == buf \o bytes
<1>4. Header - Len(buf) \in Nat
  BY <1>1, FramingAssumption
<1>5. /\ bytes \in Seq(Byte) /\ wire' \in Seq(Byte) /\ Len(bytes) <= Header - Len(buf)
  BY <1>1, <1>2, <1>4, ReceivedType
<1>6. b \in Seq(Byte) /\ Len(b) = Len(buf) + Len(bytes) /\ Len(bytes) \in Nat
  BY <1>1, <1>5, JoinType
<1>7. Len(b) <= Header /\ Len(b) >= Len(buf)
  BY <1>1, <1>5, <1>6, FramingAssumption
<1>8. CASE Len(b) < Header
  <2>1. buf' = b /\ UNCHANGED <<pc, len, buf_length>>
    BY <1>2, <1>8
  <2> HIDE DEF b
  <2>2. pc' = "header" /\ Len(b) \in Nat /\ rcv_length \in 0..Len(b) /\ Len(b) <= buf_length
    BY <1>1, <1>6, <1>7, <2>1, FramingAssumption
  <2>3. Fits'
    BY <2>2 DEF Fits
  <2>4. TypeOK'
    BY <1>3, <1>5, <1>6, <1>8, <2>1, <2>2 DEF TypeInv, TypeOK, sending
  <2>5. QED
    BY <2>3, <2>4 DEF TypeInv
<1>9. CASE ~(Len(b) < Header)
  <2>1. ReadLength(b)
    BY <1>2, <1>9
  <2> HIDE DEF b
  <2>2. Len(b) = Header
    BY <1>1, <1>6, <1>7, <1>9, FramingAssumption
  <2>3. LengthRead(b) \in Nat /\ TypeOK
    BY <1>6, <2>2, LengthReadType, FramingAssumption DEF TypeInv
  <2>4. Len(b) >= Header /\ Len(b) <= buf_length /\ ~(Len(b) > Header) /\ sent' = sent
    BY <1>1, <1>3, <2>2, <2>3, FramingAssumption
  <2>5. /\ buf' \in Seq(Byte) /\ Len(buf') = Len(b) /\ pc' = "body"
        /\ len' = LengthRead(b) /\ len' \in Nat /\ len' <= buf_length'
        /\ LengthRead(buf') = len'
        /\ buf_length' \in Nat /\ Header <= buf_length' /\ (Len(b) <= len' \/ Len(b) = Header)
    BY <1>6, <2>1, <2>3, <2>4, ReadLengthType
  <2>6. LengthRead(buf)' = LengthRead(buf')
    BY <1>3 DEF LengthRead
  <2>7. Fits'
    BY <2>2, <2>5, <2>6, FramingAssumption DEF Fits
  <2>8. TypeOK'
    BY <1>1, <1>3, <1>5, <2>2, <2>5, FramingAssumption DEF TypeInv, TypeOK, sending
  <2>9. QED
    BY <2>7, <2>8 DEF TypeInv
<1>10. QED
  BY <1>8, <1>9

LEMMA RecvBodyType ==
  ASSUME TypeInv, RecvBody PROVE TypeInv'
<1>1. /\ pc = "body" /\ buf \in Seq(Byte) /\ wire \in Seq(Byte) /\ Len(buf) < len
      /\ rcv_length \in 0..Len(buf) /\ Len(buf) \in Nat /\ Header <= Len(buf)
      /\ len \in Nat /\ len = LengthRead(buf) /\ len <= buf_length
      /\ buf_length \in Nat
  BY FramingAssumption DEF TypeInv, TypeOK, Fits, RecvBody
<1>2. PICK bytes \in Received(len - Len(buf)) : Took(bytes) /\ buf' = buf \o bytes
  BY DEF RecvBody
<1>3. /\ UNCHANGED <<sent, first, rcv_length, buf_length, pc, len, delivered, stale, connects,
                     sending>>
      /\ Byte' = Byte
  BY DEF RecvBody, Byte
<1>4. len - Len(buf) \in Nat
  BY <1>1
<1>5. bytes \in Seq(Byte) /\ wire' \in Seq(Byte) /\ Len(bytes) <= len - Len(buf)
  BY <1>1, <1>2, <1>4, ReceivedType
<1>6. /\ buf' \in Seq(Byte) /\ Len(buf') = Len(buf) + Len(bytes) /\ Len(bytes) \in Nat
      /\ \A j \in 1..Len(buf) : buf'[j] = buf[j]
  BY <1>1, <1>2, <1>5, JoinType
<1>7. Len(buf') <= len /\ Header <= Len(buf') /\ Len(buf) <= Len(buf')
  BY <1>1, <1>5, <1>6, FramingAssumption
<1>8. LengthRead(buf') = LengthRead(buf)
  <2>1. Len(buf') >= Header /\ Len(buf) >= Header /\ \A j \in 1..Header : buf'[j] = buf[j]
    BY <1>1, <1>6, <1>7, FramingAssumption
  <2>2. QED
    BY <1>1, <1>6, <2>1, HeaderOnly
<1>9. LengthRead(buf)' = LengthRead(buf')
  BY <1>3 DEF LengthRead
<1>10. Fits'
  BY <1>1, <1>3, <1>7, <1>8, <1>9 DEF Fits
<1>11. TypeOK'
  <2>1. Len(buf') <= buf_length /\ rcv_length \in 0..Len(buf')
    BY <1>1, <1>6, <1>7
  <2> QED
    BY <1>1, <1>3, <1>5, <1>6, <1>7, <2>1 DEF TypeInv, TypeOK, sending
<1>12. QED
  BY <1>10, <1>11 DEF TypeInv

LEMMA GiveUpType ==
  ASSUME TypeInv, GiveUp PROVE TypeInv'
<1>1. /\ UNCHANGED <<sent, wire, first, buf, buf_length, len, delivered, stale, connects, sending>>
      /\ Byte' = Byte /\ LengthRead(buf)' = LengthRead(buf) /\ pc' = "idle"
      /\ rcv_length' = Len(buf) /\ Len(buf) \in Nat
      /\ pc \in {"header", "body"}
  BY DEF GiveUp, Byte, LengthRead, TypeInv, TypeOK, RcvLengthAfterError
<1>2. /\ pc = "header" => Len(buf) < Header
      /\ pc = "body" => (Len(buf) <= LengthRead(buf) \/ Len(buf) = Header) /\ LengthRead(buf) <= buf_length
  BY DEF TypeInv, TypeOK, Fits
<1>3. Fits'
  BY <1>1, <1>2, FramingAssumption DEF Fits
<1>4. TypeOK'
  BY <1>1 DEF TypeInv, TypeOK, sending
<1>5. QED
  BY <1>3, <1>4 DEF TypeInv

LEMMA MessageInType ==
  ASSUME TypeOK, NEW b \in Seq(Byte), Len(b) >= Header
  PROVE  MessageIn(b) \in 0..Len(sent)
<1>1. b[1] \in Byte
  BY FramingAssumption, ElementOfSeq
<1>2. b[1].msg \in 0..Len(sent) /\ 0 \in 0..Len(sent)
  <2>1. Len(sent) \in Nat
    BY DEF TypeOK
  <2>2. QED
    BY <1>1, <2>1 DEF Byte
<1>3. MessageIn(b) = 0 \/ MessageIn(b) = b[1].msg
  BY DEF MessageIn
<1>4. QED
  BY <1>2, <1>3

LEMMA DeliverType ==
  ASSUME TypeInv, Deliver PROVE TypeInv'
<1>1. /\ UNCHANGED <<sent, wire, first, buf, buf_length, len, stale, connects, sending>>
      /\ Byte' = Byte /\ LengthRead(buf)' = LengthRead(buf) /\ pc' = "idle"
      /\ rcv_length' = 0 /\ Len(buf) \in Nat /\ Header <= Len(buf) /\ buf \in Seq(Byte)
      /\ delivered' = Append(delivered, MessageIn(buf)) /\ delivered \in Seq(0..Len(sent))
  BY DEF Deliver, Byte, LengthRead, TypeInv, TypeOK, Fits, RcvLengthAfterSuccess
<1>2. delivered' \in Seq(0..Len(sent))
  BY <1>1, MessageInType, AppendProperties DEF TypeInv
<1>3. Fits'
  BY <1>1, FramingAssumption DEF Fits
<1>4. TypeOK'
  BY <1>1, <1>2 DEF TypeInv, TypeOK, sending
<1>5. QED
  BY <1>3, <1>4 DEF TypeInv

LEMMA DecryptFailsType ==
  ASSUME TypeInv, DecryptFails PROVE TypeInv'
<1>1. /\ UNCHANGED <<sent, wire, first, buf, buf_length, len, delivered, stale, connects, sending>>
      /\ Byte' = Byte /\ LengthRead(buf)' = LengthRead(buf) /\ pc = "body" /\ pc' = "idle"
      /\ rcv_length' = Len(buf) /\ Len(buf) \in Nat
  BY DEF DecryptFails, Byte, LengthRead, TypeInv, TypeOK
<1>2. (Len(buf) <= LengthRead(buf) \/ Len(buf) = Header) /\ LengthRead(buf) <= buf_length
  BY <1>1 DEF TypeInv, TypeOK, Fits
<1>3. Fits'
  BY <1>1, <1>2, FramingAssumption DEF Fits
<1>4. TypeOK'
  BY <1>1 DEF TypeInv, TypeOK, sending
<1>5. QED
  BY <1>3, <1>4 DEF TypeInv

\* What the device sends changes nothing of what it receives.
LEMMA FitsKept ==
  ASSUME TypeInv, UNCHANGED receiving, pc \in {"idle", "send"}, pc' \in {"idle", "send"}
  PROVE  Fits'
<1>1. LengthRead(buf)' = LengthRead(buf)
  BY DEF receiving, LengthRead
<1>2. QED
  BY <1>1 DEF TypeInv, Fits, receiving

LEMMA SendBeginsType ==
  ASSUME TypeInv, SendBegins PROVE TypeInv'
<1>1. PICK n \in Requests : asked' = Append(asked, n)
  BY DEF SendBegins
<1>2. asked' \in Seq(Requests)
  BY <1>1, AppendProperties DEF TypeInv, TypeOK
<1>3. Fits'
  BY FitsKept DEF SendBegins
<1>4. Byte' = Byte /\ pc' = "send" /\ requests' \in 0..MaxRequests
      /\ snd_offset' = 0 /\ UNCHANGED <<receiving, connects, up, torn>>
  BY FramingAssumption DEF SendBegins, Byte, receiving, TypeInv, TypeOK
<1>5. TypeOK'
  BY <1>2, <1>4 DEF TypeInv, TypeOK, receiving
<1>6. QED
  BY <1>3, <1>5 DEF TypeInv

\* The message that is being sent.
LEMMA ToSendType ==
  ASSUME TypeOK, asked # <<>>
  PROVE  ToSend \in Nat /\ ToSend > 0 /\ Len(asked) \in Nat /\ Len(asked) > 0
<1>1. asked \in Seq(Requests) /\ Len(asked) \in 1..Len(asked)
  BY EmptySeq DEF TypeOK
<1>2. ToSend \in Requests
  BY <1>1, ElementOfSeq DEF ToSend
<1>3. QED
  BY <1>1, <1>2, FramingAssumption

LEMMA SendSomeType ==
  ASSUME TypeInv, asked # <<>>, SendSome PROVE TypeInv'
<1>1. PICK c \in 0..(ToSend - snd_offset) :
        /\ up' = up \o SubSeq(Bytes(Len(asked), ToSend), snd_offset + 1, snd_offset + c)
        /\ snd_offset' = snd_offset + c
  BY DEF SendSome
<1> DEFINE U == [msg : Nat, pos : Nat]  m == Bytes(Len(asked), ToSend)
           q == SubSeq(m, snd_offset + 1, snd_offset + c)
<1>2. ToSend \in Nat /\ Len(asked) \in Nat /\ snd_offset \in Nat /\ up \in Seq(U)
      /\ snd_offset < ToSend
  BY ToSendType DEF TypeInv, TypeOK, SendSome
<1>3. m \in Seq(U) /\ Len(m) = ToSend
  <2>1. \A j \in 1..ToSend : [msg |-> Len(asked), pos |-> j] \in U
    BY <1>2
  <2> HIDE DEF U
  <2>2. QED
    BY <1>2, <2>1, BytesType
<1>4. snd_offset \in 0..Len(m) /\ snd_offset + c \in snd_offset..Len(m) /\ snd_offset + c \in Nat
  BY <1>2, <1>3
<1>5. q \in Seq(U)
  <2> HIDE DEF U, m
  <2>1. QED
    BY <1>3, <1>4, Middle
<1>6. up' \in Seq(U)
  <2> HIDE DEF U, m
  <2>1. up' = up \o q
    BY <1>1 DEF m
  <2> HIDE DEF q
  <2>2. QED
    BY <1>2, <1>5, <2>1, JoinType
<1>7. Fits'
  BY FitsKept DEF SendSome
<1>8. Byte' = Byte /\ UNCHANGED <<receiving, pc, connects, asked, torn, requests>>
  BY DEF SendSome, Byte, receiving
<1>9. TypeOK'
  BY <1>1, <1>4, <1>6, <1>8 DEF TypeInv, TypeOK, receiving
<1>10. QED
  BY <1>7, <1>9 DEF TypeInv

LEMMA SendEndsType ==
  ASSUME TypeInv, SendEnds PROVE TypeInv'
<1>1. Fits'
  BY FitsKept DEF SendEnds
<1>2. Byte' = Byte /\ pc' = "idle" /\ snd_offset' = 0
      /\ UNCHANGED <<receiving, connects, up, asked, torn, requests>>
  BY DEF SendEnds, Byte, receiving
<1>3. TypeOK'
  BY <1>2 DEF TypeInv, TypeOK, receiving
<1>4. QED
  BY <1>1, <1>3 DEF TypeInv

LEMMA SendGivesUpType ==
  ASSUME TypeInv, asked # <<>>, SendGivesUp PROVE TypeInv'
<1>1. asked' \in Seq(Requests)
  <2>1. asked \in Seq(Requests) /\ Len(asked) - 1 \in 0..Len(asked)
    BY ToSendType DEF TypeInv, TypeOK
  <2>2. SubSeq(asked, 1, Len(asked) - 1) \in Seq(Requests)
    BY <2>1, Prefix
  <2>3. QED
    BY <2>1, <2>2 DEF SendGivesUp
<1>2. Fits'
  BY FitsKept DEF SendGivesUp
<1>3. Byte' = Byte /\ pc' = "idle" /\ snd_offset' = 0 /\ UNCHANGED <<receiving, connects, up, requests>>
  BY DEF SendGivesUp, Byte, receiving
<1>4. torn' \in BOOLEAN
  BY DEF SendGivesUp, TypeInv, TypeOK
<1>5. TypeOK'
  BY <1>1, <1>3, <1>4 DEF TypeInv, TypeOK, receiving
<1>6. QED
  BY <1>2, <1>5 DEF TypeInv

LEMMA ConnectType ==
  ASSUME TypeInv, Connect PROVE TypeInv'
<1>1. /\ UNCHANGED <<sent, buf, rcv_length, buf_length, pc, len, snd_offset, requests>>
      /\ Byte' = Byte /\ LengthRead(buf)' = LengthRead(buf)
      /\ wire' = <<>> /\ first' = Len(sent) /\ delivered' = <<>> /\ up' = <<>> /\ asked' = <<>>
      /\ torn' = FALSE /\ connects' = connects + 1 /\ connects < MaxConnects
      /\ stale' = (rcv_length > 0)
  BY DEF Connect, Byte, LengthRead
<1>2. /\ wire' \in Seq(Byte') /\ delivered' \in Seq(0..Len(sent')) /\ asked' \in Seq(Requests)
      /\ up' \in Seq([msg : Nat, pos : Nat])
  BY <1>1, EmptySeq
<1>3. Fits'
  BY <1>1 DEF TypeInv, Fits
<1>4. connects' \in 0..MaxConnects /\ first' \in 0..Len(sent')
  <2>1. Len(sent) \in Nat /\ connects \in Nat
    BY DEF TypeInv, TypeOK
  <2>2. QED
    BY <1>1, <2>1, FramingAssumption
<1>5. stale' \in BOOLEAN /\ torn' \in BOOLEAN
  <2>1. (rcv_length > 0) \in BOOLEAN
    OBVIOUS
  <2>2. stale' \in BOOLEAN
    BY <1>1, <2>1, Zenon
  <2>3. QED
    BY <1>1, <2>2
<1>6. TypeOK'
  BY <1>1, <1>2, <1>4, <1>5 DEF TypeInv, TypeOK
<1>7. QED
  BY <1>3, <1>6 DEF TypeInv

\* The messages sent so far stay what they are.
LEMMA SentMore ==
  ASSUME TypeOK, NEW n \in Lengths, NEW ok \in BOOLEAN,
         sent' = Append(sent, [len |-> n, ok |-> ok])
  PROVE  /\ sent' \in Seq([len : Lengths, ok : BOOLEAN]) /\ Len(sent') = Len(sent) + 1
         /\ \A k \in 1..Len(sent) : sent'[k] = sent[k]
         /\ sent'[Len(sent) + 1] = [len |-> n, ok |-> ok]
         /\ Len(sent) \in Nat
         /\ Byte \subseteq Byte'
<1>1. sent \in Seq([len : Lengths, ok : BOOLEAN]) /\ [len |-> n, ok |-> ok] \in [len : Lengths, ok : BOOLEAN]
  BY DEF TypeOK
<1> DEFINE M == [len : Lengths, ok : BOOLEAN]  m == [len |-> n, ok |-> ok]
<1>2. /\ sent' \in Seq(M) /\ Len(sent') = Len(sent) + 1
      /\ \A k \in 1..Len(sent) : sent'[k] = sent[k]
      /\ sent'[Len(sent) + 1] = m
  <2> HIDE DEF M, m
  <2>1. sent \in Seq(M) /\ m \in M /\ sent' = Append(sent, m)
    BY <1>1 DEF M, m
  <2>2. QED
    BY <2>1, AppendProperties
<1>3. Len(sent) \in Nat
  BY <1>1
<1>4. 0..Len(sent) \subseteq 0..Len(sent')
  BY <1>2, <1>3
<1>5. Byte \subseteq Byte'
  BY <1>4 DEF Byte
<1>6. QED
  BY <1>2, <1>3, <1>5

LEMMA PlatformSendsType ==
  ASSUME TypeInv, PlatformSends PROVE TypeInv'
<1>1. PICK n \in Lengths, ok \in {TRUE, ~Undecryptable} :
        /\ sent' = Append(sent, [len |-> n, ok |-> ok])
        /\ wire' = wire \o Bytes(Len(sent) + 1, n)
  BY DEF PlatformSends
<1>2. ok \in BOOLEAN /\ n \in Nat
  BY FramingAssumption
<1>3. /\ sent' \in Seq([len : Lengths, ok : BOOLEAN]) /\ Len(sent') = Len(sent) + 1
      /\ \A k \in 1..Len(sent) : sent'[k] = sent[k]
      /\ Len(sent) \in Nat /\ Byte \subseteq Byte'
  BY <1>1, <1>2, SentMore DEF TypeInv
<1>4. buf \in Seq(Byte') /\ wire \in Seq(Byte')
  BY <1>3, SeqMonotonic DEF TypeInv, TypeOK
<1>5. Bytes(Len(sent) + 1, n) \in Seq(Byte')
  <2>1. \A j \in 1..n : [msg |-> Len(sent) + 1, pos |-> j] \in Byte'
    BY <1>2, <1>3 DEF Byte
  <2>2. QED
    BY <1>2, <2>1, BytesType
<1>6. wire' \in Seq(Byte')
  BY <1>1, <1>4, <1>5, JoinType
<1>7. UNCHANGED <<first, buf, rcv_length, buf_length, pc, len, delivered, stale, connects, sending>>
  BY DEF PlatformSends
<1>8. delivered' \in Seq(0..Len(sent')) /\ first' \in 0..Len(sent')
  <2>1. delivered \in Seq(0..Len(sent)) /\ 0..Len(sent) \subseteq 0..Len(sent') /\ first \in 0..Len(sent)
    BY <1>3 DEF TypeInv, TypeOK
  <2>2. QED
    BY <1>7, <2>1, SeqMonotonic
<1>9. Len(buf) >= Header => LengthRead(buf)' = LengthRead(buf)
  <2>1. SUFFICES ASSUME Len(buf) >= Header PROVE LengthRead(buf)' = LengthRead(buf)
    OBVIOUS
  <2>2. buf[1] \in Byte
    BY <2>1, FramingAssumption, ElementOfSeq DEF TypeInv, TypeOK
  <2>3. buf[1].msg = 0 \/ buf[1].msg \in 1..Len(sent)
    BY <1>3, <2>2 DEF Byte
  <2>4. QED
    BY <1>3, <1>7, <2>3 DEF LengthRead
<1>10. Fits'
  <2>1. /\ pc = "body" => Header <= Len(buf)
        /\ rcv_length \in 0..Len(buf) /\ Len(buf) \in Nat
    BY DEF TypeInv, TypeOK, Fits
  <2>2. rcv_length > Header => Len(buf) >= Header
    BY <2>1, FramingAssumption
  <2>3. QED
    BY <1>7, <1>9, <2>1, <2>2 DEF TypeInv, Fits
<1>11. TypeOK'
  BY <1>3, <1>4, <1>6, <1>7, <1>8 DEF TypeInv, TypeOK, sending
<1>12. QED
  BY <1>10, <1>11 DEF TypeInv

\* There is a message in the loop that sends, and snd_offset is within it.
Sending == pc = "send" => asked # <<>> /\ snd_offset \in 0..ToSend

LEMMA SendingKept ==
  ASSUME TypeInv, Sending, Next PROVE Sending'
<1>1. CASE SendBegins
  <2>1. PICK n \in Requests : asked' = Append(asked, n)
    BY <1>1 DEF SendBegins
  <2>2. asked \in Seq(Requests) /\ Len(asked) \in Nat
    BY DEF TypeInv, TypeOK
  <2>3. asked' # <<>> /\ Len(asked') = Len(asked) + 1 /\ asked'[Len(asked) + 1] = n
    BY <2>1, <2>2, AppendProperties
  <2>4. asked'[Len(asked')] = n
    BY <2>3
  <2>5. snd_offset' = 0 /\ n \in Nat
    BY <1>1, FramingAssumption DEF SendBegins
  <2>6. QED
    BY <2>3, <2>4, <2>5 DEF Sending, ToSend
<1>2. CASE SendSome
  <2>1. /\ asked' = asked /\ pc = "send" /\ snd_offset \in Nat
        /\ \E c \in 0..(ToSend - snd_offset) : snd_offset' = snd_offset + c
    BY <1>2 DEF SendSome, TypeInv, TypeOK
  <2>2. ToSend \in Nat /\ asked # <<>>
    BY <2>1, ToSendType DEF Sending, TypeInv
  <2>3. snd_offset' \in 0..ToSend /\ ToSend' = ToSend
    BY <2>1, <2>2 DEF ToSend
  <2>4. QED
    BY <2>1, <2>2, <2>3 DEF Sending
<1>3. CASE SendEnds \/ SendGivesUp \/ Connect
  BY <1>3 DEF SendEnds, SendGivesUp, Connect, Sending
<1>4. CASE Call \/ Receive \/ GiveUp
  <2>1. pc' # "send"
    BY <1>4 DEF Call, Receive, RecvHeader, RecvBody, Deliver, DecryptFails, GiveUp,
                ReadLength
  <2>2. QED
    BY <2>1 DEF Sending
<1>5. CASE PlatformSends
  BY <1>5 DEF PlatformSends, sending, Sending, ToSend
<1>6. QED
  BY <1>1, <1>2, <1>3, <1>4, <1>5 DEF Next, Send

LEMMA NextType ==
  ASSUME TypeInv, Sending, Next PROVE TypeInv'
<1>1. CASE Call
  BY <1>1, CallType
<1>2. CASE Receive
  BY <1>2, RecvHeaderType, RecvBodyType, DeliverType, DecryptFailsType DEF Receive
<1>3. CASE GiveUp
  BY <1>3, GiveUpType
<1>4. CASE Send
  <2>1. CASE SendBegins
    BY <2>1, SendBeginsType
  <2>2. CASE SendSome
    BY <2>2, SendSomeType DEF SendSome, Sending
  <2>3. CASE SendEnds
    BY <2>3, SendEndsType
  <2>4. CASE SendGivesUp
    BY <2>4, SendGivesUpType DEF SendGivesUp, Sending
  <2>5. QED
    BY <1>4, <2>1, <2>2, <2>3, <2>4 DEF Send
<1>5. CASE Connect
  BY <1>5, ConnectType
<1>6. CASE PlatformSends
  BY <1>6, PlatformSendsType
<1>7. QED
  BY <1>1, <1>2, <1>3, <1>4, <1>5, <1>6 DEF Next

LEMMA InitType ==
  ASSUME Init PROVE TypeInv /\ Sending
<1>1. /\ sent = <<>> /\ wire = <<>> /\ buf = <<>> /\ delivered = <<>> /\ up = <<>> /\ asked = <<>>
  BY DEF Init
<1>2. /\ sent \in Seq([len : Lengths, ok : BOOLEAN]) /\ Len(sent) = 0
      /\ wire \in Seq(Byte) /\ buf \in Seq(Byte) /\ Len(buf) = 0
      /\ delivered \in Seq(0..Len(sent)) /\ asked \in Seq(Requests)
      /\ up \in Seq([msg : Nat, pos : Nat])
  BY <1>1, EmptySeq
<1>3. TypeOK
  <2>1. first \in 0..Len(sent) /\ rcv_length \in 0..Len(buf) /\ connects \in 0..MaxConnects
        /\ requests \in 0..MaxRequests
    BY <1>2, FramingAssumption DEF Init
  <2>2. /\ buf_length \in Nat /\ Len(buf) <= buf_length /\ Header <= buf_length
    BY <1>2, FramingAssumption DEF Init
  <2>3. pc = "idle" /\ len = 0 /\ stale = FALSE /\ torn = FALSE /\ snd_offset = 0
    BY DEF Init
  <2>4. QED
    BY <1>2, <2>1, <2>2, <2>3 DEF TypeOK
<1>4. Fits /\ Sending
  BY FramingAssumption DEF Init, Fits, Sending
<1>5. QED
  BY <1>3, <1>4 DEF TypeInv

\* Nothing changes when nothing happens.
LEMMA StutterType ==
  ASSUME TypeInv, Sending, UNCHANGED vars PROVE TypeInv' /\ Sending'
<1>1. Byte' = Byte /\ LengthRead(buf)' = LengthRead(buf) /\ ToSend' = ToSend
  BY DEF vars, receiving, sending, Byte, LengthRead, ToSend
<1>2. Fits' /\ Sending'
  BY <1>1 DEF vars, receiving, sending, TypeInv, Fits, Sending
<1>3. TypeOK'
  BY <1>1 DEF vars, receiving, sending, TypeInv, TypeOK
<1>4. QED
  BY <1>2, <1>3 DEF TypeInv

LEMMA TypeAlways == Spec => []TypeInv
<1>1. Init => TypeInv /\ Sending
  BY InitType
<1>2. TypeInv /\ Sending /\ [Next]_vars => TypeInv' /\ Sending'
  BY NextType, SendingKept, StutterType
<1>3. QED
  BY <1>1, <1>2, PTL DEF Spec

(***************************************************************************)
(* The types are right: what is received never goes beyond dev->rcv_buf,   *)
(* on any connection, whatever was left of the last one.                   *)
(***************************************************************************)
THEOREM TypeCorrect == Spec => []TypeOK
<1>1. TypeInv => TypeOK
  BY DEF TypeInv
<1> QED
  BY <1>1, TypeAlways, PTL

-----------------------------------------------------------------------------
(***************************************************************************)
(* Frames: how a run of messages grows by some bytes of a message, and     *)
(* what is left of it without its first message.                           *)
(***************************************************************************)
AnyByte == [msg : Nat, pos : Nat]

\* The part of Frames that speaks of the bytes behind byte i.
FrameAt(s, i, size) ==
  LET m == s[i].msg  rest == size[m] - s[i].pos IN
  /\ m \in DOMAIN size /\ rest >= 0
  /\ \A j \in 1..rest : i + j <= Len(s) => s[i + j] = [msg |-> m, pos |-> s[i].pos + j]
  /\ i + rest < Len(s) => s[i + rest + 1] = [msg |-> m + 1, pos |-> 1]

LEMMA FramesByByte ==
  ASSUME NEW s, NEW k, NEW size
  PROVE  Frames(s, k, size) <=>
           /\ s # <<>> => s[1] = [msg |-> k, pos |-> 1]
           /\ \A i \in DOMAIN s : FrameAt(s, i, size)
BY DEF Frames, FrameAt

LEMMA FrameGrows ==
  ASSUME NEW s \in Seq(AnyByte), NEW r \in Seq(AnyByte), NEW size,
         \A x \in DOMAIN size : size[x] \in Nat,
         NEW m \in DOMAIN size, m \in Nat, NEW p \in Nat, p + Len(r) <= size[m],
         \A t \in 1..Len(r) : r[t] = [msg |-> m, pos |-> p + t],
         NEW i \in 1..Len(s), FrameAt(s, i, size),
         \/ s[Len(s)] = [msg |-> m, pos |-> p]
         \/ /\ p = 0 /\ m - 1 \in DOMAIN size
            /\ s[Len(s)] = [msg |-> m - 1, pos |-> size[m - 1]]
  PROVE  FrameAt(s \o r, i, size)
<1> DEFINE q == s \o r  l == Len(s)  a == s[i].msg  b == s[i].pos  rest == size[a] - b
<1>1. /\ q \in Seq(AnyByte) /\ Len(q) = l + Len(r)
      /\ \A j \in 1..l : q[j] = s[j]
      /\ \A j \in 1..Len(r) : q[l + j] = r[j]
  BY JoinType
<1>2. /\ l \in Nat /\ Len(r) \in Nat /\ i \in Nat /\ i >= 1 /\ i <= l /\ size[m] \in Nat
      /\ s[i] \in AnyByte
  BY ElementOfSeq
<1>3. a \in Nat /\ b \in Nat /\ s[i] = [msg |-> a, pos |-> b]
  BY <1>2 DEF AnyByte
<1>4. /\ a \in DOMAIN size /\ rest >= 0 /\ size[a] \in Nat /\ rest \in Nat
      /\ \A j \in 1..rest : i + j <= l => s[i + j] = [msg |-> a, pos |-> b + j]
      /\ i + rest < l => s[i + rest + 1] = [msg |-> a + 1, pos |-> 1]
  BY <1>3 DEF FrameAt
<1> HIDE DEF q, l, a, b, rest
<1> DEFINE d == l - i
<1>5. d \in Nat /\ l = i + d
  BY <1>2
<1>6. d <= rest => s[l] = [msg |-> a, pos |-> b + d]
  <2>1. CASE d = 0
    BY <1>2, <1>3, <1>5, <2>1
  <2>2. CASE d # 0
    <3>1. ASSUME d <= rest PROVE d \in 1..rest /\ i + d <= l
      BY <1>4, <1>5, <2>2, <3>1
    <3>2. QED
      BY <1>4, <1>5, <3>1
  <2>3. QED
    BY <2>1, <2>2
<1> HIDE DEF d
<1>7. \/ s[l] = [msg |-> m, pos |-> p]
      \/ /\ p = 0 /\ m - 1 \in DOMAIN size
         /\ s[l] = [msg |-> m - 1, pos |-> size[m - 1]]
  BY DEF l
<1>8. rest = size[a] - b /\ rest \in Nat /\ size[a] \in Nat /\ b \in Nat
  BY <1>3, <1>4 DEF rest
\* Is the last byte of s of the message of byte i, and not at its end?
<1>9. d < rest => a = m /\ b + d = p
  <2>1. SUFFICES ASSUME d < rest PROVE a = m /\ b + d = p
    OBVIOUS
  <2>2. s[l] = [msg |-> a, pos |-> b + d] /\ b + d < size[a]
    BY <1>3, <1>4, <1>5, <1>6, <1>8, <2>1
  <2>3. s[l].msg = a /\ s[l].pos = b + d
    BY <2>2
  <2>4. CASE s[l] = [msg |-> m, pos |-> p]
    BY <2>3, <2>4
  <2>5. CASE m - 1 \in DOMAIN size /\ s[l] = [msg |-> m - 1, pos |-> size[m - 1]]
    <3>1. a = m - 1 /\ b + d = size[m - 1]
      BY <2>3, <2>5
    <3>2. QED
      BY <1>4, <2>2, <3>1
  <2>6. QED
    BY <1>7, <2>4, <2>5
<1>10. ASSUME NEW j \in 1..rest, i + j <= Len(q)
       PROVE  q[i + j] = [msg |-> a, pos |-> b + j]
  <2>1. CASE i + j <= l
    <3>1. i + j \in 1..l
      BY <1>2, <1>4, <2>1
    <3>2. QED
      BY <1>1, <1>4, <2>1, <3>1
  <2>2. CASE ~(i + j <= l)
    <3> DEFINE t == j - d
    <3>1. d < rest /\ t \in 1..Len(r) /\ i + j = l + t
      BY <1>1, <1>2, <1>4, <1>5, <1>10, <2>2
    <3>2. q[l + t] = r[t] /\ r[t] = [msg |-> m, pos |-> p + t]
      BY <1>1, <3>1
    <3>3. a = m /\ p + t = b + j
      BY <1>3, <1>5, <1>9, <3>1
    <3>4. QED
      BY <3>1, <3>2, <3>3
  <2>3. QED
    BY <2>1, <2>2
<1>11. ASSUME i + rest < Len(q)
       PROVE  q[i + rest + 1] = [msg |-> a + 1, pos |-> 1]
  <2>1. CASE rest < d
    <3>1. i + rest < l /\ i + rest + 1 \in 1..l
      BY <1>2, <1>4, <1>5, <2>1
    <3>2. QED
      BY <1>1, <1>4, <3>1
  <2>2. CASE rest = d
    <3>0. i + rest < l + Len(r)
      BY <1>1, <1>11
    <3>1. s[l] = [msg |-> a, pos |-> b + d] /\ b + d = size[a] /\ Len(r) >= 1 /\ i + rest + 1 = l + 1
      <4>1. s[l] = [msg |-> a, pos |-> b + d]
        BY <1>4, <1>5, <1>6, <2>2
      <4>2. b + d = size[a]
        BY <1>8, <2>2
      <4>3. Len(r) >= 1 /\ i + rest + 1 = l + 1
        BY <1>2, <1>4, <1>5, <2>2, <3>0
      <4>4. QED
        BY <4>1, <4>2, <4>3
    <3>2. q[l + 1] = [msg |-> m, pos |-> p + 1]
      <4>1. 1 \in 1..Len(r)
        BY <1>2, <3>1
      <4>2. QED
        BY <1>1, <4>1
    <3>3. s[l].msg = a /\ s[l].pos = size[a]
      BY <3>1
    <3>4. CASE s[l] = [msg |-> m, pos |-> p]
      <4>1. a = m /\ p = size[m]
        BY <3>3, <3>4
      <4>2. FALSE
        BY <1>2, <3>1, <4>1
      <4>3. QED
        BY <4>2
    <3>5. CASE p = 0 /\ m - 1 \in DOMAIN size /\ s[l] = [msg |-> m - 1, pos |-> size[m - 1]]
      <4>1. a = m - 1
        BY <3>3, <3>5
      <4>2. QED
        BY <1>3, <3>1, <3>2, <3>5, <4>1
    <3>6. QED
      BY <1>7, <3>4, <3>5
  <2>3. CASE d < rest
    <3>1. a = m /\ b + d = p
      BY <1>9, <2>3
    <3>2. rest = size[m] - b /\ size[m] \in Nat /\ p + Len(r) <= size[m] /\ Len(r) \in Nat
      BY <1>2, <1>8, <3>1
    <3>3. i + rest < (i + d) + Len(r)
      BY <1>1, <1>5, <1>11
    <3>4. p \in Nat /\ d \in Nat /\ i \in Nat
      BY <1>2, <1>5
    <3>5. FALSE
      BY <1>8, <3>1, <3>2, <3>3, <3>4
    <3>6. QED
      BY <3>5
  <2>4. QED
    BY <1>4, <1>5, <2>1, <2>2, <2>3
<1>12. q[i] = [msg |-> a, pos |-> b]
  <2>1. i \in 1..l
    BY <1>2
  <2>2. QED
    BY <1>1, <1>3, <2>1
<1>13. q[i].msg = a /\ q[i].pos = b
  BY <1>12
<1>14. FrameAt(q, i, size)
  BY <1>4, <1>8, <1>10, <1>11, <1>13 DEF FrameAt
<1>15. QED
  BY <1>14 DEF q

\* Where things lie in a sequence of l and n elements.
LEMMA SplitIndex ==
  ASSUME NEW l \in Nat, NEW n \in Nat, NEW i \in 1..(l + n), i > l
  PROVE  i - l \in 1..n /\ i = l + (i - l)
OBVIOUS

LEMMA NextIndex ==
  ASSUME NEW l \in Nat, NEW n \in Nat, NEW i \in 1..l, NEW rest \in Nat, i + rest < l
  PROVE  /\ i + rest + 1 \in 1..l /\ n + i + rest < n + l
         /\ n + i + rest + 1 = n + (i + rest + 1)
OBVIOUS

LEMMA RestReaches ==
  ASSUME NEW l \in Nat, NEW n \in Nat, NEW p \in Nat, NEW t \in Nat, NEW size \in Nat,
         p + n <= size, t <= n
  PROVE  /\ size - (p + t) \in Nat /\ l + t + (size - (p + t)) >= l + n
         /\ ~(l + t + (size - (p + t)) < l + n)
OBVIOUS

\* The bytes that are added.
LEMMA FrameAdded ==
  ASSUME NEW s \in Seq(AnyByte), NEW r \in Seq(AnyByte), NEW size,
         NEW m \in DOMAIN size, m \in Nat, size[m] \in Nat,
         NEW p \in Nat, p + Len(r) <= size[m],
         \A t \in 1..Len(r) : r[t] = [msg |-> m, pos |-> p + t],
         NEW t \in 1..Len(r)
  PROVE  FrameAt(s \o r, Len(s) + t, size)
<1> DEFINE q == s \o r  l == Len(s)  n == Len(r)  rest == size[m] - (p + t)
<1>1. /\ q \in Seq(AnyByte) /\ Len(q) = l + n
      /\ \A j \in 1..n : q[l + j] = r[j]
  BY JoinType
<1>2. l \in Nat /\ n \in Nat /\ t \in Nat /\ t >= 1 /\ t <= n /\ t \in 1..n
  OBVIOUS
<1>3. \A j \in 1..n : q[l + j] = [msg |-> m, pos |-> p + j]
  BY <1>1
<1> HIDE DEF q, l, n
<1>4. q[l + t] = [msg |-> m, pos |-> p + t]
  BY <1>2, <1>3
<1>5. rest \in Nat /\ l + t + rest >= Len(q) /\ ~(l + t + rest < Len(q))
  <2>1. p + n <= size[m]
    BY DEF n
  <2>2. rest \in Nat /\ l + t + rest >= l + n /\ ~(l + t + rest < l + n)
    BY <1>2, <2>1, RestReaches
  <2>3. QED
    BY <1>1, <2>2
<1>6. ASSUME NEW j \in 1..rest, l + t + j <= Len(q)
      PROVE  q[l + t + j] = [msg |-> m, pos |-> (p + t) + j]
  <2>1. t + j \in 1..n /\ l + t + j = l + (t + j) /\ (p + t) + j = p + (t + j)
    BY <1>1, <1>2, <1>5, <1>6
  <2>2. QED
    BY <1>3, <2>1
<1>7. rest >= 0 /\ ~(l + t + rest < Len(q))
  BY <1>5
<1>8. q[l + t].msg = m /\ q[l + t].pos = p + t
  BY <1>4
<1>9. FrameAt(q, l + t, size)
  BY <1>6, <1>7, <1>8 DEF FrameAt
<1>10. QED
  BY <1>9 DEF q, l

\* Messages more are known.
LEMMA FramesLonger ==
  ASSUME NEW s, NEW k, NEW size, NEW more, Frames(s, k, size),
         \A x \in DOMAIN size : x \in DOMAIN more /\ more[x] = size[x]
  PROVE  Frames(s, k, more)
<1>1. \A i \in DOMAIN s : FrameAt(s, i, size)
  BY FramesByByte
<1>2. \A i \in DOMAIN s : s[i].msg \in DOMAIN more /\ more[s[i].msg] = size[s[i].msg]
  BY <1>1 DEF FrameAt
<1>3. \A i \in DOMAIN s : FrameAt(s, i, more)
  BY <1>1, <1>2 DEF FrameAt
<1>4. QED
  BY <1>3, FramesByByte

\* A run of messages and the next bytes of its last message, or of the next one.
LEMMA FramesJoin ==
  ASSUME NEW s \in Seq(AnyByte), NEW r \in Seq(AnyByte), NEW size, NEW k,
         \A x \in DOMAIN size : size[x] \in Nat,
         NEW m \in DOMAIN size, m \in Nat, NEW p \in Nat, p + Len(r) <= size[m],
         \A t \in 1..Len(r) : r[t] = [msg |-> m, pos |-> p + t],
         Frames(s, k, size),
         s = <<>> => m = k /\ p = 0,
         s # <<>> =>
           \/ s[Len(s)] = [msg |-> m, pos |-> p]
           \/ /\ p = 0 /\ m - 1 \in DOMAIN size
              /\ s[Len(s)] = [msg |-> m - 1, pos |-> size[m - 1]]
  PROVE  Frames(s \o r, k, size)
<1> DEFINE q == s \o r
<1>1. /\ q \in Seq(AnyByte) /\ Len(q) = Len(s) + Len(r)
      /\ \A j \in 1..Len(s) : q[j] = s[j]
      /\ \A j \in 1..Len(r) : q[Len(s) + j] = r[j]
  BY JoinType
<1>2. Len(s) \in Nat /\ Len(r) \in Nat
  OBVIOUS
<1>3. ASSUME NEW i \in 1..Len(s) PROVE FrameAt(q, i, size)
  <2>1. s # <<>>
    OBVIOUS
  <2>2. \A j \in DOMAIN s : FrameAt(s, j, size)
    BY FramesByByte, Zenon
  <2>3. i \in DOMAIN s
    OBVIOUS
  <2>4. FrameAt(s, i, size)
    BY <2>2, <2>3
  <2>5. QED
    BY <2>1, <2>4, FrameGrows
<1>4. ASSUME NEW t \in 1..Len(r) PROVE FrameAt(q, Len(s) + t, size)
  BY FrameAdded
<1> HIDE DEF q
<1>5. ASSUME NEW i \in DOMAIN q PROVE FrameAt(q, i, size)
  <2> DEFINE l == Len(s)  n == Len(r)
  <2>0. l \in Nat /\ n \in Nat
    BY <1>2
  <2>1. i \in 1..l + n
    BY <1>1
  <2>2. CASE i <= Len(s)
    BY <1>2, <1>3, <2>1, <2>2
  <2>3. CASE i > Len(s)
    <3> DEFINE t == i - l
    <3>0. i > l
      BY <2>3
    <3> HIDE DEF l, n
    <3>1. t \in 1..n /\ i = l + t
      BY <2>0, <2>1, <3>0, SplitIndex
    <3> HIDE DEF t
    <3>2. t \in 1..Len(r) /\ i = Len(s) + t
      BY <3>1 DEF l, n
    <3>3. QED
      BY <1>4, <3>2
  <2>4. QED
    BY <1>2, <2>1, <2>2, <2>3
<1>6. ASSUME q # <<>> PROVE q[1] = [msg |-> k, pos |-> 1]
  <2>1. CASE s = <<>>
    <3>1. Len(r) # 0 /\ Len(s) = 0
      BY <1>1, <1>2, <1>6, <2>1
    <3>2. 1 \in 1..Len(r)
      BY <1>2, <3>1
    <3>3. q[1] = r[1] /\ r[1] = [msg |-> m, pos |-> p + 1]
      BY <1>1, <3>1, <3>2
    <3>4. QED
      BY <2>1, <3>3
  <2>2. CASE s # <<>>
    <3>1. 1 \in 1..Len(s)
      BY <1>2, <2>2
    <3>2. s[1] = [msg |-> k, pos |-> 1]
      BY <2>2, FramesByByte
    <3>3. QED
      BY <1>1, <3>1, <3>2
  <2>3. QED
    BY <2>1, <2>2
<1>7. Frames(q, k, size)
  BY <1>5, <1>6, FramesByByte
<1>8. QED
  BY <1>7 DEF q

\* Without the first message.
LEMMA FramesDrop ==
  ASSUME NEW b \in Seq(AnyByte), NEW w \in Seq(AnyByte), NEW size, NEW k,
         \A x \in DOMAIN size : size[x] \in Nat,
         Frames(b \o w, k, size), b # <<>>, Len(b) = size[k]
  PROVE  Frames(w, k + 1, size)
<1> DEFINE s == b \o w  n == Len(b)
<1>1. /\ s \in Seq(AnyByte) /\ Len(s) = n + Len(w)
      /\ \A j \in 1..n : s[j] = b[j]
      /\ \A j \in 1..Len(w) : s[n + j] = w[j]
  BY JoinType
<1>2. n \in Nat /\ n > 0 /\ Len(w) \in Nat
  OBVIOUS
<1>3. s # <<>> /\ 1 \in DOMAIN s
  BY <1>1, <1>2
<1>4. s[1] = [msg |-> k, pos |-> 1] /\ \A i \in DOMAIN s : FrameAt(s, i, size)
  BY <1>3, FramesByByte
<1>5. size[k] = n
  OBVIOUS
<1> HIDE DEF s, n
<1>6. ASSUME w # <<>> PROVE w[1] = [msg |-> k + 1, pos |-> 1]
  <2>1. Len(w) > 0 /\ 1 \in 1..Len(w)
    BY <1>2, <1>6
  <2>2. s[1].msg = k /\ s[1].pos = 1 /\ FrameAt(s, 1, size)
    BY <1>3, <1>4
  <2>3. size[k] - 1 = n - 1 /\ 1 + (n - 1) < Len(s) /\ 1 + (n - 1) + 1 = n + 1
    BY <1>1, <1>2, <1>5, <2>1
  <2>4. 1 + (n - 1) < Len(s) => s[1 + (n - 1) + 1] = [msg |-> k + 1, pos |-> 1]
    BY <2>2, <2>3 DEF FrameAt
  <2>5. s[n + 1] = [msg |-> k + 1, pos |-> 1]
    BY <2>3, <2>4
  <2>6. QED
    BY <1>1, <2>1, <2>5
<1>7. ASSUME NEW i \in DOMAIN w PROVE FrameAt(w, i, size)
  <2> DEFINE a == w[i].msg  p == w[i].pos  rest == size[a] - p
  <2>1. i \in 1..Len(w) /\ n + i \in DOMAIN s /\ s[n + i] = w[i]
    BY <1>1, <1>2
  <2>2. FrameAt(s, n + i, size) /\ w[i] \in AnyByte
    BY <1>4, <2>1, ElementOfSeq
  <2>3. /\ a \in DOMAIN size /\ rest >= 0
        /\ \A j \in 1..rest : n + i + j <= Len(s) => s[n + i + j] = [msg |-> a, pos |-> p + j]
        /\ n + i + rest < Len(s) => s[n + i + rest + 1] = [msg |-> a + 1, pos |-> 1]
    BY <2>1, <2>2 DEF FrameAt
  <2> HIDE DEF a, p, rest
  <2>4. ASSUME NEW j \in 1..rest, i + j <= Len(w) PROVE w[i + j] = [msg |-> a, pos |-> p + j]
    <3>1. i + j \in 1..Len(w) /\ n + i + j <= Len(s) /\ n + i + j = n + (i + j)
      BY <1>1, <1>2, <2>1, <2>4
    <3>2. s[n + (i + j)] = w[i + j]
      BY <1>1, <3>1
    <3>3. s[n + i + j] = [msg |-> a, pos |-> p + j]
      BY <2>3, <3>1
    <3>4. QED
      BY <3>1, <3>2, <3>3
  <2>5. ASSUME i + rest < Len(w) PROVE w[i + rest + 1] = [msg |-> a + 1, pos |-> 1]
    <3>0. rest \in Nat
      <4>1. size[a] \in Nat /\ p \in Nat
        BY <2>2, <2>3 DEF AnyByte, p
      <4>2. QED
        BY <2>3, <4>1 DEF rest
    <3> DEFINE lw == Len(w)
    <3>1. i \in 1..lw /\ lw \in Nat /\ i + rest < lw /\ Len(s) = n + lw
      BY <1>1, <1>2, <2>1, <2>5
    <3>a. /\ i + rest + 1 \in 1..lw /\ n + i + rest < Len(s)
          /\ n + i + rest + 1 = n + (i + rest + 1)
      <4> HIDE DEF lw
      <4>1. QED
        BY <1>2, <3>0, <3>1, NextIndex
    <3>2. s[n + (i + rest + 1)] = w[i + rest + 1]
      BY <1>1, <3>a
    <3>3. s[n + i + rest + 1] = [msg |-> a + 1, pos |-> 1]
      BY <2>3, <3>a
    <3>4. QED
      BY <3>a, <3>2, <3>3
  <2>6. QED
    BY <2>3, <2>4, <2>5 DEF FrameAt, a, p, rest
<1>8. QED
  BY <1>6, <1>7, FramesByByte

-----------------------------------------------------------------------------
(***************************************************************************)
(* The device's messages.  Begun are those of which a byte was sent: the   *)
(* one in the loop that sends is not, as long as snd_offset is 0.          *)
(***************************************************************************)
Begun == IF pc = "send" /\ snd_offset = 0 THEN SubSeq(asked, 1, Len(asked) - 1) ELSE asked

FramesInv ==
  ~torn =>
    /\ Frames(up, 1, Begun)
    /\ IF up = <<>> THEN Begun = <<>>
       ELSE up[Len(up)] =
              [msg |-> Len(Begun),
               pos |-> IF pc = "send" /\ snd_offset > 0 THEN snd_offset ELSE Begun[Len(Begun)]]

LEMMA AskedType ==
  ASSUME TypeInv
  PROVE  /\ asked \in Seq(Requests) /\ Len(asked) \in Nat /\ DOMAIN asked = 1..Len(asked)
         /\ \A x \in 1..Len(asked) : asked[x] \in Nat /\ asked[x] > 0
         /\ up \in Seq(AnyByte) /\ snd_offset \in Nat
<1>1. asked \in Seq(Requests) /\ up \in Seq(AnyByte) /\ snd_offset \in Nat
  BY DEF TypeInv, TypeOK, AnyByte
<1>2. \A x \in 1..Len(asked) : asked[x] \in Requests
  BY <1>1, ElementOfSeq
<1>3. \A x \in Requests : x \in Nat /\ x > 0
  BY FramingAssumption
<1>4. QED
  BY <1>1, <1>2, <1>3

LEMMA SendBeginsFrames ==
  ASSUME TypeInv, FramesInv, SendBegins PROVE FramesInv'
<1>1. PICK n \in Requests : asked' = Append(asked, n)
  BY DEF SendBegins
<1>2. pc = "idle" /\ pc' = "send" /\ snd_offset' = 0 /\ up' = up /\ torn' = torn
  BY DEF SendBegins
<1>3. asked \in Seq(Requests)
  BY AskedType
<1>4. SubSeq(asked', 1, Len(asked') - 1) = asked
  BY <1>1, <1>3, AppendProperties
<1>5. Begun = asked /\ Begun' = asked
  BY <1>2, <1>4 DEF Begun
<1>6. QED
  BY <1>2, <1>5 DEF FramesInv

\* What SendSome adds.
LEMMA Piece ==
  ASSUME TypeInv, Sending, pc = "send", NEW c \in 0..(ToSend - snd_offset)
  PROVE  LET r == SubSeq(Bytes(Len(asked), ToSend), snd_offset + 1, snd_offset + c) IN
         /\ r \in Seq(AnyByte) /\ Len(r) = c
         /\ \A t \in 1..Len(r) : r[t] = [msg |-> Len(asked), pos |-> snd_offset + t]
<1> DEFINE m == Len(asked)  b == Bytes(m, ToSend)  r == SubSeq(b, snd_offset + 1, snd_offset + c)
<1>1. ToSend \in Nat /\ snd_offset \in 0..ToSend /\ m \in Nat /\ c \in Nat
  BY ToSendType, AskedType DEF Sending, TypeInv
<1>2. b \in Seq(AnyByte) /\ Len(b) = ToSend
  <2>1. \A j \in 1..ToSend : [msg |-> m, pos |-> j] \in AnyByte
    BY <1>1 DEF AnyByte
  <2>2. QED
    BY <1>1, <2>1, BytesType
<1>3. \A j \in 1..ToSend : b[j] = [msg |-> m, pos |-> j]
  BY DEF Bytes
<1> HIDE DEF b, m
<1>4. snd_offset \in 0..Len(b) /\ snd_offset + c \in snd_offset..Len(b) /\ (snd_offset + c) - snd_offset = c
  BY <1>1, <1>2
<1>5. /\ r \in Seq(AnyByte) /\ Len(r) = c
      /\ \A t \in 1..c : r[t] = b[snd_offset + t]
  BY <1>2, <1>4, Middle
<1> HIDE DEF r
<1>6. \A t \in 1..c : snd_offset + t \in 1..ToSend
  BY <1>1
<1>7. \A t \in 1..Len(r) : r[t] = [msg |-> m, pos |-> snd_offset + t]
  BY <1>3, <1>5, <1>6
<1>8. QED
  BY <1>5, <1>7 DEF r, b, m

LEMMA SendSomeFrames ==
  ASSUME TypeInv, Sending, FramesInv, SendSome PROVE FramesInv'
<1>1. PICK c \in 0..(ToSend - snd_offset) :
        /\ up' = up \o SubSeq(Bytes(Len(asked), ToSend), snd_offset + 1, snd_offset + c)
        /\ snd_offset' = snd_offset + c
  BY DEF SendSome
<1>2. pc = "send" /\ pc' = "send" /\ asked' = asked /\ torn' = torn
  BY DEF SendSome
<1> DEFINE r == SubSeq(Bytes(Len(asked), ToSend), snd_offset + 1, snd_offset + c)
           m == Len(asked)
<1>3. /\ r \in Seq(AnyByte) /\ Len(r) = c
      /\ \A t \in 1..Len(r) : r[t] = [msg |-> m, pos |-> snd_offset + t]
  BY <1>2, Piece
<1>4. /\ up' = up \o r /\ ToSend = asked[m]
  BY <1>1 DEF ToSend
<1>5. /\ up \in Seq(AnyByte) /\ snd_offset \in Nat /\ asked \in Seq(Requests)
      /\ m \in Nat /\ m > 0 /\ m \in DOMAIN asked /\ DOMAIN asked = 1..m /\ asked[m] \in Nat
      /\ \A x \in DOMAIN asked : asked[x] \in Nat
  BY <1>2, AskedType DEF Sending
<1>6. c \in Nat /\ snd_offset + c <= asked[m]
  <2>1. c \in 0..(asked[m] - snd_offset)
    BY <1>4
  <2>2. QED
    BY <1>5, <2>1
<1> HIDE DEF r, m
<1>7. CASE c = 0
  <2>1. up' = up /\ snd_offset' = snd_offset
    <3>1. r = <<>>
      BY <1>3, <1>7
    <3>2. QED
      BY <1>1, <1>4, <1>5, <1>7, <3>1
  <2>2. QED
    BY <1>2, <2>1 DEF FramesInv, Begun
<1>8. CASE c > 0 /\ ~torn
  <2>1. snd_offset' > 0 /\ Begun' = asked
    BY <1>1, <1>2, <1>5, <1>6, <1>8 DEF Begun
  <2>2. /\ Frames(up, 1, asked)
        /\ up = <<>> => m = 1 /\ snd_offset = 0
        /\ up # <<>> =>
             \/ up[Len(up)] = [msg |-> m, pos |-> snd_offset]
             \/ /\ snd_offset = 0 /\ m - 1 \in DOMAIN asked
                /\ up[Len(up)] = [msg |-> m - 1, pos |-> asked[m - 1]]
    <3>1. CASE snd_offset = 0
      <4> DEFINE before == SubSeq(asked, 1, m - 1)
      <4>1. Begun = before
        BY <1>2, <3>1 DEF Begun, m
      <4>2. m - 1 \in 0..Len(asked)
        BY <1>5 DEF m
      <4>3. Len(before) = m - 1 /\ before \in Seq(Requests) /\ \A x \in 1..(m - 1) : before[x] = asked[x]
        BY <1>5, <4>2, Prefix
      <4> HIDE DEF before
      <4>4. /\ Frames(up, 1, before)
            /\ up = <<>> => before = <<>>
            /\ up # <<>> => up[Len(up)] = [msg |-> m - 1, pos |-> before[m - 1]]
        BY <1>8, <3>1, <4>1, <4>3 DEF FramesInv
      <4>5. \A x \in DOMAIN before : x \in DOMAIN asked /\ asked[x] = before[x]
        BY <1>5, <4>3
      <4>6. Frames(up, 1, asked)
        BY <4>4, <4>5, FramesLonger
      <4>7. up = <<>> => m = 1
        BY <1>5, <4>3, <4>4
      <4>8. ASSUME up # <<>> PROVE m - 1 \in DOMAIN before
        <5>1. Len(up) \in DOMAIN up
          BY <1>5, <4>8
        <5>2. FrameAt(up, Len(up), before)
          BY <4>4, <5>1, FramesByByte
        <5>3. up[Len(up)].msg = m - 1
          BY <4>4, <4>8
        <5>4. QED
          BY <5>2, <5>3 DEF FrameAt
      <4>9. ASSUME up # <<>>
            PROVE  m - 1 \in DOMAIN asked /\ before[m - 1] = asked[m - 1]
        BY <4>5, <4>8, <4>9
      <4>10. QED
        BY <3>1, <4>4, <4>6, <4>7, <4>9
    <3>2. CASE snd_offset > 0
      <4>1. Begun = asked
        BY <1>5, <3>2 DEF Begun
      <4>2. Frames(up, 1, asked) /\ IF up = <<>> THEN asked = <<>> ELSE up[Len(up)] = [msg |-> m, pos |-> snd_offset]
        BY <1>2, <1>8, <3>2, <4>1 DEF FramesInv, m
      <4>3. asked # <<>>
        BY <1>2 DEF Sending
      <4>4. QED
        BY <4>2, <4>3
    <3>3. QED
      BY <1>5, <3>1, <3>2
  <2>3. Frames(up \o r, 1, asked)
    BY <1>3, <1>5, <1>6, <2>2, FramesJoin
  <2>4. up' # <<>> /\ up'[Len(up')] = [msg |-> m, pos |-> snd_offset']
    <3>b. up \in Seq(AnyByte) /\ r \in Seq(AnyByte)
      BY <1>3, <1>5
    <3>a. /\ Len(up \o r) = Len(up) + Len(r)
           /\ \A t \in 1..Len(r) : (up \o r)[Len(up) + t] = r[t]
      BY <3>b, JoinType
    <3>1. Len(up') = Len(up) + c /\ \A t \in 1..c : up'[Len(up) + t] = r[t]
      BY <1>3, <1>4, <3>a
    <3>2. c \in 1..c /\ Len(up) \in Nat
      BY <1>5, <1>6, <1>8
    <3>3. up'[Len(up')] = r[c] /\ Len(up') > 0
      BY <3>1, <3>2, <1>8
    <3>4. r[c] = [msg |-> m, pos |-> snd_offset']
      BY <1>1, <1>3, <3>2
    <3>5. up' # <<>>
      BY <3>3
    <3>6. QED
      BY <3>3, <3>4, <3>5
  <2>5. QED
    BY <1>2, <1>4, <2>1, <2>3, <2>4 DEF FramesInv, m
<1>9. QED
  BY <1>2, <1>6, <1>7, <1>8 DEF FramesInv

LEMMA FramesKept ==
  ASSUME TypeInv, Sending, FramesInv, Next PROVE FramesInv'
<1>1. CASE SendBegins
  BY <1>1, SendBeginsFrames
<1>2. CASE SendSome
  BY <1>2, SendSomeFrames
<1>3. CASE SendEnds
  <2>1. /\ pc = "send" /\ pc' = "idle" /\ snd_offset = ToSend /\ up' = up /\ asked' = asked
        /\ torn' = torn /\ asked # <<>>
    BY <1>3 DEF SendEnds, Sending
  <2>2. snd_offset > 0
    BY <2>1, AskedType DEF ToSend
  <2>3. ~(snd_offset = 0)
    BY <2>2
  <2>4. Begun = asked /\ Begun' = asked
    BY <2>1, <2>3 DEF Begun
  <2>5. QED
    BY <2>1, <2>2, <2>4 DEF FramesInv, ToSend
<1>4. CASE SendGivesUp
  <2>1. /\ pc = "send" /\ pc' = "idle" /\ up' = up
        /\ torn' = (torn \/ snd_offset > 0)
        /\ asked' = IF snd_offset > 0 THEN asked ELSE SubSeq(asked, 1, Len(asked) - 1)
    BY <1>4 DEF SendGivesUp
  <2>2. CASE snd_offset > 0
    BY <2>1, <2>2 DEF FramesInv
  <2>3. CASE ~(snd_offset > 0)
    <3>1. snd_offset = 0
      BY <2>3, AskedType
    <3>2. Begun' = Begun
      BY <2>1, <2>3, <3>1 DEF Begun
    <3>3. torn' => torn
      BY <2>1, <2>3
    <3>4. torn => torn'
      BY <2>1
    <3>5. QED
      BY <2>1, <2>3, <3>2, <3>4 DEF FramesInv
  <2>4. QED
    BY <2>2, <2>3
<1>5. CASE Connect
  <2>1. up' = <<>> /\ asked' = <<>> /\ pc' = pc /\ pc = "idle"
    BY <1>5 DEF Connect
  <2>2. Begun' = <<>>
    BY <2>1 DEF Begun
  <2>3. Frames(up', 1, Begun')
    BY <2>1 DEF Frames
  <2>4. QED
    BY <2>1, <2>2, <2>3 DEF FramesInv
<1>6. CASE Call \/ Receive \/ GiveUp
  <2>1. pc # "send" /\ pc' # "send" /\ UNCHANGED sending
    BY <1>6 DEF Call, Receive, RecvHeader, RecvBody, Deliver, DecryptFails, GiveUp, ReadLength
  <2>2. QED
    BY <2>1 DEF sending, FramesInv, Begun
<1>7. CASE PlatformSends
  BY <1>7 DEF PlatformSends, sending, FramesInv, Begun
<1>8. QED
  BY <1>1, <1>2, <1>3, <1>4, <1>5, <1>6, <1>7 DEF Next, Send

LEMMA FramesWhole ==
  ASSUME TypeInv, FramesInv PROVE WholeFrames
<1>1. CASE pc # "send"
  BY <1>1 DEF FramesInv, WholeFrames, Begun
<1>2. CASE pc = "send" /\ snd_offset = 0 /\ ~torn
  <2> DEFINE before == SubSeq(asked, 1, Len(asked) - 1)
  <2>1. Frames(up, 1, before)
    BY <1>2 DEF FramesInv, Begun
  <2>2. asked \in Seq(Requests) /\ Len(asked) \in Nat /\ DOMAIN asked = 1..Len(asked)
    BY AskedType
  <2>3. \A x \in DOMAIN before : x \in DOMAIN asked /\ asked[x] = before[x]
    <3>1. CASE Len(asked) = 0
      BY <2>2, <3>1
    <3>2. CASE Len(asked) > 0
      <4>1. Len(asked) - 1 \in 0..Len(asked)
        BY <2>2, <3>2
      <4>2. /\ before \in Seq(Requests) /\ Len(before) = Len(asked) - 1
            /\ \A x \in 1..(Len(asked) - 1) : before[x] = asked[x]
        BY <2>2, <4>1, Prefix
      <4>3. QED
        BY <2>2, <4>2
    <3>3. QED
      BY <2>2, <3>1, <3>2
  <2>4. Frames(up, 1, asked)
    <3> HIDE DEF before
    <3>1. QED
      BY <2>1, <2>3, FramesLonger
  <2>5. QED
    BY <1>2, <2>4 DEF WholeFrames
<1>3. CASE pc = "send" /\ snd_offset # 0
  BY <1>3 DEF FramesInv, WholeFrames, Begun
<1>4. QED
  BY <1>1, <1>2, <1>3 DEF WholeFrames

(***************************************************************************)
(* The platform gets whole messages, one behind the other, for every cut   *)
(* of the device's messages, until a send gives up inside one.             *)
(***************************************************************************)
THEOREM MessagesWhole == Spec => []WholeFrames
<1>1. Init => TypeInv /\ Sending /\ FramesInv
  <2>1. Init => TypeInv /\ Sending
    BY InitType
  <2>2. Init => FramesInv
    BY DEF Init, FramesInv, Frames, Begun
  <2>3. QED
    BY <2>1, <2>2
<1>2. TypeInv /\ Sending /\ FramesInv /\ [Next]_vars => TypeInv' /\ Sending' /\ FramesInv'
  <2>1. ASSUME FramesInv, UNCHANGED vars PROVE FramesInv'
    <3>1. up' = up /\ torn' = torn /\ pc' = pc /\ snd_offset' = snd_offset /\ Begun' = Begun
      BY <2>1 DEF vars, sending, Begun
    <3>2. QED
      BY <2>1, <3>1 DEF FramesInv
  <2>2. QED
    BY <2>1, NextType, SendingKept, StutterType, FramesKept
<1>3. TypeInv /\ FramesInv => WholeFrames
  BY FramesWhole
<1>4. QED
  BY <1>1, <1>2, <1>3, PTL DEF Spec

-----------------------------------------------------------------------------
(***************************************************************************)
(* The platform's messages.  The bytes kept and those on the wire are one  *)
(* run of messages, from the first that is not delivered to the last that  *)
(* was sent: a recv moves bytes within it, a delivery takes its first      *)
(* message away, and a new message is put behind it.                       *)
(***************************************************************************)
Run == Kept \o wire
Due == first + Len(delivered) + 1

RunInv ==
  ~stale =>
    /\ Frames(Run, Due, SentLengths)
    /\ IF Run = <<>> THEN Due = Len(sent) + 1
       ELSE Run[Len(Run)] = [msg |-> Len(sent), pos |-> sent[Len(sent)].len]
    /\ delivered = [i \in 1..Len(delivered) |-> first + i]

LEMMA ByteIsAny ==
  ASSUME TypeInv PROVE Byte \subseteq AnyByte
<1>1. Len(sent) \in Nat
  BY DEF TypeInv, TypeOK
<1>2. 0..Len(sent) \subseteq Nat
  BY <1>1
<1>3. QED
  BY <1>2 DEF Byte, AnyByte

LEMMA SentLengthsType ==
  ASSUME TypeInv
  PROVE  /\ DOMAIN SentLengths = 1..Len(sent) /\ Len(sent) \in Nat
         /\ \A x \in DOMAIN SentLengths :
              SentLengths[x] = sent[x].len /\ SentLengths[x] \in Nat /\ SentLengths[x] > Header
<1>1. sent \in Seq([len : Lengths, ok : BOOLEAN])
  BY DEF TypeInv, TypeOK
<1>2. DOMAIN sent = 1..Len(sent) /\ Len(sent) \in Nat
  BY <1>1
<1>3. \A x \in 1..Len(sent) : sent[x].len \in Lengths
  BY SentType DEF TypeInv
<1>4. \A n \in Lengths : n \in Nat /\ n > Header
  BY FramingAssumption
<1>5. QED
  BY <1>2, <1>3, <1>4 DEF SentLengths

LEMMA KeptType ==
  ASSUME TypeInv
  PROVE  /\ Kept \in Seq(Byte) /\ Kept \in Seq(AnyByte) /\ wire \in Seq(AnyByte)
         /\ buf \in Seq(AnyByte) /\ Len(buf) \in Nat
         /\ Run \in Seq(AnyByte)
         /\ pc \notin {"header", "body"} => Len(Kept) = rcv_length
<1>1. /\ buf \in Seq(Byte) /\ wire \in Seq(Byte) /\ rcv_length \in 0..Len(buf)
      /\ pc \in {"idle", "header", "body", "send"}
  BY DEF TypeInv, TypeOK
<1>2. SubSeq(buf, 1, rcv_length) \in Seq(Byte) /\ Len(SubSeq(buf, 1, rcv_length)) = rcv_length
  BY <1>1, Prefix
<1>3. Kept \in Seq(Byte) /\ (pc \notin {"header", "body"} => Len(Kept) = rcv_length)
  BY <1>1, <1>2 DEF Kept
<1>4. \A q \in Seq(Byte) : q \in Seq(AnyByte)
  BY ByteIsAny, SeqMonotonic
<1>5. Kept \in Seq(AnyByte) /\ wire \in Seq(AnyByte) /\ buf \in Seq(AnyByte)
  BY <1>1, <1>3, <1>4
<1>6. Run \in Seq(AnyByte)
  BY <1>5, JoinType DEF Run
<1>7. QED
  BY <1>1, <1>3, <1>5, <1>6

\* The bytes b begin with message k, as far as they go.
HeadOf(b, k) ==
  /\ k \in 1..Len(sent) /\ Len(b) \in Nat
  /\ \A j \in 1..Len(b) : j <= sent[k].len => b[j] = [msg |-> k, pos |-> j]

LEMMA RunHead ==
  ASSUME TypeInv, NEW b \in Seq(AnyByte), NEW w \in Seq(AnyByte), NEW k,
         Frames(b \o w, k, SentLengths), b # <<>>
  PROVE  HeadOf(b, k)
<1> DEFINE s == b \o w  n == Len(b)  size == sent[k].len
<1>1. /\ Len(s) = n + Len(w) /\ n \in Nat /\ Len(w) \in Nat /\ n > 0 /\ s \in Seq(AnyByte)
      /\ \A j \in 1..n : s[j] = b[j]
  BY JoinType
<1>2. s # <<>> /\ 1 \in DOMAIN s
  BY <1>1
<1>3. s[1] = [msg |-> k, pos |-> 1] /\ FrameAt(s, 1, SentLengths)
  BY <1>2, FramesByByte
<1>4. s[1].msg = k /\ s[1].pos = 1
  BY <1>3
<1>5. k \in 1..Len(sent) /\ SentLengths[k] = size /\ size \in Nat
  BY <1>3, <1>4, SentLengthsType DEF FrameAt
<1> HIDE DEF s, n, size
<1>6. \A j \in 1..(size - 1) : 1 + j <= Len(s) => s[1 + j] = [msg |-> k, pos |-> 1 + j]
  BY <1>3, <1>4, <1>5 DEF FrameAt
<1>7. ASSUME NEW j \in 1..n, j <= size PROVE b[j] = [msg |-> k, pos |-> j]
  <2>1. CASE j = 1
    BY <1>1, <1>3, <2>1
  <2>2. CASE j # 1
    <3>1. j - 1 \in 1..(size - 1) /\ 1 + (j - 1) = j /\ j <= Len(s)
      BY <1>1, <1>5, <1>7, <2>2
    <3>2. s[j] = [msg |-> k, pos |-> j]
      BY <1>6, <3>1
    <3>3. QED
      BY <1>1, <3>2
  <2>3. QED
    BY <2>1, <2>2
<1>8. QED
  BY <1>1, <1>5, <1>7 DEF n, size, HeadOf

\* Its header, if it is complete, tells its length.
LEMMA RunLength ==
  ASSUME TypeInv, NEW b \in Seq(AnyByte), NEW w \in Seq(AnyByte), NEW k,
         Frames(b \o w, k, SentLengths), b # <<>>, Len(b) >= Header
  PROVE  LengthRead(b) = sent[k].len
<1>a. HeadOf(b, k)
  BY RunHead, Zenon
<1>1. /\ k \in 1..Len(sent) /\ Len(b) \in Nat
      /\ \A j \in 1..Len(b) : j <= sent[k].len => b[j] = [msg |-> k, pos |-> j]
  BY <1>a DEF HeadOf
<1>2. sent[k].len \in Nat /\ sent[k].len > Header /\ Len(sent) \in Nat
  BY <1>1, SentLengthsType
<1>3. \A j \in 1..Header : b[j] = [msg |-> k, pos |-> j]
  <2>1. \A j \in 1..Header : j \in 1..Len(b) /\ j <= sent[k].len
    BY <1>1, <1>2, FramingAssumption
  <2>2. QED
    BY <1>1, <2>1
<1>4. b[1].msg = k /\ k # 0
  <2>1. 1 \in 1..Header
    BY FramingAssumption
  <2>2. b[1] = [msg |-> k, pos |-> 1]
    BY <1>3, <2>1
  <2>3. QED
    BY <1>1, <2>2
<1>5. QED
  BY <1>3, <1>4 DEF LengthRead

\* When the length is read, nothing but a header has to be copied.
LEMMA NothingLost ==
  ASSUME NEW b \in Seq(AnyByte), NEW n \in Nat, Len(b) > Header => n <= buf_length,
         buf_length \in Nat
  PROVE  Reallocated(b, n) = b
<1>1. CASE n > buf_length
  <2>1. ~(Len(b) > Header) /\ Len(b) \in Nat /\ Header \in Nat
    BY <1>1, FramingAssumption
  <2>2. \A j \in 1..Len(b) : j <= Header
    BY <2>1
  <2>3. Reallocated(b, n) = [j \in 1..Len(b) |-> b[j]]
    BY <1>1, <2>2 DEF Reallocated
  <2>4. b = [j \in 1..Len(b) |-> b[j]]
    OBVIOUS
  <2>5. QED
    BY <2>3, <2>4
<1>2. CASE ~(n > buf_length)
  BY <1>2 DEF Reallocated
<1>3. QED
  BY <1>1, <1>2

LEMMA FramesUnchanged ==
  ASSUME RunInv, Run' = Run, UNCHANGED <<sent, first, delivered, stale>> PROVE RunInv'
<1>1. SentLengths' = SentLengths /\ Due' = Due
  BY DEF SentLengths, Due
<1>2. QED
  BY <1>1 DEF RunInv

LEMMA CallRun ==
  ASSUME TypeInv, RunInv, Call PROVE RunInv'
<1> DEFINE b == SubSeq(buf, 1, rcv_length)
<1>1. pc = "idle" /\ UNCHANGED <<sent, wire, first, delivered, stale, rcv_length>> /\ Kept = b
  BY DEF Call, Kept
<1>2. b \in Seq(AnyByte) /\ b \in Seq(Byte) /\ Len(b) = rcv_length
  BY <1>1, KeptType
<1>3. CASE rcv_length < Header
  <2>1. pc' = "header" /\ buf' = b
    BY <1>3 DEF Call
  <2>2. Kept' = Kept
    BY <1>1, <2>1 DEF Kept
  <2>3. QED
    BY <1>1, <2>2, FramesUnchanged DEF Run
<1>4. CASE ~(rcv_length < Header)
  <2>1. ReadLength(b)
    BY <1>4 DEF Call
  <2>2. buf' = Reallocated(b, LengthRead(b)) /\ pc' = "body"
    BY <2>1 DEF ReadLength
  <2>3. /\ buf \in Seq(Byte) /\ rcv_length \in 0..Len(buf) /\ rcv_length >= Header
        /\ Len(buf) \in Nat /\ buf_length \in Nat /\ Len(buf) >= Header
    BY <1>4, FramingAssumption DEF TypeInv, TypeOK
  <2>4. LengthRead(b) = LengthRead(buf)
    <3>1. \A j \in 1..rcv_length : b[j] = buf[j]
      BY <2>3, Prefix
    <3>2. \A j \in 1..Header : j \in 1..rcv_length
      BY <2>3, FramingAssumption
    <3> HIDE DEF b
    <3>3. Len(b) >= Header /\ \A j \in 1..Header : b[j] = buf[j]
      BY <1>2, <2>3, <3>1, <3>2
    <3>4. QED
      BY <1>2, <2>3, <3>3, HeaderOnly
  <2> HIDE DEF b
  <2>5. LengthRead(b) \in Nat
    BY <1>2, <2>3, LengthReadType DEF TypeInv
  <2>6. Len(b) > Header => LengthRead(b) <= buf_length
    BY <1>1, <1>2, <2>4 DEF TypeInv, Fits
  <2>7. buf' = b
    BY <1>2, <2>2, <2>3, <2>5, <2>6, NothingLost
  <2>8. Kept' = Kept
    BY <1>1, <2>2, <2>7 DEF Kept
  <2>9. QED
    BY <1>1, <2>8, FramesUnchanged DEF Run
<1>5. QED
  BY <1>3, <1>4

LEMMA JoinedBytes ==
  ASSUME NEW s \in Seq(AnyByte), NEW q \in Seq(AnyByte)
  PROVE  /\ Len(s \o q) = Len(s) + Len(q) /\ Len(s) \in Nat
         /\ \A x \in 1..Len(q) : (s \o q)[Len(s) + x] = q[x]
BY JoinType

LEMMA Associative ==
  ASSUME NEW s \in Seq(AnyByte), NEW q \in Seq(AnyByte), NEW u \in Seq(AnyByte)
  PROVE  (s \o q) \o u = s \o (q \o u)
BY ConcatAssociative

\* A recv: what it took is between what was kept and what is on the wire.
LEMMA TakenBetween ==
  ASSUME TypeInv, NEW n \in Nat, NEW bytes \in Received(n), Took(bytes),
         pc \in {"header", "body"}
  PROVE  /\ bytes \in Seq(AnyByte) /\ Len(bytes) <= n /\ buf \o bytes \in Seq(AnyByte)
         /\ (buf \o bytes) \o wire' = Run
<1>1. buf \in Seq(AnyByte) /\ wire \in Seq(AnyByte)
  BY KeptType
<1>2. /\ bytes \in Seq(AnyByte) /\ wire' \in Seq(AnyByte) /\ Len(bytes) <= n
      /\ bytes \o wire' = wire
  BY <1>1, ReceivedType
<1>3. (buf \o bytes) \o wire' = buf \o (bytes \o wire')
  <2>1. buf \in Seq(AnyByte) /\ bytes \in Seq(AnyByte) /\ wire' \in Seq(AnyByte)
    BY <1>1, <1>2
  <2>2. QED
    BY <2>1, Associative
<1>4. Run = buf \o wire
  BY DEF Run, Kept
<1>5. QED
  BY <1>1, <1>2, <1>3, <1>4, JoinType

LEMMA RecvHeaderRun ==
  ASSUME TypeInv, RunInv, RecvHeader PROVE RunInv'
<1>1. pc = "header" /\ UNCHANGED <<sent, first, delivered, stale>>
  BY DEF RecvHeader
<1>2. PICK bytes \in Received(Header - Len(buf)) :
        /\ Took(bytes)
        /\ IF Len(buf \o bytes) < Header
           THEN buf' = buf \o bytes /\ UNCHANGED <<pc, len, buf_length>>
           ELSE ReadLength(buf \o bytes)
  BY DEF RecvHeader
<1>3. Header - Len(buf) \in Nat /\ Header \in Nat /\ Len(buf) \in Nat /\ buf_length \in Nat /\ buf \in Seq(Byte)
  BY <1>1, FramingAssumption DEF TypeInv, TypeOK
<1> DEFINE b == buf \o bytes
<1>4. /\ bytes \in Seq(AnyByte) /\ Len(bytes) <= Header - Len(buf) /\ b \in Seq(AnyByte)
      /\ b \o wire' = Run
  BY <1>1, <1>2, <1>3, TakenBetween
<1>5. Len(b) = Len(buf) + Len(bytes) /\ Len(bytes) \in Nat
  BY <1>4, KeptType, JoinType
<1>6. buf' = b /\ pc' \in {"header", "body"}
  <2>1. CASE Len(b) < Header
    BY <1>1, <1>2, <2>1
  <2>2. CASE ~(Len(b) < Header)
    <3>1. buf' = Reallocated(b, LengthRead(b)) /\ pc' = "body"
      BY <1>2, <2>2 DEF ReadLength
    <3>2. bytes \in Seq(Byte)
      BY <1>2, <1>3, ReceivedType DEF TypeInv, TypeOK
    <3>3. b \in Seq(Byte)
      BY <1>3, <3>2, JoinType
    <3> HIDE DEF b
    <3>4. Len(b) \in Nat /\ Len(b) >= Header /\ ~(Len(b) > Header)
      BY <1>3, <1>4, <1>5, <2>2
    <3>5. LengthRead(b) \in Nat
      BY <3>3, <3>4, LengthReadType DEF TypeInv
    <3>6. QED
      BY <1>3, <1>4, <3>1, <3>4, <3>5, NothingLost
  <2>3. QED
    BY <2>1, <2>2
<1>7. Run' = Run
  BY <1>4, <1>6 DEF Run, Kept
<1>8. QED
  BY <1>1, <1>7, FramesUnchanged

LEMMA RecvBodyRun ==
  ASSUME TypeInv, RunInv, RecvBody PROVE RunInv'
<1>1. pc = "body" /\ pc' = pc /\ UNCHANGED <<sent, first, delivered, stale>>
  BY DEF RecvBody
<1>2. PICK bytes \in Received(len - Len(buf)) : Took(bytes) /\ buf' = buf \o bytes
  BY DEF RecvBody
<1>3. len - Len(buf) \in Nat
  <2>1. len \in Nat /\ Len(buf) \in Nat /\ Len(buf) < len
    BY <1>1, FramingAssumption DEF TypeInv, TypeOK, RecvBody
  <2>2. QED
    BY <2>1
<1>4. (buf \o bytes) \o wire' = Run
  BY <1>1, <1>2, <1>3, TakenBetween
<1>5. Run' = Run
  BY <1>1, <1>2, <1>4 DEF Run, Kept
<1>6. QED
  BY <1>1, <1>5, FramesUnchanged

\* A call that ends without a message keeps what it has.
LEMMA GiveUpRun ==
  ASSUME TypeInv, RunInv, GiveUp \/ DecryptFails PROVE RunInv'
<1>1. /\ pc \in {"header", "body"} /\ pc' = "idle" /\ rcv_length' = Len(buf) /\ buf' = buf
      /\ UNCHANGED <<sent, wire, first, delivered, stale>>
  BY DEF GiveUp, DecryptFails, RcvLengthAfterError
<1>2. SubSeq(buf, 1, Len(buf)) = buf
  BY KeptType, SubSeqFull
<1>3. Kept' = Kept
  BY <1>1, <1>2 DEF Kept
<1>4. QED
  BY <1>1, <1>3, FramesUnchanged DEF Run

\* What is delivered is the message that is due.
LEMMA DeliverRun ==
  ASSUME TypeInv, RunInv, Deliver PROVE RunInv'
<1>1. /\ pc = "body" /\ pc' = "idle" /\ rcv_length' = 0 /\ wire' = wire
      /\ UNCHANGED <<sent, first, stale, buf>>
      /\ delivered' = Append(delivered, MessageIn(buf))
      /\ Len(buf) >= len
  BY DEF Deliver, RcvLengthAfterSuccess
<1>2. CASE stale
  BY <1>1, <1>2 DEF RunInv
<1>3. CASE ~stale
  <2> DEFINE k == Due
  <2>1. /\ buf \in Seq(AnyByte) /\ wire \in Seq(AnyByte) /\ Run = buf \o wire /\ Len(buf) \in Nat
    BY <1>1, KeptType DEF Run, Kept
  <2>2. /\ Len(buf) >= Header /\ len = LengthRead(buf) /\ buf # <<>>
        /\ Len(buf) <= len \/ Len(buf) = Header
    <3>1. Header <= Len(buf) /\ len = LengthRead(buf)
      BY <1>1 DEF TypeInv, Fits
    <3>2. Len(buf) <= len \/ Len(buf) = Header
      BY <1>1 DEF TypeInv, TypeOK
    <3>3. Len(buf) > 0
      BY <2>1, <3>1, FramingAssumption
    <3>4. QED
      BY <3>1, <3>2, <3>3
  <2>3. /\ Frames(Run, k, SentLengths)
        /\ IF Run = <<>> THEN k = Len(sent) + 1
           ELSE Run[Len(Run)] = [msg |-> Len(sent), pos |-> sent[Len(sent)].len]
        /\ delivered = [i \in 1..Len(delivered) |-> first + i]
    BY <1>3 DEF RunInv
  <2> HIDE DEF k
  <2>4. Frames(buf \o wire, k, SentLengths)
    BY <2>1, <2>3
  <2>5. LengthRead(buf) = sent[k].len
    BY <2>1, <2>2, <2>4, RunLength, Zenon
  <2>6. /\ k \in 1..Len(sent) /\ Len(buf) \in Nat
        /\ \A j \in 1..Len(buf) : j <= sent[k].len => buf[j] = [msg |-> k, pos |-> j]
    <3>1. HeadOf(buf, k)
      BY <2>1, <2>2, <2>4, RunHead, Zenon
    <3>2. QED
      BY <3>1 DEF HeadOf
  <2>7. Len(buf) = sent[k].len /\ SentLengths[k] = sent[k].len
    BY <1>1, <2>2, <2>5, <2>6, SentLengthsType, FramingAssumption
  <2>8. \A j \in 1..Len(buf) : buf[j] = [msg |-> k, pos |-> j]
    BY <2>1, <2>6, <2>7
  <2>9. buf = Bytes(k, sent[k].len)
    <3>1. buf = [j \in 1..Len(buf) |-> buf[j]]
      BY <2>1
    <3>2. QED
      BY <2>7, <2>8, <3>1 DEF Bytes
  <2>10. MessageIn(buf) = k
    <3>1. 1 \in 1..Len(buf)
      BY <2>1, <2>2, FramingAssumption
    <3>2. buf[1] = [msg |-> k, pos |-> 1]
      BY <2>8, <3>1
    <3>3. buf[1].msg = k
      BY <3>2
    <3>4. Len(sent) \in Nat
      BY SentLengthsType
    <3>5. k # 0
      BY <2>6, <3>4
    <3>6. QED
      BY <2>9, <3>3, <3>5 DEF MessageIn
  <2>11. /\ delivered \in Seq(0..Len(sent)) /\ Len(delivered) \in Nat /\ first \in Nat /\ Len(sent) \in Nat
         /\ k = first + Len(delivered) + 1
    <3>1. delivered \in Seq(0..Len(sent)) /\ Len(delivered) \in Nat
      BY DEF TypeInv, TypeOK
    <3>2. first \in Nat /\ Len(sent) \in Nat
      BY DEF TypeInv, TypeOK
    <3>3. k = first + Len(delivered) + 1
      BY DEF k, Due
    <3>4. QED
      BY <3>1, <3>2, <3>3
  <2>12. Len(delivered') = Len(delivered) + 1 /\ Due' = k + 1
    <3>1. k \in 0..Len(sent)
      BY <2>6, <2>11
    <3>2. Len(delivered') = Len(delivered) + 1
      BY <1>1, <2>10, <2>11, <3>1, AppendProperties
    <3>3. QED
      BY <1>1, <2>11, <3>2 DEF Due
  <2>13. Run' = wire
    <3>1. Kept' = SubSeq(buf, 1, 0)
      BY <1>1 DEF Kept
    <3>2. Kept' = <<>>
      BY <2>1, <3>1
    <3>3. QED
      BY <1>1, <2>1, <3>2 DEF Run
  <2>14. Frames(wire, k + 1, SentLengths)
    BY <2>1, <2>2, <2>4, <2>7, SentLengthsType, FramesDrop
  <2>15. SentLengths' = SentLengths
    BY <1>1 DEF SentLengths
  <2>16. IF wire = <<>> THEN k + 1 = Len(sent) + 1
         ELSE wire[Len(wire)] = [msg |-> Len(sent), pos |-> sent[Len(sent)].len]
    <3>1. /\ Len(Run) = Len(buf) + Len(wire) /\ Len(wire) \in Nat /\ Len(buf) > 0
          /\ \A j \in 1..Len(buf) : Run[j] = buf[j]
          /\ \A j \in 1..Len(wire) : Run[Len(buf) + j] = wire[j]
      BY <2>1, <2>2, JoinType
    <3>2. Run # <<>>
      <4>1. Len(Run) > 0
        BY <2>1, <3>1
      <4>2. QED
        BY <4>1
    <3>3. CASE wire = <<>>
      <4>1. Len(Run) \in 1..Len(buf) /\ Len(Run) = Len(buf)
        BY <2>1, <3>1, <3>3
      <4>2. Run[Len(Run)] = [msg |-> k, pos |-> Len(buf)]
        BY <2>8, <3>1, <4>1
      <4>3. [msg |-> k, pos |-> Len(buf)].msg = [msg |-> Len(sent), pos |-> sent[Len(sent)].len].msg
        BY <2>3, <3>2, <4>2
      <4>4. k = Len(sent)
        BY <4>3
      <4>5. QED
        BY <3>3, <4>4
    <3>4. CASE wire # <<>>
      <4>1. Len(wire) \in 1..Len(wire)
        BY <2>1, <3>4
      <4>2. Run[Len(Run)] = wire[Len(wire)]
        BY <3>1, <4>1
      <4>3. QED
        BY <2>3, <3>2, <3>4, <4>2
    <3>5. QED
      BY <3>3, <3>4
  <2>17. delivered' = [i \in 1..Len(delivered') |-> first + i]
    <3>1. k \in 0..Len(sent) /\ k = first + (Len(delivered) + 1)
      BY <2>6, <2>11
    <3>2. /\ delivered' \in Seq(0..Len(sent))
          /\ \A i \in 1..Len(delivered) : delivered'[i] = delivered[i]
          /\ delivered'[Len(delivered) + 1] = k
      BY <1>1, <2>10, <2>11, <3>1, AppendProperties
    <3>3. \A i \in 1..Len(delivered) : delivered[i] = first + i
      BY <2>3
    <3>4. \A i \in 1..(Len(delivered) + 1) : delivered'[i] = first + i
      <4>1. TAKE i \in 1..(Len(delivered) + 1)
      <4>2. i \in 1..Len(delivered) \/ i = Len(delivered) + 1
        BY <2>11
      <4>3. QED
        BY <3>1, <3>2, <3>3, <4>2
    <3>5. delivered' = [i \in 1..Len(delivered') |-> delivered'[i]]
      BY <3>2
    <3>6. QED
      BY <2>12, <3>4, <3>5
  <2>18. QED
    BY <1>1, <2>12, <2>13, <2>14, <2>15, <2>16, <2>17 DEF RunInv
<1>4. QED
  BY <1>2, <1>3

\* A connection that does not begin with something kept begins with nothing.
LEMMA ConnectRun ==
  ASSUME TypeInv, Connect PROVE RunInv'
<1>1. /\ pc = "idle" /\ pc' = "idle" /\ wire' = <<>> /\ first' = Len(sent) /\ delivered' = <<>>
      /\ sent' = sent /\ buf' = buf /\ rcv_length' = rcv_length /\ stale' = (rcv_length > 0)
  BY DEF Connect
<1>2. rcv_length \in Nat /\ Len(sent) \in Nat
  BY SentLengthsType DEF TypeInv, TypeOK
<1>3. CASE rcv_length > 0
  BY <1>1, <1>3 DEF RunInv
<1>4. CASE ~(rcv_length > 0)
  <2>1. rcv_length' = 0
    BY <1>1, <1>2, <1>4
  <2>2. Kept' = <<>>
    BY <1>1, <2>1, KeptType DEF Kept
  <2>3. Run' = <<>>
    BY <1>1, <2>2 DEF Run
  <2>4. Due' = Len(sent') + 1
    BY <1>1, <1>2 DEF Due
  <2>5. Frames(<<>>, Due', SentLengths')
    BY DEF Frames
  <2>6. delivered' = [i \in 1..Len(delivered') |-> first' + i]
    BY <1>1
  <2>7. QED
    BY <2>3, <2>4, <2>5, <2>6 DEF RunInv
<1>5. QED
  BY <1>3, <1>4

\* A new message is put behind the others.
LEMMA PlatformSendsRun ==
  ASSUME TypeInv, RunInv, PlatformSends PROVE RunInv'
<1>1. UNCHANGED <<first, buf, rcv_length, pc, delivered, stale>> /\ Kept' = Kept /\ Due' = Due
  BY DEF PlatformSends, Kept, Due
<1> DEFINE m == Len(sent) + 1
<1>2. PICK n \in Lengths, ok \in {TRUE, ~Undecryptable} :
        sent' = Append(sent, [len |-> n, ok |-> ok]) /\ wire' = wire \o Bytes(m, n)
  BY DEF PlatformSends
<1> DEFINE r == Bytes(m, n)
<1>3. n \in Nat /\ n > 0 /\ ok \in BOOLEAN /\ m \in Nat /\ Len(sent) \in Nat
  <2>1. n \in Nat /\ n > Header /\ Header \in Nat /\ ok \in BOOLEAN
    BY FramingAssumption
  <2>2. Len(sent) \in Nat
    BY SentLengthsType
  <2>3. QED
    BY <2>1, <2>2
<1>4. /\ r \in Seq(AnyByte) /\ Len(r) = n
      /\ \A x \in 1..n : r[x] = [msg |-> m, pos |-> x]
  <2> HIDE DEF m
  <2>1. \A x \in 1..n : [msg |-> m, pos |-> x] \in AnyByte
    BY <1>3 DEF AnyByte
  <2>2. QED
    BY <1>3, <2>1 DEF Bytes
<1>5. CASE stale
  BY <1>1, <1>5 DEF RunInv
<1>6. CASE ~stale
  <2> HIDE DEF r
  <2>1. /\ sent \in Seq([len : Lengths, ok : BOOLEAN])
        /\ [len |-> n, ok |-> ok] \in [len : Lengths, ok : BOOLEAN]
    BY <1>3 DEF TypeInv, TypeOK
  <2>2. /\ Len(sent') = m /\ sent'[m] = [len |-> n, ok |-> ok]
        /\ \A x \in 1..Len(sent) : sent'[x] = sent[x]
        /\ DOMAIN sent' = 1..m /\ DOMAIN sent = 1..Len(sent)
    BY <1>2, <2>1, AppendProperties
  <2>3. /\ \A x \in DOMAIN SentLengths : x \in DOMAIN SentLengths' /\ SentLengths'[x] = SentLengths[x]
        /\ m \in DOMAIN SentLengths' /\ SentLengths'[m] = n /\ DOMAIN SentLengths' = 1..m
    <3>1. sent'[m].len = n
      BY <2>2
    <3>2. SentLengths' = [x \in 1..m |-> sent'[x].len] /\ SentLengths = [x \in 1..Len(sent) |-> sent[x].len]
      BY <2>2 DEF SentLengths
    <3>3. \A x \in 1..Len(sent) : x \in 1..m
      BY <1>3
    <3>4. m \in 1..m
      BY <1>3
    <3> HIDE DEF m
    <3>5. QED
      BY <2>2, <3>1, <3>2, <3>3, <3>4
  <2>4. \A x \in DOMAIN SentLengths' : SentLengths'[x] \in Nat
    <3>1. TAKE x \in DOMAIN SentLengths'
    <3>2. CASE x = m
      BY <1>3, <2>3, <3>2
    <3>3. CASE x # m
      <4>1. x \in 1..Len(sent)
        BY <1>3, <2>3, <3>3
      <4>2. QED
        BY <2>3, <4>1, SentLengthsType
    <3>4. QED
      BY <3>2, <3>3
  <2>5. Run \in Seq(AnyByte) /\ Run' = Run \o r
    <3>1. Kept \in Seq(AnyByte) /\ wire \in Seq(AnyByte) /\ Run \in Seq(AnyByte)
      BY KeptType
    <3>2. wire' = wire \o r
      BY <1>2 DEF r
    <3>3. (Kept \o wire) \o r = Kept \o (wire \o r)
      BY <1>4, <3>1, Associative
    <3>4. QED
      BY <1>1, <3>1, <3>2, <3>3 DEF Run
  <2>6. /\ Frames(Run, Due, SentLengths)
        /\ IF Run = <<>> THEN Due = m
           ELSE Run[Len(Run)] = [msg |-> Len(sent), pos |-> sent[Len(sent)].len]
        /\ delivered = [i \in 1..Len(delivered) |-> first + i]
    BY <1>6 DEF RunInv
  <2>7. Frames(Run, Due, SentLengths')
    BY <2>3, <2>6, FramesLonger
  <2>8. Run # <<>> => /\ m - 1 \in DOMAIN SentLengths'
                      /\ Run[Len(Run)] = [msg |-> m - 1, pos |-> SentLengths'[m - 1]]
    <3>1. SUFFICES ASSUME Run # <<>>
                   PROVE  /\ Len(sent) \in DOMAIN SentLengths'
                          /\ sent[Len(sent)].len = SentLengths'[Len(sent)]
      <4>1. m - 1 = Len(sent)
        BY <1>3
      <4>2. QED
        BY <2>6, <3>1, <4>1
    <3>2. Len(Run) \in DOMAIN Run
      <4>1. Len(Run) \in Nat /\ Len(Run) # 0 /\ DOMAIN Run = 1..Len(Run)
        BY <2>5, <3>1
      <4>2. QED
        BY <4>1
    <3>3. FrameAt(Run, Len(Run), SentLengths)
      BY <2>6, <3>2, FramesByByte
    <3>4. Run[Len(Run)].msg = Len(sent)
      BY <2>6, <3>1
    <3>5. Len(sent) \in DOMAIN SentLengths
      BY <3>3, <3>4 DEF FrameAt
    <3>6. SentLengths[Len(sent)] = sent[Len(sent)].len
      BY <3>5, SentLengthsType
    <3>7. QED
      BY <2>3, <3>5, <3>6
  <2>9. Frames(Run \o r, Due, SentLengths')
    <3> DEFINE size == SentLengths'
    <3>1. \A x \in DOMAIN size : size[x] \in Nat
      BY <2>4
    <3>2. m \in DOMAIN size /\ m \in Nat /\ 0 \in Nat /\ 0 + Len(r) <= size[m]
      BY <1>3, <1>4, <2>3
    <3>3. \A x \in 1..Len(r) : r[x] = [msg |-> m, pos |-> 0 + x]
      BY <1>3, <1>4
    <3>4. Run = <<>> => m = Due /\ 0 = 0
      BY <2>6
    <3>5. Run # <<>> =>
            \/ Run[Len(Run)] = [msg |-> m, pos |-> 0]
            \/ /\ 0 = 0 /\ m - 1 \in DOMAIN size
               /\ Run[Len(Run)] = [msg |-> m - 1, pos |-> size[m - 1]]
      BY <2>8
    <3>6. Frames(Run, Due, size)
      BY <2>7
    <3> HIDE DEF size, m
    <3>7. Frames(Run \o r, Due, size)
      BY <1>4, <2>5, <3>1, <3>2, <3>3, <3>4, <3>5, <3>6, FramesJoin
    <3>8. QED
      BY <3>7 DEF size
  <2>10. Run' # <<>> /\ Run'[Len(Run')] = [msg |-> Len(sent'), pos |-> sent'[Len(sent')].len]
    <3>1. /\ Len(Run') = Len(Run) + n /\ Len(Run) \in Nat
          /\ \A x \in 1..n : Run'[Len(Run) + x] = r[x]
      <4>1. /\ Len(Run \o r) = Len(Run) + Len(r) /\ Len(Run) \in Nat
            /\ \A x \in 1..Len(r) : (Run \o r)[Len(Run) + x] = r[x]
        BY <1>4, <2>5, JoinedBytes, Zenon
      <4>2. QED
        BY <1>4, <2>5, <4>1
    <3>2. n \in 1..n /\ Len(Run') # 0
      BY <1>3, <3>1
    <3>3. Run'[Len(Run')] = [msg |-> m, pos |-> n]
      BY <1>4, <3>1, <3>2
    <3>4. sent'[Len(sent')].len = n
      BY <2>2
    <3>5. Run' # <<>>
      BY <3>2
    <3>6. QED
      BY <2>2, <3>3, <3>4, <3>5
  <2>11. QED
    BY <1>1, <2>5, <2>6, <2>9, <2>10 DEF RunInv
<1>7. QED
  BY <1>5, <1>6

\* Sending leaves what is received alone.
LEMMA SendRun ==
  ASSUME TypeInv, RunInv, Send PROVE RunInv'
<1>1. /\ UNCHANGED <<sent, wire, first, buf, rcv_length, delivered, stale>>
      /\ pc \notin {"header", "body"} /\ pc' \notin {"header", "body"}
  BY DEF Send, SendBegins, SendSome, SendEnds, SendGivesUp, receiving
<1>2. Run' = Run
  BY <1>1 DEF Run, Kept
<1>3. QED
  BY <1>1, <1>2, FramesUnchanged

LEMMA RunKept ==
  ASSUME TypeInv, RunInv, Next PROVE RunInv'
<1>1. CASE Call
  BY <1>1, CallRun
<1>2. CASE Receive
  BY <1>2, RecvHeaderRun, RecvBodyRun, DeliverRun, GiveUpRun DEF Receive
<1>3. CASE GiveUp
  BY <1>3, GiveUpRun
<1>4. CASE Send
  BY <1>4, SendRun
<1>5. CASE Connect
  BY <1>5, ConnectRun
<1>6. CASE PlatformSends
  BY <1>6, PlatformSendsRun
<1>7. QED
  BY <1>1, <1>2, <1>3, <1>4, <1>5, <1>6 DEF Next

LEMMA RunAlways == Spec => []RunInv
<1>1. Init => TypeInv /\ Sending /\ RunInv
  <2>1. Init => TypeInv /\ Sending
    BY InitType
  <2>2. ASSUME Init PROVE RunInv
    <3>1. sent = <<>> /\ wire = <<>> /\ first = 0 /\ delivered = <<>> /\ Kept = <<>>
      BY <2>2 DEF Init, Kept
    <3>2. Run = <<>> /\ Due = Len(sent) + 1
      BY <3>1 DEF Run, Due
    <3>3. Frames(<<>>, Due, SentLengths)
      BY DEF Frames
    <3>4. delivered = [i \in 1..Len(delivered) |-> first + i]
      BY <3>1
    <3>5. QED
      BY <3>2, <3>3, <3>4 DEF RunInv
  <2>3. QED
    BY <2>1, <2>2
<1>2. TypeInv /\ Sending /\ RunInv /\ [Next]_vars => TypeInv' /\ Sending' /\ RunInv'
  <2>1. ASSUME RunInv, UNCHANGED vars PROVE RunInv'
    <3>1. Run' = Run /\ UNCHANGED <<sent, first, delivered, stale>>
      BY <2>1 DEF vars, receiving, Run, Kept
    <3>2. QED
      BY <2>1, <3>1, FramesUnchanged
  <2>2. QED
    BY <2>1, NextType, SendingKept, StutterType, RunKept
<1>3. QED
  BY <1>1, <1>2, PTL DEF Spec

(***************************************************************************)
(* On a connection that began with an empty buffer, what is kept between   *)
(* two calls and what is on the wire are the messages not delivered yet,   *)
(* whatever their lengths and however they are cut.                        *)
(***************************************************************************)
THEOREM Accounted == Spec => []BytesAccountedFor
<1>1. RunInv => BytesAccountedFor
  BY DEF RunInv, BytesAccountedFor, Run, Due
<1>2. QED
  BY <1>1, RunAlways, PTL

(***************************************************************************)
(* A connection that began with an empty buffer delivers the platform's    *)
(* messages, whole, in their order, none twice and none left out, however  *)
(* they were cut up and however often msg_rcv gave up in between           *)
(* (protocol.c:238-331).                                                   *)
(***************************************************************************)
DeliveredInOrder ==
  ~stale => delivered = [i \in 1..Len(delivered) |-> first + i]

THEOREM InOrder == Spec => []DeliveredInOrder
<1>1. RunInv => DeliveredInOrder
  BY DEF RunInv, DeliveredInOrder
<1>2. QED
  BY <1>1, RunAlways, PTL

-----------------------------------------------------------------------------
(***************************************************************************)
(* The refinement.  The messages not delivered yet are the numbers behind  *)
(* those delivered; a message handed on takes the first of them, one sent  *)
(* puts its number behind the last, and no other step changes them.        *)
(***************************************************************************)
Counted(a, n) == [i \in 1..n |-> a + i]

LEMMA CountedSeq ==
  ASSUME NEW a \in Nat, NEW n \in Nat
  PROVE  /\ Counted(a, n) \in Seq(Nat) /\ Len(Counted(a, n)) = n
         /\ \A i \in 1..n : Counted(a, n)[i] = a + i
<1>1. Counted(a, n) \in [1..n -> Nat]
  BY DEF Counted
<1> QED
  BY <1>1, SeqDef, LenProperties DEF Counted

\* Two of the same length that are equal element by element.
LEMMA IsCounted ==
  ASSUME NEW a \in Nat, NEW n \in Nat, NEW q \in Seq(Nat), Len(q) = n,
         \A i \in 1..n : q[i] = a + i
  PROVE  q = Counted(a, n)
<1>1. q = [i \in 1..Len(q) |-> q[i]]
  OBVIOUS
<1> QED
  BY <1>1 DEF Counted

LEMMA CountedMore ==
  ASSUME NEW a \in Nat, NEW n \in Nat
  PROVE  Append(Counted(a, n), a + n + 1) = Counted(a, n + 1)
<1> DEFINE q == Append(Counted(a, n), a + n + 1)
<1>1. /\ q \in Seq(Nat) /\ Len(q) = n + 1 /\ q[n + 1] = a + n + 1
      /\ \A i \in 1..n : q[i] = a + i
  <2> DEFINE c == Counted(a, n)
  <2>1. a + n + 1 \in Nat
    OBVIOUS
  <2>2. c \in Seq(Nat) /\ Len(c) = n /\ \A i \in 1..n : c[i] = a + i
    BY CountedSeq
  <2> HIDE DEF c
  <2>3. /\ Append(c, a + n + 1) \in Seq(Nat) /\ Len(Append(c, a + n + 1)) = n + 1
        /\ Append(c, a + n + 1)[n + 1] = a + n + 1
        /\ \A i \in 1..n : Append(c, a + n + 1)[i] = c[i]
    BY <2>1, <2>2, AppendProperties
  <2> QED
    BY <2>2, <2>3 DEF c
<1>2. \A i \in 1..(n + 1) : i \in 1..n \/ i = n + 1
  OBVIOUS
<1>3. \A i \in 1..(n + 1) : q[i] = a + i
  BY <1>1, <1>2
<1> HIDE DEF q
<1>4. q = Counted(a, n + 1)
  BY <1>1, <1>3, IsCounted
<1> QED
  BY <1>4 DEF q

LEMMA CountedFirst ==
  ASSUME NEW a \in Nat, NEW n \in Nat, n > 0
  PROVE  /\ Counted(a, n) # <<>> /\ Head(Counted(a, n)) = a + 1
         /\ Tail(Counted(a, n)) = Counted(a + 1, n - 1)
<1> DEFINE q == Counted(a, n)
<1>1. q \in Seq(Nat) /\ Len(q) = n /\ \A i \in 1..n : q[i] = a + i
  BY CountedSeq
<1> HIDE DEF q
<1>2. q # <<>>
  BY <1>1
<1>3. /\ Head(q) = q[1] /\ Tail(q) \in Seq(Nat) /\ Len(Tail(q)) = n - 1
      /\ \A i \in 1..(n - 1) : Tail(q)[i] = q[i + 1]
  BY <1>1, <1>2, HeadTailProperties
<1>4. \A i \in 1..(n - 1) : Tail(q)[i] = (a + 1) + i
  BY <1>1, <1>3
<1>a. a + 1 \in Nat /\ n - 1 \in Nat
  OBVIOUS
<1>5. Tail(q) = Counted(a + 1, n - 1)
  BY <1>3, <1>4, <1>a, IsCounted
<1>6. 1 \in 1..n
  OBVIOUS
<1>7. Head(q) = a + 1
  BY <1>1, <1>3, <1>6
<1> QED
  BY <1>2, <1>5, <1>7 DEF q

\* What is delivered on a sound connection was sent on it.
LEMMA DeliveredSent ==
  ASSUME TypeInv, RunInv, ~stale
  PROVE  /\ first \in Nat /\ Len(delivered) \in Nat /\ Len(sent) \in Nat
         /\ first + Len(delivered) <= Len(sent)
<1>1. /\ delivered \in Seq(0..Len(sent)) /\ Len(delivered) \in Nat
      /\ Len(sent) \in Nat /\ first \in 0..Len(sent)
  BY DEF TypeInv, TypeOK
<1>2. \A i \in 1..Len(delivered) : delivered[i] = first + i /\ delivered[i] \in 0..Len(sent)
  BY <1>1 DEF RunInv
<1>3. CASE Len(delivered) = 0
  BY <1>1, <1>3
<1>4. CASE Len(delivered) > 0
  BY <1>1, <1>2, <1>4
<1> QED
  BY <1>1, <1>3, <1>4

LEMMA UndeliveredCounted ==
  Undelivered = Counted(first + Len(delivered), Len(sent) - first - Len(delivered))
BY DEF Undelivered, Counted

\* Steps that neither send, deliver nor reconnect are not seen.
LEMMA LinkStutters ==
  ASSUME UNCHANGED <<sent, first, delivered, stale>>
  PROVE  UNCHANGED Link!vars
BY DEF Link!vars, Undelivered

LEMMA LinkDelivers ==
  ASSUME TypeInv, RunInv, RunInv', Deliver
  PROVE  [Link!Next]_(Link!vars)
<1>1. UNCHANGED <<sent, first, stale>> /\ delivered' = Append(delivered, MessageIn(buf))
  BY DEF Deliver
<1>2. CASE stale
  <2>1. UNCHANGED Link!vars
    BY <1>1, <1>2 DEF Link!vars
  <2> QED
    BY <2>1
<1>3. CASE ~stale
  <2> DEFINE a == first + Len(delivered)
             n == Len(sent) - first - Len(delivered)
  <2>1. first \in Nat /\ Len(delivered) \in Nat /\ Len(sent) \in Nat
    BY <1>3, DeliveredSent
  <2>2. MessageIn(buf) \in 0..Len(sent)
    BY MessageInType, FramingAssumption DEF Deliver, TypeInv, TypeOK, Fits
  <2>3. /\ Len(delivered') = Len(delivered) + 1
        /\ delivered'[Len(delivered) + 1] = MessageIn(buf)
    <3>1. delivered \in Seq(0..Len(sent))
      BY DEF TypeInv, TypeOK
    <3> QED
      BY <1>1, <2>2, <3>1, AppendProperties
  <2>4. MessageIn(buf) = a + 1
    <3>1. delivered' = [i \in 1..Len(delivered') |-> first + i]
      BY <1>1, <1>3 DEF RunInv
    <3>2. Len(delivered) + 1 \in 1..Len(delivered')
      BY <2>1, <2>3
    <3>3. delivered'[Len(delivered) + 1] = first + (Len(delivered) + 1)
      BY <3>1, <3>2
    <3> QED
      BY <2>1, <2>3, <3>3
  <2>5. a \in Nat /\ n \in Nat /\ n > 0
    BY <2>1, <2>2, <2>4
  <2>6. first' + Len(delivered') = a + 1 /\ Len(sent') - first' - Len(delivered') = n - 1
    BY <1>1, <2>1, <2>3
  <2>7. Undelivered = Counted(a, n) /\ Undelivered' = Counted(a + 1, n - 1)
    BY <2>6, UndeliveredCounted DEF Undelivered, Counted
  <2> HIDE DEF a, n
  <2>8. /\ Undelivered # <<>> /\ Head(Undelivered) = MessageIn(buf)
        /\ Tail(Undelivered) = Undelivered'
    BY <2>4, <2>5, <2>7, CountedFirst
  <2>9. Link!Deliver
    BY <1>1, <1>3, <2>8 DEF Link!Deliver
  <2> QED
    BY <2>9 DEF Link!Next
<1> QED
  BY <1>2, <1>3

LEMMA LinkReconnects ==
  ASSUME TypeInv, Connect
  PROVE  Link!Reconnect
<1>1. sent' = sent /\ first' = Len(sent) /\ delivered' = <<>> /\ Len(sent) \in Nat
  BY DEF Connect, TypeInv, TypeOK
<1>2. stale' \in BOOLEAN
  BY DEF Connect
<1>3. Undelivered' = <<>>
  <2>1. Len(delivered') = 0
    BY <1>1
  <2>2. Len(sent') = Len(sent) /\ first' = Len(sent)
    BY <1>1
  <2>3. \A x \in Nat : x - x - 0 = 0
    OBVIOUS
  <2>4. Len(sent') - first' - Len(delivered') = 0
    BY <1>1, <2>1, <2>2, <2>3, Zenon
  <2> QED
    BY <2>4 DEF Undelivered
<1> QED
  BY <1>1, <1>3, <1>2 DEF Link!Reconnect

LEMMA LinkSends ==
  ASSUME TypeInv, RunInv, PlatformSends
  PROVE  Link!Send
<1>1. UNCHANGED <<first, delivered, stale>> /\ Len(sent') = Len(sent) + 1
  <2>1. PICK n \in Lengths, ok \in {TRUE, ~Undecryptable} : sent' = Append(sent, [len |-> n, ok |-> ok])
    BY DEF PlatformSends
  <2>2. [len |-> n, ok |-> ok] \in [len : Lengths, ok : BOOLEAN]
    BY FramingAssumption
  <2>3. sent \in Seq([len : Lengths, ok : BOOLEAN])
    BY DEF TypeInv, TypeOK
  <2> QED
    BY <2>1, <2>3, <2>2, AppendProperties DEF PlatformSends
<1>2. CASE stale
  BY <1>1, <1>2 DEF Link!Send
<1>3. CASE ~stale
  <2> DEFINE a == first + Len(delivered)
             n == Len(sent) - first - Len(delivered)
  <2>1. a \in Nat /\ n \in Nat /\ a + n + 1 = Len(sent) + 1
        /\ Len(sent') - first' - Len(delivered') = n + 1
    BY <1>1, <1>3, DeliveredSent
  <2>2. Undelivered = Counted(a, n) /\ Undelivered' = Counted(a, n + 1)
    BY <1>1, <2>1, UndeliveredCounted DEF Undelivered, Counted
  <2>3. Undelivered' = Append(Undelivered, Len(sent) + 1)
    BY <2>1, <2>2, CountedMore
  <2> QED
    BY <1>1, <1>3, <2>3 DEF Link!Send
<1> QED
  BY <1>2, <1>3

LEMMA LinkStep ==
  ASSUME TypeInv, RunInv, RunInv', [Next]_vars
  PROVE  [Link!Next]_(Link!vars)
<1>1. CASE Call \/ RecvHeader \/ RecvBody \/ DecryptFails \/ GiveUp \/ UNCHANGED vars
  BY <1>1, LinkStutters
  DEF Call, RecvHeader, RecvBody, DecryptFails, GiveUp, vars, receiving
<1>2. CASE Send
  BY <1>2, LinkStutters DEF Send, SendBegins, SendSome, SendEnds, SendGivesUp, receiving
<1>3. CASE Deliver
  BY <1>3, LinkDelivers
<1>4. CASE Connect \/ PlatformSends
  BY <1>4, LinkReconnects, LinkSends DEF Link!Next
<1> QED
  BY <1>1, <1>2, <1>3, <1>4 DEF Next, Receive

(***************************************************************************)
(* Receiving implements MessageLink: for all lengths of messages and       *)
(* buffers, however the bytes are cut and wherever a call gives up, each   *)
(* message that is handed on is the one that is due (protocol.c:230-331).  *)
(***************************************************************************)
THEOREM Refines == Spec => ImplementsLink
<1>1. Init => Link!Init
  BY DEF Init, Link!Init, Undelivered
<1>2. TypeInv /\ RunInv /\ RunInv' /\ [Next]_vars => [Link!Next]_(Link!vars)
  BY LinkStep
<1> QED
  BY <1>1, <1>2, TypeAlways, RunAlways, PTL DEF Spec, ImplementsLink, Link!Spec
=============================================================================
