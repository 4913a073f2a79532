------------------------- MODULE DeviceSessionProofs -------------------------
(***************************************************************************)
(* Proofs about DeviceSession, for both programs, encrypting or not, and   *)
(* for any number of failures, auth codes and key requests.                *)
(***************************************************************************)
EXTENDS DeviceSession, SequenceTheorems, TLAPS

-----------------------------------------------------------------------------
\* What the steps of main and the messages are.

LEMMA AskedAtType ==
  ASSUME Asking PROVE AskedAt(pc) \in Questions
BY DEF Asking, AskedAt, Questions

LEMMA FollowingType ==
  ASSUME pc \in Steps, pc # "loop"
  PROVE  Following(pc) \in Steps
BY DEF Steps, Following

\* Messages of any set S that is closed under sending stay in it.
LEMMA TransmitIn ==
  ASSUME NEW S, up \in Seq(S), NEW type, NEW val, Transmit(type, val),
         [type |-> type, key |-> SendKey, val |-> val] \in S
  PROVE  up' \in Seq(S)
<1> DEFINE m == [type |-> type, key |-> SendKey, val |-> val]
<1>1. m \in S
  OBVIOUS
<1>2. up' = up \/ up' = Append(up, m)
  BY DEF Transmit
<1> HIDE DEF m
<1>3. QED
  BY <1>1, <1>2, AppendProperties

LEMMA AppendIn ==
  ASSUME NEW S, NEW q \in Seq(S), NEW m \in S
  PROVE  Append(q, m) \in Seq(S)
BY AppendProperties

LEMMA TailIn ==
  ASSUME NEW S, NEW q \in Seq(S), q # <<>>
  PROVE  Head(q) \in S /\ Tail(q) \in Seq(S)
BY HeadTailProperties

LEMMA PrefixIn ==
  ASSUME NEW S, NEW q \in Seq(S), NEW n \in 0..Len(q)
  PROVE  SubSeq(q, 1, n) \in Seq(S)
<1>1. \A i \in 1..n : q[i] \in S
  OBVIOUS
<1>2. 1 \in Int /\ n \in Int
  OBVIOUS
<1>3. QED
  BY <1>1, <1>2, SubSeqProperties

-----------------------------------------------------------------------------
(***************************************************************************)
(* Type correctness.  It rests on the platform's key being there whenever  *)
(* messages are encrypted.                                                 *)
(***************************************************************************)
KeyKnown == encrypt_flag => encrypt_ctx # "none"
TypeInv == TypeOK /\ KeyKnown

LEMMA SendKeyType ==
  ASSUME TypeInv PROVE SendKey \in {"plain", "this", "old"}
BY DEF TypeInv, TypeOK, KeyKnown, SendKey

\* The parts of TypeOK that a return of the call at pc changes.
LEMMA ReturnsType ==
  ASSUME TypeOK, Receiving \/ Asking, NEW ok, NEW time \in {"zero", "this", "old"},
         Returns(ok, time), pc = "loop" => ~ok
  PROVE  /\ pc' \in Steps /\ waiting' \in BOOLEAN
         /\ tm' \in {"zero", "this", "old"}
         /\ clock' \in {"unset", "platform", "stale", "zero"}
<1>1. pc' \in Steps
  BY FollowingType DEF TypeOK, Returns, Steps, Optional
<1>2. waiting' \in BOOLEAN /\ tm' \in {"zero", "this", "old"}
  BY DEF Returns
<1>3. clock' \in {"unset", "platform", "stale", "zero"}
  BY DEF TypeOK, Returns
<1>4. QED
  BY <1>1, <1>2, <1>3

LEMMA UpType ==
  ASSUME TypeInv, NEW type \in Questions \cup Orders, NEW val \in Nat,
         Transmit(type, val)
  PROVE  up' \in Seq(UpMessage)
<1>1. [type |-> type, key |-> SendKey, val |-> val] \in UpMessage
  BY SendKeyType DEF UpMessage
<1>2. up \in Seq(UpMessage)
  BY DEF TypeInv, TypeOK
<1>3. QED
  BY <1>1, <1>2, TransmitIn

LEMMA AnswerType ==
  ASSUME TypeOK, NEW m \in UpMessage, NEW ok \in BOOLEAN, NEW val \in 0..MaxCodes,
         Answer(m, ok, val)
  PROVE  down' \in Seq(DownMessage)
<1> DEFINE a == [type |-> m.type, key |-> devkey, ok |-> ok, val |-> val]
<1>1. a \in DownMessage
  BY DEF TypeOK, UpMessage, DownMessage
<1>2. down \in Seq(DownMessage) /\ down' = Append(down, a)
  BY DEF TypeOK, Answer
<1> HIDE DEF a
<1>3. QED
  BY <1>1, <1>2, AppendIn

LEMMA OrderType ==
  ASSUME TypeOK, NEW type \in Orders, Order(type)
  PROVE  down' \in Seq(DownMessage)
<1> DEFINE a == [type |-> type, key |-> devkey, ok |-> TRUE, val |-> 0]
<1>1. a \in DownMessage
  BY SessionAssumption DEF TypeOK, DownMessage
<1>2. down \in Seq(DownMessage) /\ down' = Append(down, a)
  BY DEF TypeOK, Order
<1> HIDE DEF a
<1>3. QED
  BY <1>1, <1>2, AppendIn

LEMMA FaultType ==
  ASSUME TypeOK, Fault PROVE faults' \in 0..MaxFaults
BY SessionAssumption DEF TypeOK, Fault

LEMMA GrantType ==
  ASSUME TypeOK, NEW m \in UpMessage, NEW val \in 0..MaxCodes, NEW before,
         NEW after \in {"verified", "registered", "authenticated"},
         Grant(m, before, after, val)
  PROVE  /\ down' \in Seq(DownMessage)
         /\ trust' \in {"none", "verified", "registered", "authenticated"}
<1>1. 0 \in 0..MaxCodes
  BY SessionAssumption
<1>2. CASE trust = before
  BY <1>2, AnswerType DEF Grant
<1>3. CASE trust # before
  BY <1>1, <1>3, AnswerType DEF Grant, TypeOK
<1>4. QED
  BY <1>2, <1>3

\* Whatever the platform makes of a message, its answer has the right type.
LEMMA HandlesType ==
  ASSUME TypeOK, Head(up) \in UpMessage, PlatformHandles
  PROVE  /\ down' \in Seq(DownMessage)
         /\ trust' \in {"none", "verified", "registered", "authenticated"}
         /\ devkey' \in Nat /\ code' \in 1..MaxCodes
<1> DEFINE m == Head(up)
<1>0. /\ down \in Seq(DownMessage) /\ devkey \in Nat /\ code \in 1..MaxCodes
      /\ trust \in {"none", "verified", "registered", "authenticated"}
      /\ 0 \in 0..MaxCodes /\ code \in 0..MaxCodes /\ m.val \in Nat
      /\ code < MaxCodes => code + 1 \in 1..MaxCodes /\ code + 1 \in 0..MaxCodes
  BY SessionAssumption DEF TypeOK, UpMessage
<1>1. CASE UNCHANGED <<down, platform>>
  BY <1>0, <1>1 DEF platform
<1>2. CASE Grant(m, "none", "verified", 0) /\ UNCHANGED <<devkey, code>>
  BY <1>0, <1>2, GrantType
<1>3. CASE Grant(m, "verified", "registered", code) /\ UNCHANGED <<devkey, code>>
  BY <1>0, <1>3, GrantType
<1>4. CASE Grant(m, "registered", "authenticated", 0) /\ UNCHANGED <<devkey, code>>
  BY <1>0, <1>4, GrantType
<1>5. CASE /\ code < MaxCodes /\ code' = code + 1 /\ UNCHANGED devkey
           /\ Grant(m, "registered", "authenticated", code + 1)
  BY <1>0, <1>5, GrantType
<1>6. CASE /\ Answer(m, FALSE, 0) \/ Answer(m, TRUE, 0)
           /\ UNCHANGED <<trust, devkey, code>>
  BY <1>0, <1>6, AnswerType
<1>7. CASE devkey' = m.val /\ UNCHANGED <<down, trust, code>>
  BY <1>0, <1>7
<1>8. CASE UNCHANGED <<down, trust, devkey, code>>
  BY <1>0, <1>8
<1>9. QED
  BY <1>1, <1>2, <1>3, <1>4, <1>5, <1>6, <1>7, <1>8 DEF PlatformHandles

LEMMA TypeStep == TypeInv /\ [Next]_vars => TypeInv'
<1> SUFFICES ASSUME TypeInv, [Next]_vars PROVE TypeInv'
  OBVIOUS
<1> USE DEF device, keys, memory, auth, platform
<1>1. CASE GetAcc
  <2>1. encrypt_flag' \in BOOLEAN /\ (encrypt_flag' => encrypt_flag)
    BY <1>1 DEF GetAcc, FlagAtStart, TypeInv, TypeOK
  <2>2. pc' \in Steps
    BY <1>1 DEF GetAcc, Following, Steps
  <2>3. faults' \in 0..MaxFaults
    BY <1>1, FaultType DEF GetAcc, TypeInv, TypeOK
  <2>4. QED
    BY <1>1, <2>1, <2>2, <2>3 DEF GetAcc, TypeInv, TypeOK, KeyKnown
<1>2. CASE Connect
  <2>1. pc' \in Steps
    BY <1>2 DEF Connect, Following, Steps
  <2>2. faults' \in 0..MaxFaults
    BY <1>2, FaultType DEF Connect, TypeInv, TypeOK
  <2>3. up' \in Seq(UpMessage) /\ down' \in Seq(DownMessage)
    <3>1. <<>> \in Seq(UpMessage) /\ <<>> \in Seq(DownMessage)
      BY EmptySeq
    <3>2. QED
      BY <1>2, <3>1 DEF Connect, TypeInv, TypeOK
  <2>4. /\ encrypt_ctx' \in {"none", "this", "old"}
        /\ encrypt_ctx # "none" => encrypt_ctx' # "none"
        /\ tm' \in {"zero", "this", "old"}
    BY <1>2 DEF Connect, TypeInv, TypeOK, Aged
  <2>5. decrypt_ctx' \in Nat /\ devkey' \in Nat /\ keyreqs' \in 0..MaxKeyRequests
    BY <1>2, SessionAssumption DEF Connect, TypeInv, TypeOK
  <2>6. QED
    BY <1>2, <2>1, <2>2, <2>3, <2>4, <2>5 DEF Connect, TypeInv, TypeOK, KeyKnown
<1>3. CASE Ask
  <2>1. up' \in Seq(UpMessage)
    <3>1. (IF pc = "auth" THEN auth_code ELSE 0) \in Nat
      BY DEF TypeInv, TypeOK
    <3>2. AskedAt(pc) \in Questions
      BY <1>3, AskedAtType DEF Ask
    <3>3. CASE Transmit(AskedAt(pc), IF pc = "auth" THEN auth_code ELSE 0)
      BY <3>1, <3>2, <3>3, UpType
    <3>4. CASE UNCHANGED up
      BY <3>4 DEF TypeInv, TypeOK
    <3>5. QED
      BY <1>3, <3>3, <3>4 DEF Ask
  <2>2. /\ pc' \in Steps /\ waiting' \in BOOLEAN
        /\ tm' \in {"zero", "this", "old"}
        /\ clock' \in {"unset", "platform", "stale", "zero"}
    <3>1. CASE Returns(FALSE, tm)
      BY <1>3, <3>1, ReturnsType DEF Ask, TypeInv, TypeOK
    <3>2. CASE waiting' = TRUE /\ UNCHANGED <<pc, tm, clock>>
      BY <3>2 DEF TypeInv, TypeOK
    <3>3. QED
      BY <1>3, <3>1, <3>2 DEF Ask
  <2>3. QED
    BY <1>3, <2>1, <2>2 DEF Ask, TypeInv, TypeOK, KeyKnown
<1>4. CASE TakeAnswer
  <2> DEFINE m == Head(down)
  <2>1. m \in DownMessage /\ down' \in Seq(DownMessage)
    BY <1>4, TailIn DEF TakeAnswer, Arrived, TypeInv, TypeOK
  <2>2. auth_code' \in 0..MaxCodes /\ auth_length' \in Nat
    <3>1. m.val \in 0..MaxCodes /\ auth_code \in 0..MaxCodes /\ auth_length \in Nat
      BY <2>1 DEF DownMessage, TypeInv, TypeOK
    <3>2. m.val # 0 => CodeLength[m.val] \in Nat
      BY <3>1, SessionAssumption
    <3>3. auth_code' = CodeAfter(m) /\ auth_length' = LengthAfter(m)
      BY <1>4 DEF TakeAnswer
    <3>4. auth_code' \in 0..MaxCodes
      BY <3>1, <3>3, SessionAssumption DEF CodeAfter
    <3>5. auth_length' \in Nat
      BY <3>1, <3>2, <3>3 DEF LengthAfter, Brings
    <3> QED
      BY <3>4, <3>5
  <2>3. PICK time \in {"zero", "this", "old"} : Returns(Accepted(m), time)
    BY <1>4 DEF TakeAnswer, TypeInv, TypeOK
  <2>4. Asking /\ pc # "loop"
    BY <1>4 DEF TakeAnswer, Waiting, Asking
  <2>5. /\ pc' \in Steps /\ waiting' \in BOOLEAN
        /\ tm' \in {"zero", "this", "old"}
        /\ clock' \in {"unset", "platform", "stale", "zero"}
    BY <2>3, <2>4, ReturnsType DEF TypeInv
  <2>6. encrypt_flag' \in BOOLEAN /\ encrypt_ctx' \in {"none", "this", "old"}
    BY <1>4 DEF TakeAnswer, TypeInv, TypeOK
  <2>7. KeyKnown'
    BY <1>4 DEF TakeAnswer, TypeInv, KeyKnown
  <2>8. QED
    BY <1>4, <2>1, <2>2, <2>5, <2>6, <2>7 DEF TakeAnswer, TypeInv, TypeOK
<1>5. CASE TakeOther
  <2> DEFINE m == Head(down)
  <2>1. m \in DownMessage /\ down' \in Seq(DownMessage)
    BY <1>5, TailIn DEF TakeOther, Arrived, TypeInv, TypeOK
  <2>2. decrypt_ctx' \in Nat /\ up' \in Seq(UpMessage)
    <3>1. CASE m.type = "PLATFORM_REQ_PUBKEY" /\ decrypt_ctx' = decrypt_ctx + 1
               /\ Transmit(m.type, decrypt_ctx + 1)
      <4>1. decrypt_ctx + 1 \in Nat
        BY DEF TypeInv, TypeOK
      <4>2. m.type \in Questions \cup Orders
        BY <3>1 DEF Orders
      <4>3. QED
        BY <3>1, <4>1, <4>2, UpType
    <3>2. CASE m.type = "LIVE_START" /\ Transmit(m.type, 0) /\ UNCHANGED decrypt_ctx
      BY <3>2, UpType DEF Orders, TypeInv, TypeOK
    <3>3. CASE UNCHANGED <<decrypt_ctx, up>>
      BY <3>3 DEF TypeInv, TypeOK
    <3>4. QED
      BY <1>5, <3>1, <3>2, <3>3 DEF TakeOther, Callback
  <2>3. pc' \in Steps
    BY <1>5 DEF TakeOther, Following, Steps, TypeInv, TypeOK
  <2>4. QED
    BY <1>5, <2>1, <2>2, <2>3 DEF TakeOther, TypeInv, TypeOK, KeyKnown
<1>6. CASE CannotDecrypt
  <2>1. down' \in Seq(DownMessage)
    BY <1>6, TailIn DEF CannotDecrypt, TypeInv, TypeOK
  <2>2. /\ pc' \in Steps /\ waiting' \in BOOLEAN
        /\ tm' \in {"zero", "this", "old"}
        /\ clock' \in {"unset", "platform", "stale", "zero"}
    BY <1>6, ReturnsType DEF CannotDecrypt, TypeInv, TypeOK
  <2>3. QED
    BY <1>6, <2>1, <2>2 DEF CannotDecrypt, TypeInv, TypeOK, KeyKnown
<1>7. CASE TimeOut
  <2>1. /\ pc' \in Steps /\ waiting' \in BOOLEAN
        /\ tm' \in {"zero", "this", "old"}
        /\ clock' \in {"unset", "platform", "stale", "zero"}
    BY <1>7, ReturnsType DEF TimeOut, Waiting, Asking, TypeInv, TypeOK
  <2>2. faults' \in 0..MaxFaults
    BY <1>7, FaultType DEF TimeOut, TypeInv, TypeOK
  <2>3. QED
    BY <1>7, <2>1, <2>2 DEF TimeOut, TypeInv, TypeOK, KeyKnown
<1>8. CASE ReceiveTimesOut
  <2>1. pc' \in Steps
    BY <1>8 DEF ReceiveTimesOut, Following, Steps
  <2>2. QED
    BY <1>8, <2>1 DEF ReceiveTimesOut, TypeInv, TypeOK, KeyKnown
<1>9. CASE Keepalive
  <2>1. pc' \in Steps
    BY <1>9 DEF Keepalive, Steps
  <2>2. up' \in Seq(UpMessage)
    <3>1. CASE Transmit("KEEPALIVE", 0)
      BY <3>1, UpType DEF Questions
    <3>2. CASE UNCHANGED up
      BY <3>2 DEF TypeInv, TypeOK
    <3>3. QED
      BY <1>9, <3>1, <3>2 DEF Keepalive
  <2>3. QED
    BY <1>9, <2>1, <2>2 DEF Keepalive, TypeInv, TypeOK, KeyKnown
<1>10. CASE LinkCloses
  <2>1. PICK n \in 0..Len(down) : down' = SubSeq(down, 1, n)
    BY <1>10 DEF LinkCloses
  <2>2. down' \in Seq(DownMessage)
    BY <2>1, PrefixIn DEF TypeInv, TypeOK
  <2>3. faults' \in 0..MaxFaults
    BY <1>10, FaultType DEF LinkCloses, TypeInv
  <2>4. QED
    BY <1>10, <2>2, <2>3 DEF LinkCloses, TypeInv, TypeOK, KeyKnown
<1>11. CASE PlatformHandles
  <2> DEFINE m == Head(up)
  <2>1. m \in UpMessage /\ up' \in Seq(UpMessage)
    BY <1>11, TailIn DEF PlatformHandles, TypeInv, TypeOK
  <2>2. /\ down' \in Seq(DownMessage)
        /\ trust' \in {"none", "verified", "registered", "authenticated"}
        /\ devkey' \in Nat /\ code' \in 1..MaxCodes
    BY <1>11, <2>1, HandlesType DEF TypeInv
  <2>3. QED
    BY <1>11, <2>1, <2>2 DEF PlatformHandles, TypeInv, TypeOK, KeyKnown
<1>12. CASE PlatformRefuses
  <2>1. Head(up) \in UpMessage /\ up' \in Seq(UpMessage)
    BY <1>12, TailIn DEF PlatformRefuses, TypeInv, TypeOK
  <2>2. down' \in Seq(DownMessage)
    <3>1. 0 \in 0..MaxCodes
      BY SessionAssumption
    <3>2. QED
      BY <1>12, <2>1, <3>1, AnswerType DEF PlatformRefuses, TypeInv
  <2>3. faults' \in 0..MaxFaults
    BY <1>12, FaultType DEF PlatformRefuses, TypeInv
  <2>4. QED
    BY <1>12, <2>1, <2>2, <2>3 DEF PlatformRefuses, TypeInv, TypeOK, KeyKnown
<1>13. CASE PlatformAsksKey
  <2>1. down' \in Seq(DownMessage)
    BY <1>13, OrderType DEF PlatformAsksKey, Orders, TypeInv
  <2>2. keyreqs' \in 0..MaxKeyRequests
    BY <1>13, SessionAssumption DEF PlatformAsksKey, TypeInv, TypeOK
  <2>3. QED
    BY <1>13, <2>1, <2>2 DEF PlatformAsksKey, TypeInv, TypeOK, KeyKnown
<1>14. CASE PlatformOrders
  <2>1. down' \in Seq(DownMessage)
    BY <1>14, OrderType DEF PlatformOrders, Orders, TypeInv
  <2>2. QED
    BY <1>14, <2>1 DEF PlatformOrders, TypeInv, TypeOK, KeyKnown
<1>15. CASE UNCHANGED vars
  BY <1>15 DEF vars, TypeInv, TypeOK, KeyKnown
<1>16. CASE SocketFails
  <2>1. /\ pc' \in Steps /\ waiting' \in BOOLEAN
        /\ tm' \in {"zero", "this", "old"}
        /\ clock' \in {"unset", "platform", "stale", "zero"}
    BY <1>16, ReturnsType DEF SocketFails, TypeInv, TypeOK
  <2>2. QED
    BY <1>16, <2>1 DEF SocketFails, TypeInv, TypeOK, KeyKnown
<1>17. QED
  BY <1>1, <1>2, <1>3, <1>4, <1>5, <1>6, <1>7, <1>8, <1>9, <1>10, <1>11,
     <1>12, <1>13, <1>14, <1>15, <1>16 DEF Next, Device, Environment

(***************************************************************************)
(* Every variable keeps its type, and a message is encrypted only under a  *)
(* key that is there.                                                      *)
(***************************************************************************)
THEOREM TypeCorrect == Spec => [](TypeOK /\ KeyKnown)
<1>1. Init => TypeInv
  <2> SUFFICES ASSUME Init PROVE TypeInv
    OBVIOUS
  <2>1. up \in Seq(UpMessage) /\ down \in Seq(DownMessage)
    BY EmptySeq DEF Init
  <2>2. code \in 1..MaxCodes /\ auth_code \in 0..MaxCodes
    BY SessionAssumption DEF Init
  <2>3. faults \in 0..MaxFaults /\ keyreqs \in 0..MaxKeyRequests
    BY SessionAssumption DEF Init
  <2>4. QED
    BY <2>1, <2>2, <2>3 DEF Init, TypeInv, TypeOK, KeyKnown, Steps
<1>2. TypeInv /\ [Next]_vars => TypeInv'
  BY TypeStep
<1>3. QED
  BY <1>1, <1>2, PTL DEF Spec, TypeInv

LEMMA TypeAlways == Spec => []TypeInv
BY TypeCorrect, PTL DEF TypeInv

-----------------------------------------------------------------------------
(***************************************************************************)
(* Nothing goes out under an old key.  The invariant: an encrypting sample *)
(* encrypts under the key of this connection, and when it connects it does *)
(* not encrypt at all.                                                     *)
(***************************************************************************)
FreshMessage == {m \in UpMessage : m.key # "old"}

FreshInv ==
  /\ up \in Seq(FreshMessage)
  /\ pc = "connect" => ~encrypt_flag
  /\ encrypt_flag => encrypt_ctx = "this"

LEMMA SendFresh ==
  ASSUME TypeInv, FreshInv, NEW type, NEW val, Transmit(type, val),
         type \in Questions \cup Orders, val \in Nat
  PROVE  up' \in Seq(FreshMessage)
<1>1. SendKey \in {"plain", "this"}
  BY DEF FreshInv, SendKey
<1>2. [type |-> type, key |-> SendKey, val |-> val] \in UpMessage
  BY <1>1 DEF UpMessage
<1>3. [type |-> type, key |-> SendKey, val |-> val] \in FreshMessage
  BY <1>1, <1>2 DEF FreshMessage
<1>4. up \in Seq(FreshMessage)
  BY DEF FreshInv
<1>5. QED
  BY <1>3, <1>4, TransmitIn

LEMMA ReturnsWhere ==
  ASSUME NEW ok, NEW time, Returns(ok, time), TypeOK, pc = "loop" => ~ok
  PROVE  pc = "get_acc" \/ pc' # "connect"
BY DEF Returns, Following, Optional, TypeOK, Steps

LEMMA FreshStep ==
  ASSUME Program = "sample", TypeInv, FreshInv, [Next]_vars
  PROVE  FreshInv'
<1> USE DEF device, keys, memory, auth, platform
<1>1. CASE GetAcc
  BY <1>1 DEF GetAcc, FlagAtStart, FreshInv
<1>2. CASE Connect
  <2>1. up' \in Seq(FreshMessage)
    <3>1. <<>> \in Seq(FreshMessage)
      BY EmptySeq
    <3>2. QED
      BY <1>2, <3>1 DEF Connect, FreshInv
  <2>2. ~encrypt_flag'
    BY <1>2 DEF Connect, FreshInv
  <2>3. QED
    BY <2>1, <2>2 DEF FreshInv
<1>3. CASE Ask
  <2>1. up' \in Seq(FreshMessage)
    <3>1. CASE Transmit(AskedAt(pc), IF pc = "auth" THEN auth_code ELSE 0)
      <4>1. (IF pc = "auth" THEN auth_code ELSE 0) \in Nat
        BY DEF TypeInv, TypeOK
      <4>2. AskedAt(pc) \in Questions
        BY <1>3, AskedAtType DEF Ask
      <4>3. QED
        BY <3>1, <4>1, <4>2, SendFresh
    <3>2. CASE UNCHANGED up
      BY <3>2 DEF FreshInv
    <3>3. QED
      BY <1>3, <3>1, <3>2 DEF Ask
  <2>2. pc' # "connect"
    BY <1>3, ReturnsWhere DEF Ask, Asking, TypeInv
  <2>3. QED
    BY <1>3, <2>1, <2>2 DEF Ask, FreshInv
<1>4. CASE TakeAnswer
  <2>1. PICK time : Returns(Accepted(Head(down)), time)
    BY <1>4 DEF TakeAnswer
  <2>2. pc' # "connect"
    BY <1>4, <2>1, ReturnsWhere DEF TakeAnswer, Waiting, Asking, TypeInv
  <2>3. encrypt_flag' => encrypt_ctx' = "this"
    BY <1>4 DEF TakeAnswer, FreshInv
  <2>4. QED
    BY <1>4, <2>2, <2>3 DEF TakeAnswer, FreshInv
<1>5. CASE TakeOther
  <2> DEFINE m == Head(down)
  <2>1. m \in DownMessage
    BY <1>5, TailIn DEF TakeOther, Arrived, TypeInv, TypeOK
  <2>2. up' \in Seq(FreshMessage)
    <3>1. CASE m.type = "PLATFORM_REQ_PUBKEY" /\ Transmit(m.type, decrypt_ctx + 1)
      <4>1. decrypt_ctx + 1 \in Nat
        BY DEF TypeInv, TypeOK
      <4>2. m.type \in Questions \cup Orders
        BY <3>1 DEF Orders
      <4>3. QED
        BY <3>1, <4>1, <4>2, SendFresh
    <3>2. CASE m.type = "LIVE_START" /\ Transmit(m.type, 0)
      BY <3>2, SendFresh DEF Orders
    <3>3. CASE UNCHANGED up
      BY <3>3 DEF FreshInv
    <3>4. QED
      BY <1>5, <3>1, <3>2, <3>3 DEF TakeOther, Callback
  <2>3. pc' # "connect"
    BY <1>5 DEF TakeOther, Following, Receiving, Waiting, Asking
  <2>4. QED
    BY <1>5, <2>2, <2>3 DEF TakeOther, FreshInv
<1>6. CASE CannotDecrypt
  <2>1. pc' # "connect"
    BY <1>6, ReturnsWhere DEF CannotDecrypt, Receiving, Waiting, Asking, TypeInv
  <2>2. QED
    BY <1>6, <2>1 DEF CannotDecrypt, FreshInv
<1>7. CASE TimeOut
  <2>1. pc' # "connect"
    BY <1>7, ReturnsWhere DEF TimeOut, Waiting, Asking, TypeInv
  <2>2. QED
    BY <1>7, <2>1 DEF TimeOut, FreshInv
<1>8. CASE ReceiveTimesOut
  BY <1>8 DEF ReceiveTimesOut, Following, FreshInv
<1>9. CASE Keepalive
  <2>1. up' \in Seq(FreshMessage)
    <3>0. 0 \in Nat /\ "KEEPALIVE" \in Questions \cup Orders
      BY DEF Questions
    <3>1. CASE Transmit("KEEPALIVE", 0)
      BY <3>0, <3>1, SendFresh
    <3>2. CASE UNCHANGED up
      BY <3>2 DEF FreshInv
    <3>3. QED
      BY <1>9, <3>1, <3>2 DEF Keepalive
  <2>2. QED
    BY <1>9, <2>1 DEF Keepalive, FreshInv
<1>10. CASE LinkCloses
  <2>1. <<>> \in Seq(FreshMessage)
    BY EmptySeq
  <2>2. QED
    BY <1>10, <2>1 DEF LinkCloses, FreshInv
<1>11. CASE PlatformHandles \/ PlatformRefuses
  <2>1. up \in Seq(FreshMessage) /\ up # <<>>
    BY <1>11 DEF PlatformHandles, PlatformRefuses, FreshInv
  <2>2. Tail(up) \in Seq(FreshMessage)
    BY <2>1, TailIn
  <2>3. UNCHANGED device /\ up' = Tail(up)
    BY <1>11 DEF PlatformHandles, PlatformRefuses
  <2>4. QED
    BY <2>2, <2>3 DEF FreshInv
<1>12. CASE PlatformAsksKey \/ PlatformOrders
  BY <1>12 DEF PlatformAsksKey, PlatformOrders, FreshInv
<1>13. CASE UNCHANGED vars
  BY <1>13 DEF vars, FreshInv
<1>14. CASE SocketFails
  <2>1. pc' # "connect"
    BY <1>14, ReturnsWhere DEF SocketFails, Receiving, Waiting, Asking, TypeInv
  <2>2. QED
    BY <1>14, <2>1 DEF SocketFails, FreshInv
<1>15. QED
  BY <1>1, <1>2, <1>3, <1>4, <1>5, <1>6, <1>7, <1>8, <1>9, <1>10, <1>11,
     <1>12, <1>13, <1>14 DEF Next, Device, Environment

(***************************************************************************)
(* The platform can read whatever the sample sends, whatever failed before.*)
(* (Of the GM813x, built for encryption, this is not true.)                *)
(***************************************************************************)
THEOREM AlwaysReadable == Program = "sample" => (Spec => []Readable)
<1> SUFFICES ASSUME Program = "sample" PROVE Spec => []Readable
  OBVIOUS
<1>1. Init => FreshInv
  BY EmptySeq DEF Init, FreshInv
<1>2. TypeInv /\ FreshInv /\ [Next]_vars => FreshInv'
  BY FreshStep
<1>3. FreshInv => Readable
  BY DEF FreshInv, FreshMessage, Readable
<1>4. QED
  BY <1>1, <1>2, <1>3, TypeAlways, PTL DEF Spec

-----------------------------------------------------------------------------
(***************************************************************************)
(* Secrets go out only encrypted.  The invariant: past the key exchange,   *)
(* an encrypting program encrypts.                                         *)
(***************************************************************************)
SecretMessage ==
  {m \in UpMessage : m.type \in {"DEVICE_REGISTER", "AUTH"} => m.key # "plain"}

SecretInv ==
  /\ up \in Seq(SecretMessage)
  /\ pc \in {"receive", "register", "auth", "channel", "systime", "loop"} => encrypt_flag

LEMMA SendSecret ==
  ASSUME TypeInv, SecretInv, NEW type, NEW val, Transmit(type, val),
         type \in Questions \cup Orders, val \in Nat,
         type \in {"DEVICE_REGISTER", "AUTH"} => encrypt_flag
  PROVE  up' \in Seq(SecretMessage)
<1>1. SendKey \in {"plain", "this", "old"} /\ (encrypt_flag => SendKey # "plain")
  BY SendKeyType DEF SendKey, TypeInv, TypeOK, KeyKnown
<1>2. [type |-> type, key |-> SendKey, val |-> val] \in UpMessage
  BY <1>1 DEF UpMessage
<1>3. [type |-> type, key |-> SendKey, val |-> val] \in SecretMessage
  BY <1>1, <1>2 DEF SecretMessage
<1>4. up \in Seq(SecretMessage)
  BY DEF SecretInv
<1>5. QED
  BY <1>3, <1>4, TransmitIn

\* Past the key exchange one only comes with a call that succeeds.
Keyed(p) == p \in {"receive", "register", "auth", "channel", "systime", "loop"}

LEMMA ReturnsKeyed ==
  ASSUME Encrypting, TypeOK, NEW ok, NEW time, Returns(ok, time), Keyed(pc'),
         pc \notin {"get_acc", "connect"}, pc = "loop" => ~ok
  PROVE  Keyed(pc) \/ (pc = "pubkey" /\ ok)
BY DEF Returns, Following, Optional, Keyed, TypeOK, Steps

LEMMA SecretStep ==
  ASSUME Encrypting, TypeInv, SecretInv, [Next]_vars
  PROVE  SecretInv'
<1> USE DEF device, keys, memory, auth, platform
<1>0. Keyed(pc) => encrypt_flag
  BY DEF SecretInv, Keyed
<1> SUFFICES up' \in Seq(SecretMessage) /\ (Keyed(pc') => encrypt_flag')
  BY DEF SecretInv, Keyed
<1>1. CASE GetAcc
  BY <1>1 DEF GetAcc, Following, SecretInv, Keyed
<1>2. CASE Connect
  <2>1. <<>> \in Seq(SecretMessage)
    BY EmptySeq
  <2>2. QED
    BY <1>2, <2>1 DEF Connect, Following, SecretInv, Keyed
<1>3. CASE Ask
  <2>1. up' \in Seq(SecretMessage)
    <3>1. CASE Transmit(AskedAt(pc), IF pc = "auth" THEN auth_code ELSE 0)
      <4>1. (IF pc = "auth" THEN auth_code ELSE 0) \in Nat
        BY DEF TypeInv, TypeOK
      <4>2. AskedAt(pc) \in Questions
        BY <1>3, AskedAtType DEF Ask
      <4>3. AskedAt(pc) \in {"DEVICE_REGISTER", "AUTH"} => Keyed(pc)
        BY <1>3 DEF Ask, Asking, AskedAt, Keyed
      <4>4. QED
        BY <1>0, <3>1, <4>1, <4>2, <4>3, SendSecret
    <3>2. CASE UNCHANGED up
      BY <3>2 DEF SecretInv
    <3>3. QED
      BY <1>3, <3>1, <3>2 DEF Ask
  <2>2. Keyed(pc') => Keyed(pc)
    BY <1>3, ReturnsKeyed DEF Ask, Asking, TypeInv
  <2>3. QED
    BY <1>0, <1>3, <2>1, <2>2 DEF Ask
<1>4. CASE TakeAnswer
  <2>1. PICK time : Returns(Accepted(Head(down)), time)
    BY <1>4 DEF TakeAnswer
  <2>2. Keyed(pc') => Keyed(pc) \/ pc = "pubkey"
    BY <1>4, <2>1, ReturnsKeyed DEF TakeAnswer, Waiting, Asking, TypeInv
  <2>3. Keyed(pc') => encrypt_flag'
    BY <1>0, <1>4, <2>2 DEF TakeAnswer
  <2>4. QED
    BY <1>4, <2>3 DEF TakeAnswer, SecretInv
<1>5. CASE TakeOther
  <2> DEFINE m == Head(down)
  <2>1. up' \in Seq(SecretMessage)
    <3>1. CASE m.type = "PLATFORM_REQ_PUBKEY" /\ Transmit(m.type, decrypt_ctx + 1)
      <4>1. decrypt_ctx + 1 \in Nat
        BY DEF TypeInv, TypeOK
      <4>2. m.type \in Questions \cup Orders /\ m.type \notin {"DEVICE_REGISTER", "AUTH"}
        BY <3>1 DEF Orders
      <4>3. QED
        BY <3>1, <4>1, <4>2, SendSecret
    <3>2. CASE m.type = "LIVE_START" /\ Transmit(m.type, 0)
      BY <3>2, SendSecret DEF Orders
    <3>3. CASE UNCHANGED up
      BY <3>3 DEF SecretInv
    <3>4. QED
      BY <1>5, <3>1, <3>2, <3>3 DEF TakeOther, Callback
  <2>2. Keyed(pc') => Keyed(pc)
    BY <1>5 DEF TakeOther, Following, Keyed
  <2>3. QED
    BY <1>0, <1>5, <2>1, <2>2 DEF TakeOther
<1>6. CASE CannotDecrypt
  <2>1. Keyed(pc') => Keyed(pc)
    BY <1>6, ReturnsKeyed DEF CannotDecrypt, Receiving, Waiting, Asking, TypeInv
  <2>2. QED
    BY <1>0, <1>6, <2>1 DEF CannotDecrypt, SecretInv
<1>7. CASE TimeOut
  <2>1. Keyed(pc') => Keyed(pc)
    BY <1>7, ReturnsKeyed DEF TimeOut, Waiting, Asking, TypeInv
  <2>2. QED
    BY <1>0, <1>7, <2>1 DEF TimeOut, SecretInv
<1>8. CASE ReceiveTimesOut
  BY <1>0, <1>8 DEF ReceiveTimesOut, Following, SecretInv, Keyed
<1>9. CASE Keepalive
  <2>1. up' \in Seq(SecretMessage)
    <3>0. 0 \in Nat /\ "KEEPALIVE" \in Questions \cup Orders
      BY DEF Questions
    <3>1. CASE Transmit("KEEPALIVE", 0)
      BY <3>0, <3>1, SendSecret
    <3>2. CASE UNCHANGED up
      BY <3>2 DEF SecretInv
    <3>3. QED
      BY <1>9, <3>1, <3>2 DEF Keepalive
  <2>2. QED
    BY <1>0, <1>9, <2>1 DEF Keepalive, Keyed
<1>10. CASE LinkCloses
  <2>1. <<>> \in Seq(SecretMessage)
    BY EmptySeq
  <2>2. QED
    BY <1>0, <1>10, <2>1 DEF LinkCloses, SecretInv
<1>11. CASE PlatformHandles \/ PlatformRefuses
  <2>1. Tail(up) \in Seq(SecretMessage)
    BY <1>11, TailIn DEF PlatformHandles, PlatformRefuses, SecretInv
  <2>2. QED
    BY <1>0, <1>11, <2>1 DEF PlatformHandles, PlatformRefuses, SecretInv
<1>12. CASE PlatformAsksKey \/ PlatformOrders
  BY <1>0, <1>12 DEF PlatformAsksKey, PlatformOrders, SecretInv
<1>13. CASE UNCHANGED vars
  BY <1>0, <1>13 DEF vars, SecretInv
<1>14. CASE SocketFails
  <2>1. Keyed(pc') => Keyed(pc)
    BY <1>14, ReturnsKeyed DEF SocketFails, Receiving, Waiting, Asking, TypeInv
  <2>2. QED
    BY <1>0, <1>14, <2>1 DEF SocketFails, SecretInv
<1>15. QED
  BY <1>1, <1>2, <1>3, <1>4, <1>5, <1>6, <1>7, <1>8, <1>9, <1>10, <1>11,
     <1>12, <1>13, <1>14 DEF Next, Device, Environment

(***************************************************************************)
(* Either program, built for encryption, never sends its registration code *)
(* or its auth code in the clear, whatever failed before.                  *)
(***************************************************************************)
THEOREM SecretsKept == Spec => []SecretsEncrypted
<1>1. CASE Encrypting
  <2>1. Init => SecretInv
    BY EmptySeq DEF Init, SecretInv
  <2>2. TypeInv /\ SecretInv /\ [Next]_vars => SecretInv'
    BY <1>1, SecretStep
  <2>3. SecretInv => SecretsEncrypted
    BY DEF SecretInv, SecretMessage, SecretsEncrypted
  <2>4. QED
    BY <2>1, <2>2, <2>3, TypeAlways, PTL DEF Spec
<1>2. CASE ~Encrypting
  <2>1. SecretsEncrypted
    BY <1>2 DEF SecretsEncrypted
  <2>2. QED
    BY <2>1, PTL
<1>3. QED
  BY <1>1, <1>2

-----------------------------------------------------------------------------
(***************************************************************************)
(* Orders are served only by a device that is admitted.  The invariant: a  *)
(* platform that has not admitted the connection has sent no answer that   *)
(* says so, and the device is not yet past its authentication.             *)
(***************************************************************************)
NotAdmitting == {m \in DownMessage : m.type = "AUTH" => ~m.ok}
Served(p) == p \in {"channel", "systime", "loop"}

AdmitInv ==
  trust # "authenticated" => down \in Seq(NotAdmitting) /\ ~Served(pc)

LEMMA AnswerIn ==
  ASSUME TypeInv, down \in Seq(NotAdmitting), NEW m \in UpMessage,
         NEW ok \in BOOLEAN, NEW val \in 0..MaxCodes, Answer(m, ok, val),
         m.type = "AUTH" => ~ok
  PROVE  down' \in Seq(NotAdmitting)
<1> DEFINE a == [type |-> m.type, key |-> devkey, ok |-> ok, val |-> val]
<1>1. a \in DownMessage
  BY DEF TypeInv, TypeOK, UpMessage, DownMessage
<1>2. a \in NotAdmitting
  BY <1>1 DEF NotAdmitting
<1>3. down' = Append(down, a)
  BY DEF Answer
<1> HIDE DEF a
<1>4. QED
  BY <1>2, <1>3, AppendIn

LEMMA OrderIn ==
  ASSUME TypeInv, down \in Seq(NotAdmitting), NEW type \in Orders, Order(type)
  PROVE  down' \in Seq(NotAdmitting)
<1> DEFINE a == [type |-> type, key |-> devkey, ok |-> TRUE, val |-> 0]
<1>1. a \in DownMessage
  BY SessionAssumption DEF TypeInv, TypeOK, DownMessage
<1>2. a \in NotAdmitting
  BY <1>1 DEF NotAdmitting, Orders
<1>3. down' = Append(down, a)
  BY DEF Order
<1> HIDE DEF a
<1>4. QED
  BY <1>2, <1>3, AppendIn

\* One gets past the authentication only by a call that succeeds.
LEMMA ReturnsServed ==
  ASSUME TypeOK, NEW ok, NEW time, Returns(ok, time), Served(pc'),
         pc \notin {"get_acc", "connect"}, pc = "loop" => ~ok
  PROVE  Served(pc) \/ (pc = "auth" /\ ok)
BY DEF Returns, Following, Optional, Served, TypeOK, Steps

\* A platform that does not admit the connection in this step sends nothing
\* that says so.
LEMMA HandlesAdmit ==
  ASSUME TypeInv, AdmitInv, PlatformHandles, trust' # "authenticated"
  PROVE  down' \in Seq(NotAdmitting)
<1> DEFINE m == Head(up)
<1>0. m \in UpMessage
  BY TailIn DEF PlatformHandles, TypeInv, TypeOK
<1>1. 0 \in 0..MaxCodes /\ code \in 0..MaxCodes /\ (code < MaxCodes => code + 1 \in 0..MaxCodes)
  BY SessionAssumption DEF TypeInv, TypeOK
<1>2. CASE trust = "authenticated"
  BY <1>2 DEF PlatformHandles, Grant, platform
<1>3. CASE trust # "authenticated"
  <2>1. down \in Seq(NotAdmitting)
    BY <1>3 DEF AdmitInv
  <2>2. CASE UNCHANGED down
    BY <2>1, <2>2
  <2>3. CASE m.type # "AUTH" /\ \E ok \in BOOLEAN, val \in 0..MaxCodes : Answer(m, ok, val)
    BY <1>0, <2>1, <2>3, AnswerIn
  <2>4. CASE Answer(m, FALSE, 0)
    BY <1>0, <1>1, <2>1, <2>4, AnswerIn
  <2>5. UNCHANGED down
        \/ (m.type # "AUTH" /\ \E ok \in BOOLEAN, val \in 0..MaxCodes : Answer(m, ok, val))
        \/ Answer(m, FALSE, 0)
    BY <1>1 DEF PlatformHandles, Grant, platform
  <2>6. QED
    BY <2>2, <2>3, <2>4, <2>5
<1>4. QED
  BY <1>2, <1>3

LEMMA AdmitStep ==
  ASSUME TypeInv, AdmitInv, [Next]_vars
  PROVE  AdmitInv'
<1> SUFFICES ASSUME trust' # "authenticated"
             PROVE  down' \in Seq(NotAdmitting) /\ ~Served(pc')
  BY DEF AdmitInv
<1> USE DEF device, keys, memory, auth, platform
<1>0. trust # "authenticated" => down \in Seq(NotAdmitting) /\ ~Served(pc)
  BY DEF AdmitInv
<1>1. CASE GetAcc
  BY <1>0, <1>1 DEF GetAcc, Following, Served
<1>2. CASE Connect
  <2>1. <<>> \in Seq(NotAdmitting)
    BY EmptySeq
  <2>2. ~Served(pc')
    BY <1>2 DEF Connect, Following, Served
  <2>3. QED
    BY <1>0, <1>2, <2>1, <2>2 DEF Connect
<1>3. CASE Ask
  <2>1. UNCHANGED <<trust, down>> /\ (Served(pc') => Served(pc))
    BY <1>3, ReturnsServed DEF Ask, Asking, TypeInv
  <2>2. QED
    BY <1>0, <2>1
<1>4. CASE TakeAnswer
  <2>1. /\ UNCHANGED trust /\ down' = Tail(down) /\ down # <<>>
        /\ Head(down).type = AskedAt(pc) /\ Asking
    BY <1>4 DEF TakeAnswer, Arrived, Waiting
  <2>2. Head(down) \in NotAdmitting /\ down' \in Seq(NotAdmitting)
    BY <1>0, <2>1, TailIn
  <2>3. PICK time : Returns(Accepted(Head(down)), time)
    BY <1>4 DEF TakeAnswer
  <2>4. pc = "auth" => ~Accepted(Head(down))
    BY <2>1, <2>2 DEF NotAdmitting, Accepted, AskedAt
  <2>5. Served(pc') => Served(pc)
    BY <2>1, <2>3, <2>4, ReturnsServed DEF Asking, TypeInv
  <2>6. QED
    BY <1>0, <2>1, <2>2, <2>5
<1>5. CASE TakeOther
  <2>1. UNCHANGED trust /\ down' = Tail(down) /\ down # <<>>
    BY <1>5 DEF TakeOther, Arrived
  <2>2. down' \in Seq(NotAdmitting)
    BY <1>0, <2>1, TailIn
  <2>3. Served(pc') => Served(pc)
    BY <1>5 DEF TakeOther, Following, Served
  <2>4. QED
    BY <1>0, <2>1, <2>2, <2>3
<1>6. CASE CannotDecrypt
  <2>1. /\ UNCHANGED trust
        /\ down' = down \/ (down # <<>> /\ down' = Tail(down))
    BY <1>6 DEF CannotDecrypt
  <2>2. down' \in Seq(NotAdmitting)
    BY <1>0, <2>1, TailIn
  <2>3. Served(pc') => Served(pc)
    BY <1>6, ReturnsServed DEF CannotDecrypt, Receiving, Waiting, Asking, TypeInv
  <2>4. QED
    BY <1>0, <2>1, <2>2, <2>3
<1>7. CASE TimeOut
  <2>1. UNCHANGED <<trust, down>> /\ (Served(pc') => Served(pc))
    BY <1>7, ReturnsServed DEF TimeOut, Waiting, Asking, TypeInv
  <2>2. QED
    BY <1>0, <2>1
<1>8. CASE ReceiveTimesOut
  BY <1>0, <1>8 DEF ReceiveTimesOut, Following, Served
<1>9. CASE Keepalive
  BY <1>0, <1>9 DEF Keepalive, Served
<1>10. CASE LinkCloses
  <2>1. PICK n \in 0..Len(down) : down' = SubSeq(down, 1, n)
    BY <1>10 DEF LinkCloses
  <2>2. UNCHANGED <<trust, pc>>
    BY <1>10 DEF LinkCloses
  <2>3. QED
    BY <1>0, <2>1, <2>2, PrefixIn
<1>11. CASE PlatformHandles
  <2>1. trust = "authenticated" => UNCHANGED trust
    BY <1>11 DEF PlatformHandles, Grant
  <2>2. UNCHANGED pc
    BY <1>11 DEF PlatformHandles
  <2>3. QED
    BY <1>0, <1>11, <2>1, <2>2, HandlesAdmit
<1>12. CASE PlatformRefuses
  <2>1. Head(up) \in UpMessage /\ 0 \in 0..MaxCodes
    BY <1>12, TailIn, SessionAssumption DEF PlatformRefuses, TypeInv, TypeOK
  <2>2. UNCHANGED <<trust, pc>> /\ Answer(Head(up), FALSE, 0)
    BY <1>12 DEF PlatformRefuses
  <2>3. QED
    BY <1>0, <2>1, <2>2, AnswerIn
<1>13. CASE PlatformAsksKey \/ PlatformOrders
  <2>1. PICK type \in Orders : Order(type)
    BY <1>13 DEF PlatformAsksKey, PlatformOrders, Orders
  <2>2. UNCHANGED <<trust, pc>>
    BY <1>13 DEF PlatformAsksKey, PlatformOrders
  <2>3. QED
    BY <1>0, <2>1, <2>2, OrderIn
<1>14. CASE UNCHANGED vars
  BY <1>0, <1>14 DEF vars
<1>15. CASE SocketFails
  <2>1. UNCHANGED <<trust, down>> /\ (Served(pc') => Served(pc))
    BY <1>15, ReturnsServed DEF SocketFails, Receiving, Waiting, Asking, TypeInv
  <2>2. QED
    BY <1>0, <2>1
<1>16. QED
  BY <1>1, <1>2, <1>3, <1>4, <1>5, <1>6, <1>7, <1>8, <1>9, <1>10, <1>11,
     <1>12, <1>13, <1>14, <1>15 DEF Next, Device, Environment

(***************************************************************************)
(* A device past its authentication has been admitted by the platform on   *)
(* the connection it has, whatever was refused or failed before.           *)
(***************************************************************************)
THEOREM Admitted == Spec => []ServesAuthenticated
<1>1. Init => AdmitInv
  BY EmptySeq DEF Init, AdmitInv, Served
<1>2. TypeInv /\ AdmitInv /\ [Next]_vars => AdmitInv'
  BY AdmitStep
<1>3. AdmitInv => ServesAuthenticated
  BY DEF AdmitInv, Served, ServesAuthenticated
<1>4. QED
  BY <1>1, <1>2, <1>3, TypeAlways, PTL DEF Spec

-----------------------------------------------------------------------------
(***************************************************************************)
(* The auth code.  Only an AUTH changes it, and up to its own the device   *)
(* has none on its way on this connection: what the registration answers   *)
(* holds when the device authenticates.  The string it then has is that    *)
(* code, unless the string was longer before, and it has only ever been as *)
(* long as a code the platform has issued.                                 *)
(***************************************************************************)
Issued(c) == {m \in DownMessage : m.val \in 0..c}
Copied(c) == auth_length = 0 \/ \E d \in 1..c : auth_length = CodeLength[d]
LengthInv == down \in Seq(Issued(code)) /\ Copied(code)

Right(val, c) == val = c \/ (val = 0 /\ \E d \in 1..c : CodeLength[d] > CodeLength[c])

NoAuth == {m \in UpMessage : m.type # "AUTH"}
Current(c) == {m \in UpMessage : m.type = "AUTH" => Right(m.val, c)}
Registered(c) == {m \in DownMessage : m.type = "DEVICE_REGISTER" /\ m.ok => m.val = c}

Before(p, w) == p \in {"verify", "pubkey", "receive", "register"} \/ (p = "auth" /\ ~w)

OneAuth(l) ==
  \A i, j \in 1..Len(l) : l[i].type = "AUTH" /\ l[j].type = "AUTH" => i = j

CodeInv ==
  /\ up \in Seq(Current(code)) /\ OneAuth(up)
  /\ Before(pc, waiting) => up \in Seq(NoAuth) /\ down \in Seq(Registered(code))
  /\ pc = "auth" /\ ~waiting => Right(auth_code, code)

\* A second AUTH never joins the first.
LEMMA OneAuthAppend ==
  ASSUME NEW l \in Seq(UpMessage), NEW m \in UpMessage, OneAuth(l),
         m.type # "AUTH" \/ l \in Seq(NoAuth)
  PROVE  OneAuth(Append(l, m))
<1>1. /\ Len(l) \in Nat /\ Len(Append(l, m)) = Len(l) + 1
      /\ \A i \in 1..Len(l) : Append(l, m)[i] = l[i]
      /\ Append(l, m)[Len(l) + 1] = m
  OBVIOUS
<1>2. CASE m.type # "AUTH"
  BY <1>1, <1>2 DEF OneAuth
<1>3. CASE l \in Seq(NoAuth)
  <2>1. \A i \in 1..Len(l) : l[i].type # "AUTH"
    BY <1>3 DEF NoAuth
  <2> QED
    BY <1>1, <2>1 DEF OneAuth
<1> QED
  BY <1>2, <1>3

\* Behind an AUTH there is none.
LEMMA OneAuthTail ==
  ASSUME NEW l \in Seq(UpMessage), l # <<>>, OneAuth(l)
  PROVE  /\ OneAuth(Tail(l))
         /\ Head(l).type = "AUTH" => Tail(l) \in Seq(NoAuth)
<1>1. /\ Len(l) \in Nat \ {0} /\ Len(Tail(l)) = Len(l) - 1 /\ Head(l) = l[1]
      /\ \A i \in 1..(Len(l) - 1) : Tail(l)[i] = l[i + 1]
      /\ Tail(l) \in Seq(UpMessage)
  OBVIOUS
<1>2. OneAuth(Tail(l))
  BY <1>1 DEF OneAuth
<1>3. ASSUME Head(l).type = "AUTH" PROVE Tail(l) \in Seq(NoAuth)
  <2>1. \A i \in 1..(Len(l) - 1) : Tail(l)[i].type # "AUTH"
    BY <1>1, <1>3 DEF OneAuth
  <2>2. \A i \in 1..Len(Tail(l)) : Tail(l)[i] \in NoAuth
    BY <1>1, <2>1 DEF NoAuth
  <2> DEFINE t == Tail(l)
  <2>3. t \in Seq(UpMessage) /\ \A i \in 1..Len(t) : t[i] \in NoAuth
    BY <1>1, <2>2
  <2> HIDE DEF t
  <2>4. t \in Seq(NoAuth)
    BY <2>3
  <2> QED
    BY <2>4 DEF t
<1> QED
  BY <1>2, <1>3

\* Sending something else keeps all this.
LEMMA SendOther ==
  ASSUME TypeInv, CodeInv, NEW type \in (Questions \cup Orders) \ {"AUTH"}, NEW val \in Nat,
         Transmit(type, val)
  PROVE  /\ up' \in Seq(Current(code)) /\ OneAuth(up')
         /\ up \in Seq(NoAuth) => up' \in Seq(NoAuth)
<1> DEFINE m == [type |-> type, key |-> SendKey, val |-> val]
<1>1. m \in UpMessage /\ m.type # "AUTH"
  BY SendKeyType DEF UpMessage
<1>2. up' = up \/ up' = Append(up, m)
  BY DEF Transmit
<1> HIDE DEF m
<1>3. m \in NoAuth /\ m \in Current(code)
  BY <1>1 DEF NoAuth, Current
<1>4. up \in Seq(UpMessage)
  BY DEF TypeInv, TypeOK
<1> QED
  BY <1>1, <1>2, <1>3, <1>4, AppendIn, OneAuthAppend DEF CodeInv

\* A call that is over leaves the device before its AUTH only if it was, and
\* only a registration that succeeds brings it there.
LEMMA ReturnsBefore ==
  ASSUME TypeOK, NEW ok, NEW time, Returns(ok, time), Before(pc', waiting'),
         pc \notin {"get_acc", "connect"}, pc = "loop" => ~ok
  PROVE  Before(pc, waiting) /\ (pc' = "auth" => pc = "register" /\ ok) /\ pc # "auth"
BY DEF Returns, Following, Optional, Before, TypeOK, Steps

\* The device's calls.
LEMMA CodeAsked ==
  ASSUME TypeInv, CodeInv, Ask
  PROVE  CodeInv'
<1>1. UNCHANGED <<down, code, auth_code>>
  BY DEF Ask, platform, auth
<1>2. CASE Transmit(AskedAt(pc), IF pc = "auth" THEN auth_code ELSE 0) /\ waiting'
  <2>1. pc' = pc
    BY <1>2 DEF Ask, Returns
  <2>2. CASE pc = "auth"
    <3> DEFINE m == [type |-> "AUTH", key |-> SendKey, val |-> auth_code]
    <3>1. m \in UpMessage /\ m.type = "AUTH" /\ Right(m.val, code)
      BY <2>2, SendKeyType DEF Ask, CodeInv, UpMessage, Questions, TypeInv, TypeOK
    <3>2. up' = up \/ up' = Append(up, m)
      BY <1>2, <2>2 DEF Transmit, AskedAt
    <3> HIDE DEF m
    <3>3. m \in Current(code) /\ up \in Seq(UpMessage) /\ up \in Seq(NoAuth)
      BY <2>2, <3>1 DEF Current, Ask, CodeInv, Before, TypeInv, TypeOK
    <3>4. up' \in Seq(Current(code)) /\ OneAuth(up')
      BY <3>1, <3>2, <3>3, AppendIn, OneAuthAppend DEF CodeInv
    <3> QED
      BY <1>1, <1>2, <2>1, <2>2, <3>4 DEF CodeInv, Before
  <2>3. CASE pc # "auth"
    <3>1. AskedAt(pc) \in (Questions \cup Orders) \ {"AUTH"} /\ 0 \in Nat
      BY <2>3 DEF Ask, Asking, AskedAt, Questions
    <3>2. /\ up' \in Seq(Current(code)) /\ OneAuth(up')
          /\ up \in Seq(NoAuth) => up' \in Seq(NoAuth)
      BY <1>2, <2>3, <3>1, SendOther
    <3>3. Before(pc', waiting') => Before(pc, waiting)
      BY <2>1, <2>3 DEF Before
    <3> QED
      BY <1>1, <2>1, <2>3, <3>2, <3>3 DEF CodeInv
  <2> QED
    BY <2>2, <2>3
<1>3. CASE Returns(FALSE, tm) /\ UNCHANGED up
  <2>1. ~Before(pc', waiting') \/ (Before(pc, waiting) /\ pc' # "auth")
    BY <1>3, ReturnsBefore DEF Ask, Asking, TypeInv
  <2> QED
    BY <1>1, <1>3, <2>1 DEF CodeInv, Before
<1> QED
  BY <1>2, <1>3 DEF Ask

LEMMA CodeAnswered ==
  ASSUME TypeInv, LengthInv, CodeInv, TakeAnswer
  PROVE  CodeInv'
<1> DEFINE m == Head(down)
<1>1. /\ UNCHANGED <<up, code>> /\ down' = Tail(down) /\ down # <<>> /\ m.type = AskedAt(pc)
      /\ auth_code' = CodeAfter(m) /\ Asking
  BY DEF TakeAnswer, platform, Arrived, Waiting
<1>2. PICK time : Returns(Accepted(m), time)
  BY DEF TakeAnswer
<1>3. Before(pc', waiting') => Before(pc, waiting) /\ (pc' = "auth" => pc = "register" /\ Accepted(m))
  BY <1>1, <1>2, ReturnsBefore DEF Asking, TypeInv
<1>4. Before(pc', waiting') => down' \in Seq(Registered(code)) /\ m \in Registered(code)
  BY <1>1, <1>3, TailIn DEF CodeInv
<1>5. ASSUME pc' = "auth", ~waiting' PROVE Right(auth_code', code)
  <2>1. Before(pc', waiting')
    BY <1>5 DEF Before
  <2>2. m.type = "DEVICE_REGISTER" /\ m.ok
    BY <1>1, <1>3, <1>5, <2>1 DEF Accepted, AskedAt
  <2>3. m.val = code /\ code # 0
    BY <1>4, <2>1, <2>2 DEF Registered, TypeInv, TypeOK
  <2>4. auth_code' = IF auth_length > CodeLength[code] THEN 0 ELSE code
    BY <1>1, <2>2, <2>3 DEF CodeAfter, Brings
  <2>5. auth_length > CodeLength[code] => \E d \in 1..code : CodeLength[d] > CodeLength[code]
    <3>1. CodeLength[code] \in Nat
      BY SessionAssumption DEF TypeInv, TypeOK
    <3> QED
      BY <3>1 DEF LengthInv, Copied
  <2> QED
    BY <2>4, <2>5 DEF Right
<1> QED
  BY <1>1, <1>3, <1>4, <1>5 DEF CodeInv

LEMMA CodeOther ==
  ASSUME TypeInv, CodeInv, TakeOther
  PROVE  CodeInv'
<1> DEFINE m == Head(down)
<1>1. /\ UNCHANGED <<code, auth_code, waiting>> /\ down' = Tail(down) /\ down # <<>>
      /\ Callback(m) /\ Receiving
      /\ pc' = IF pc = "receive" THEN Following(pc) ELSE pc
  BY DEF TakeOther, platform, memory, auth, Arrived
<1>2. /\ up' \in Seq(Current(code)) /\ OneAuth(up')
      /\ up \in Seq(NoAuth) => up' \in Seq(NoAuth)
  <2>1. CASE m.type = "PLATFORM_REQ_PUBKEY" /\ Transmit(m.type, decrypt_ctx + 1)
    <3>1. decrypt_ctx + 1 \in Nat
      BY DEF TypeInv, TypeOK
    <3>2. m.type \in (Questions \cup Orders) \ {"AUTH"}
      BY <2>1 DEF Orders
    <3> QED
      BY <2>1, <3>1, <3>2, SendOther
  <2>2. CASE m.type = "LIVE_START" /\ Transmit(m.type, 0)
    <3>1. m.type \in (Questions \cup Orders) \ {"AUTH"} /\ 0 \in Nat
      BY <2>2 DEF Orders
    <3> QED
      BY <2>2, <3>1, SendOther
  <2>3. CASE UNCHANGED up
    BY <2>3 DEF CodeInv
  <2> QED
    BY <1>1, <2>1, <2>2, <2>3 DEF Callback
<1>3. /\ Before(pc', waiting') => Before(pc, waiting)
      /\ pc' = "auth" => pc = "auth"
  BY <1>1 DEF Before, Following
<1>4. Before(pc', waiting') => down' \in Seq(Registered(code))
  BY <1>1, <1>3, TailIn DEF CodeInv
<1> QED
  BY <1>1, <1>2, <1>3, <1>4 DEF CodeInv

\* Connections, failures and the time.
LEMMA CodeElsewhere ==
  ASSUME TypeInv, CodeInv,
         \/ GetAcc \/ Connect \/ CannotDecrypt \/ TimeOut \/ SocketFails
         \/ ReceiveTimesOut \/ Keepalive \/ UNCHANGED vars
  PROVE  CodeInv'
<1> USE DEF device, keys, memory, auth, platform
<1>0. /\ <<>> \in Seq(Current(code)) /\ <<>> \in Seq(NoAuth) /\ <<>> \in Seq(Registered(code))
      /\ OneAuth(<<>>)
  BY EmptySeq DEF OneAuth
<1>1. CASE GetAcc
  BY <1>1 DEF GetAcc, Following, CodeInv, Before
<1>2. CASE Connect
  <2>1. UNCHANGED <<code, auth_code>> /\ pc' # "auth"
    BY <1>2 DEF Connect, Following
  <2>2. CASE up' = <<>> /\ down' = <<>>
    BY <1>0, <2>1, <2>2 DEF CodeInv
  <2>3. CASE UNCHANGED <<up, down>> /\ pc' = "get_acc"
    BY <2>1, <2>3 DEF CodeInv, Before
  <2> QED
    BY <1>2, <2>2, <2>3 DEF Connect
<1>3. CASE CannotDecrypt
  <2>1. /\ Returns(FALSE, tm) /\ UNCHANGED <<up, code, auth_code>>
        /\ down' = down \/ (down # <<>> /\ down' = Tail(down))
    BY <1>3 DEF CannotDecrypt
  <2>2. Before(pc', waiting') => Before(pc, waiting) /\ pc' # "auth"
    BY <1>3, <2>1, ReturnsBefore DEF CannotDecrypt, Receiving, Waiting, Asking, TypeInv
  <2>3. Before(pc', waiting') => down' \in Seq(Registered(code))
    BY <2>1, <2>2, TailIn DEF CodeInv
  <2> QED
    BY <2>1, <2>2, <2>3 DEF CodeInv, Before
<1>4. CASE TimeOut \/ SocketFails
  <2>1. Returns(FALSE, tm) /\ UNCHANGED <<up, down, code, auth_code>>
    BY <1>4 DEF TimeOut, SocketFails
  <2>2. Before(pc', waiting') => Before(pc, waiting) /\ pc' # "auth"
    BY <1>4, <2>1, ReturnsBefore DEF TimeOut, SocketFails, Receiving, Waiting, Asking, TypeInv
  <2> QED
    BY <2>1, <2>2 DEF CodeInv, Before
<1>5. CASE ReceiveTimesOut
  BY <1>5 DEF ReceiveTimesOut, Following, CodeInv, Before
<1>6. CASE Keepalive
  <2>1. UNCHANGED <<code, auth_code, down, waiting>> /\ pc = "loop" /\ pc' \in {"loop", "get_acc"}
    BY <1>6 DEF Keepalive
  <2>2. "KEEPALIVE" \in (Questions \cup Orders) \ {"AUTH"} /\ 0 \in Nat
    BY DEF Questions
  <2>3. up' \in Seq(Current(code)) /\ OneAuth(up')
    <3>1. CASE Transmit("KEEPALIVE", 0)
      BY <2>2, <3>1, SendOther
    <3>2. CASE UNCHANGED up
      BY <3>2 DEF CodeInv
    <3> QED
      BY <1>6, <3>1, <3>2 DEF Keepalive
  <2> QED
    BY <2>1, <2>3 DEF CodeInv, Before
<1>7. CASE UNCHANGED vars
  BY <1>7 DEF vars, CodeInv
<1> QED
  BY <1>1, <1>2, <1>3, <1>4, <1>5, <1>6, <1>7

\* What the platform answers: a registration is answered with the code.
LEMMA AnswerRegistered ==
  ASSUME TypeInv, down \in Seq(Registered(code)), NEW m \in UpMessage,
         NEW ok \in BOOLEAN, NEW val \in 0..MaxCodes, Answer(m, ok, val),
         m.type = "DEVICE_REGISTER" /\ ok => val = code
  PROVE  down' \in Seq(Registered(code))
<1> DEFINE a == [type |-> m.type, key |-> devkey, ok |-> ok, val |-> val]
<1>1. a \in DownMessage
  BY DEF TypeInv, TypeOK, UpMessage, DownMessage
<1>2. a \in Registered(code)
  BY <1>1 DEF Registered
<1>3. down' = Append(down, a)
  BY DEF Answer
<1> HIDE DEF a
<1> QED
  BY <1>2, <1>3, AppendIn

LEMMA HandlesRegistered ==
  ASSUME TypeInv, PlatformHandles, Head(up).type # "AUTH", down \in Seq(Registered(code))
  PROVE  code' = code /\ down' \in Seq(Registered(code))
<1> DEFINE m == Head(up)
<1>0. m \in UpMessage
  BY TailIn DEF PlatformHandles, TypeInv, TypeOK
<1>1. 0 \in 0..MaxCodes /\ code \in 0..MaxCodes
  BY SessionAssumption DEF TypeInv, TypeOK
<1>2. code' = code
  BY DEF PlatformHandles, platform
<1>3. \/ UNCHANGED down
      \/ m.type = "DEVICE_REGISTER" /\ Answer(m, TRUE, code)
      \/ Answer(m, FALSE, 0)
      \/ m.type # "DEVICE_REGISTER" /\ Answer(m, TRUE, 0)
  BY DEF PlatformHandles, Grant, platform
<1>4. CASE UNCHANGED down
  BY <1>2, <1>4
<1>5. CASE m.type = "DEVICE_REGISTER" /\ Answer(m, TRUE, code)
  BY <1>0, <1>1, <1>2, <1>5, AnswerRegistered
<1>6. CASE Answer(m, FALSE, 0)
  BY <1>0, <1>1, <1>2, <1>6, AnswerRegistered
<1>7. CASE m.type # "DEVICE_REGISTER" /\ Answer(m, TRUE, 0)
  BY <1>0, <1>1, <1>2, <1>7, AnswerRegistered
<1> QED
  BY <1>3, <1>4, <1>5, <1>6, <1>7

LEMMA CodePlatform ==
  ASSUME TypeInv, CodeInv, Environment
  PROVE  CodeInv'
<1> USE DEF device, keys, memory, auth, platform
<1>0. up \in Seq(UpMessage) /\ UNCHANGED <<pc, waiting, auth_code>>
  BY DEF Environment, LinkCloses, PlatformHandles, PlatformRefuses, PlatformAsksKey,
         PlatformOrders, TypeInv, TypeOK
<1>1. CASE LinkCloses
  <2>1. PICK n \in 0..Len(down) : down' = SubSeq(down, 1, n)
    BY <1>1 DEF LinkCloses
  <2>2. up' = <<>> /\ code' = code
    BY <1>1 DEF LinkCloses
  <2>3. /\ <<>> \in Seq(Current(code)) /\ <<>> \in Seq(NoAuth) /\ OneAuth(<<>>)
    BY EmptySeq DEF OneAuth
  <2>4. down \in Seq(Registered(code)) => down' \in Seq(Registered(code))
    BY <2>1, PrefixIn
  <2> QED
    BY <1>0, <2>2, <2>3, <2>4 DEF CodeInv
<1>2. CASE PlatformHandles
  <2>1. up # <<>> /\ up' = Tail(up)
    BY <1>2 DEF PlatformHandles
  <2>2. /\ OneAuth(up') /\ up' \in Seq(Current(code))
        /\ Head(up).type = "AUTH" => up' \in Seq(NoAuth)
        /\ up \in Seq(NoAuth) => up' \in Seq(NoAuth) /\ Head(up) \in NoAuth
    BY <1>0, <2>1, OneAuthTail, TailIn DEF CodeInv
  <2>3. CASE Head(up).type # "AUTH"
    <3>1. code' = code
      BY <1>2, <2>3 DEF PlatformHandles
    <3>2. Before(pc, waiting) => down' \in Seq(Registered(code))
      BY <1>2, <2>3, HandlesRegistered DEF CodeInv
    <3> QED
      BY <1>0, <2>2, <3>1, <3>2 DEF CodeInv
  <2>4. CASE Head(up).type = "AUTH"
    <3>1. ~Before(pc, waiting)
      BY <2>2, <2>4 DEF CodeInv, NoAuth
    <3>2. NoAuth \subseteq Current(code')
      BY DEF NoAuth, Current
    <3>3. up' \in Seq(Current(code'))
      BY <2>2, <2>4, <3>2
    <3> QED
      BY <1>0, <2>2, <3>1, <3>3 DEF CodeInv, Before
  <2> QED
    BY <2>3, <2>4
<1>3. CASE PlatformRefuses
  <2>1. up # <<>> /\ up' = Tail(up) /\ code' = code /\ Answer(Head(up), FALSE, 0)
    BY <1>3 DEF PlatformRefuses
  <2>2. /\ OneAuth(up') /\ up' \in Seq(Current(code)) /\ Head(up) \in UpMessage
        /\ up \in Seq(NoAuth) => up' \in Seq(NoAuth)
    BY <1>0, <2>1, OneAuthTail, TailIn DEF CodeInv
  <2>3. 0 \in 0..MaxCodes
    BY SessionAssumption
  <2>4. down \in Seq(Registered(code)) => down' \in Seq(Registered(code))
    BY <2>1, <2>2, <2>3, AnswerRegistered
  <2> QED
    BY <1>0, <2>1, <2>2, <2>4 DEF CodeInv
<1>4. CASE PlatformAsksKey \/ PlatformOrders
  <2>1. PICK type \in Orders : Order(type)
    BY <1>4 DEF PlatformAsksKey, PlatformOrders, Orders
  <2> DEFINE a == [type |-> type, key |-> devkey, ok |-> TRUE, val |-> 0]
  <2>2. a \in DownMessage /\ a.type # "DEVICE_REGISTER"
    BY SessionAssumption DEF TypeInv, TypeOK, DownMessage, Orders
  <2>3. down' = Append(down, a)
    BY <2>1 DEF Order
  <2> HIDE DEF a
  <2>4. a \in Registered(code)
    BY <2>2 DEF Registered
  <2>5. down \in Seq(Registered(code)) => down' \in Seq(Registered(code))
    BY <2>3, <2>4, AppendIn
  <2>6. UNCHANGED <<up, code>>
    BY <1>4 DEF PlatformAsksKey, PlatformOrders
  <2> QED
    BY <1>0, <2>5, <2>6 DEF CodeInv
<1> QED
  BY <1>1, <1>2, <1>3, <1>4 DEF Environment

-----------------------------------------------------------------------------
\* The lengths the string has had.

LEMMA IssuedMore ==
  ASSUME NEW c \in Nat, NEW d \in Nat, c <= d
  PROVE  Issued(c) \subseteq Issued(d) /\ (Copied(c) => Copied(d))
<1>1. 0..c \subseteq 0..d /\ 1..c \subseteq 1..d
  OBVIOUS
<1> QED
  BY <1>1 DEF Issued, Copied

LEMMA AnswerIssued ==
  ASSUME TypeInv, NEW c \in 0..MaxCodes, down \in Seq(Issued(c)), NEW m \in UpMessage,
         NEW ok \in BOOLEAN, NEW val \in 0..c, Answer(m, ok, val)
  PROVE  down' \in Seq(Issued(c))
<1> DEFINE a == [type |-> m.type, key |-> devkey, ok |-> ok, val |-> val]
<1>1. a \in DownMessage
  BY SessionAssumption DEF TypeInv, TypeOK, UpMessage, DownMessage
<1>2. a \in Issued(c)
  BY <1>1 DEF Issued
<1>3. down' = Append(down, a)
  BY DEF Answer
<1> HIDE DEF a
<1> QED
  BY <1>2, <1>3, AppendIn

LEMMA LengthAnswered ==
  ASSUME TypeInv, LengthInv, TakeAnswer
  PROVE  LengthInv'
<1> DEFINE m == Head(down)
<1>1. /\ UNCHANGED code /\ down' = Tail(down) /\ down # <<>>
      /\ auth_length' = LengthAfter(m)
  BY DEF TakeAnswer, platform, Arrived
<1>2. m \in Issued(code) /\ down' \in Seq(Issued(code))
  BY <1>1, TailIn DEF LengthInv
<1>3. Brings(m) => m.val \in 1..code
  BY <1>2 DEF Issued, Brings, TypeInv, TypeOK
<1>4. auth_length' = auth_length \/ (Brings(m) /\ auth_length' = CodeLength[m.val])
  BY <1>1 DEF LengthAfter
<1>5. auth_length' = 0 \/ \E d \in 1..code : auth_length' = CodeLength[d]
  BY <1>3, <1>4 DEF LengthInv, Copied
<1> QED
  BY <1>1, <1>2, <1>5 DEF LengthInv, Copied

LEMMA LengthHandled ==
  ASSUME TypeInv, LengthInv, PlatformHandles
  PROVE  LengthInv'
<1> DEFINE m == Head(up)
<1>0. m \in UpMessage /\ UNCHANGED auth_length
  BY TailIn DEF PlatformHandles, TypeInv, TypeOK, device, memory, auth
<1>1. /\ code \in 0..MaxCodes /\ 0 \in 0..code /\ code \in 0..code
      /\ down \in Seq(Issued(code)) /\ Copied(code)
  BY DEF TypeInv, TypeOK, LengthInv
<1>2. \/ code' = code /\ (UNCHANGED down \/ Answer(m, FALSE, 0) \/ Answer(m, TRUE, 0)
                           \/ Answer(m, TRUE, code))
      \/ code < MaxCodes /\ code' = code + 1 /\ Answer(m, TRUE, code + 1)
  BY DEF PlatformHandles, Grant, platform
<1>3. CASE code' = code
  <2>1. down' \in Seq(Issued(code))
    BY <1>0, <1>1, <1>2, <1>3, AnswerIssued DEF TypeInv, TypeOK
  <2> QED
    BY <1>0, <1>1, <1>3, <2>1 DEF LengthInv, Copied
<1>4. CASE code < MaxCodes /\ code' = code + 1 /\ Answer(m, TRUE, code + 1)
  <2> DEFINE c == code + 1
  <2>1. c \in 0..MaxCodes /\ c \in 0..c /\ code <= c /\ c \in Nat /\ code \in Nat
    BY <1>1, <1>4, SessionAssumption
  <2>2. code' = c /\ Answer(m, TRUE, c)
    BY <1>4
  <2> HIDE DEF c
  <2>3. down \in Seq(Issued(c)) /\ Copied(c)
    BY <1>1, <2>1, IssuedMore
  <2>4. down' \in Seq(Issued(c))
    BY <1>0, <2>1, <2>2, <2>3, AnswerIssued
  <2> QED
    BY <1>0, <2>2, <2>3, <2>4 DEF LengthInv, Copied
<1> QED
  BY <1>2, <1>3, <1>4

LEMMA LengthOther ==
  ASSUME TypeInv, LengthInv, [Next]_vars, ~TakeAnswer, ~PlatformHandles
  PROVE  LengthInv'
<1> USE DEF device, keys, memory, auth, platform
<1>1. /\ code \in 0..MaxCodes /\ 0 \in 0..code
      /\ down \in Seq(Issued(code)) /\ Copied(code)
  BY DEF TypeInv, TypeOK, LengthInv
<1>2. UNCHANGED <<code, auth_length>>
  BY DEF Next, Device, Environment, GetAcc, Connect, Ask, TakeOther, CannotDecrypt, TimeOut,
         SocketFails, ReceiveTimesOut, Keepalive, LinkCloses, PlatformRefuses,
         PlatformAsksKey, PlatformOrders, vars
<1>3. down' \in Seq(Issued(code))
  <2>1. CASE \/ GetAcc \/ Connect \/ Ask \/ TimeOut \/ SocketFails \/ ReceiveTimesOut
             \/ Keepalive \/ UNCHANGED vars
    <3>1. down' = down \/ down' = <<>>
      BY <2>1 DEF GetAcc, Connect, Ask, TimeOut, SocketFails, ReceiveTimesOut, Keepalive, vars
    <3> QED
      BY <1>1, <3>1, EmptySeq
  <2>2. CASE TakeOther \/ CannotDecrypt
    <3>1. down' = down \/ (down # <<>> /\ down' = Tail(down))
      BY <2>2 DEF TakeOther, CannotDecrypt, Arrived
    <3> QED
      BY <1>1, <3>1, TailIn
  <2>3. CASE LinkCloses
    <3>1. PICK n \in 0..Len(down) : down' = SubSeq(down, 1, n)
      BY <2>3 DEF LinkCloses
    <3> QED
      BY <1>1, <3>1, PrefixIn
  <2>4. CASE PlatformRefuses
    <3>1. Head(up) \in UpMessage /\ Answer(Head(up), FALSE, 0)
      BY <2>4, TailIn DEF PlatformRefuses, TypeInv, TypeOK
    <3> QED
      BY <1>1, <3>1, AnswerIssued
  <2>5. CASE PlatformAsksKey \/ PlatformOrders
    <3>1. PICK type \in Orders : Order(type)
      BY <2>5 DEF PlatformAsksKey, PlatformOrders, Orders
    <3> DEFINE a == [type |-> type, key |-> devkey, ok |-> TRUE, val |-> 0]
    <3>2. a \in DownMessage
      BY SessionAssumption DEF TypeInv, TypeOK, DownMessage
    <3>3. down' = Append(down, a) /\ a.val = 0
      BY <3>1 DEF Order
    <3> HIDE DEF a
    <3>4. a \in Issued(code)
      BY <1>1, <3>2, <3>3 DEF Issued
    <3> QED
      BY <1>1, <3>3, <3>4, AppendIn
  <2> QED
    BY <2>1, <2>2, <2>3, <2>4, <2>5 DEF Next, Device, Environment
<1> QED
  BY <1>1, <1>2, <1>3 DEF LengthInv, Copied

(***************************************************************************)
(* The device authenticates with the code the platform expects, however    *)
(* often the platform changes it and whichever answer is lost, as long as  *)
(* the codes do not get shorter; then what it sends may be none, but it is *)
(* never one of the codes before.                                          *)
(***************************************************************************)
THEOREM RightCode == Spec => []CodeCurrent
<1>1. Init => CodeInv /\ LengthInv
  BY EmptySeq DEF Init, CodeInv, OneAuth, Before, LengthInv, Copied
<1>2. TypeInv /\ LengthInv /\ CodeInv /\ [Next]_vars => CodeInv'
  BY CodeAsked, CodeAnswered, CodeOther, CodeElsewhere, CodePlatform DEF Next, Device
<1>3. TypeInv /\ LengthInv /\ [Next]_vars => LengthInv'
  BY LengthAnswered, LengthHandled, LengthOther
<1>4. CodeInv => CodeCurrent
  BY DEF CodeInv, Current, CodeCurrent, Right, GotShorter
<1> QED
  BY <1>1, <1>2, <1>3, <1>4, TypeAlways, PTL DEF Spec
=============================================================================
