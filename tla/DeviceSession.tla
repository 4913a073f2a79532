---------------------------- MODULE DeviceSession ----------------------------
(***************************************************************************)
(* A device's session with the platform: find the access server, connect,  *)
(* verify the token, exchange keys, register, authenticate, add the        *)
(* channel, set the clock, loop -- and from any error back to the start.   *)
(* (The main functions of the sample and of the GM813x, and the calls in   *)
(* src/src/device.c and src/src/protocol.c they make.)                     *)
(*                                                                         *)
(* Of module DeviceProtocol this module takes what it shows: a call        *)
(* returns the answer to that call or fails, and what else is received     *)
(* meanwhile goes to the callbacks.  What matters here is in which order   *)
(* the calls are made, under which key a message travels, and what         *)
(* outlives the connection it was made for.                                *)
(***************************************************************************)
EXTENDS Integers, Sequences

CONSTANTS
  Program,         \* "sample" or "gm813x": whose main function
  Encrypting,      \* is it built with ONT_VIDEO_PROTOCOL_ENCRYPT?
  MaxFaults,       \* bound: failures of the network and the platform
  MaxCodes,        \* bound: auth codes the platform issues
  CodeLength,      \* how many characters each of them has
  MaxKeyRequests   \* bound: keys the platform asks for on one connection

ASSUME SessionAssumption ==
  /\ Program \in {"sample", "gm813x"}
  /\ Encrypting \in BOOLEAN
  /\ MaxFaults \in Nat /\ MaxKeyRequests \in Nat
  /\ MaxCodes \in Nat \ {0}
  /\ CodeLength \in [1..MaxCodes -> Nat \ {0}]

VARIABLES
  pc,            \* the call the main function makes next, or "loop"
  waiting,       \* is its request sent and its answer awaited?
  encrypt_flag,  \* dev->encrypt_flag
  encrypt_ctx,   \* dev->encrypt_ctx: the platform's key of this connection,
                 \* of an earlier one, or "none"
  decrypt_ctx,   \* dev->decrypt_ctx: the device's latest key, counted on this
                 \* connection; 0: none, or one of an earlier connection
  jammed,        \* does rcv_buf hold a message that cannot be decrypted?
  auth_code,     \* the string in dev->auth_code: the serial number of a
                 \* code; 0: none, or a code with the tail of a longer one
  auth_length,   \* its length
  tm,            \* tm of main: "zero", or the platform's time, of this
                 \* session or an earlier one
  clock,         \* what the device's clock was last set to
  link,          \* "up", or "closed" by the other side
  up,            \* in flight, device to platform
  down,          \* in flight, platform to device
  trust,         \* how far the platform has admitted this connection
  devkey,        \* the device key the platform encrypts with; 0: none
  keyreqs,       \* key requests of the platform on this connection
  code,          \* the auth code the platform expects
  faults         \* failures so far

keys     == <<encrypt_flag, encrypt_ctx, decrypt_ctx>>
auth     == <<auth_code, auth_length>>
memory   == <<auth, tm, clock>>
device   == <<pc, waiting, keys, jammed, memory>>
platform == <<trust, devkey, keyreqs, code>>
vars     == <<device, link, up, down, platform, faults>>

(***************************************************************************)
(* The key of a message to the platform is "plain", or the platform's key  *)
(* of this or of an old connection; that of a message to the device is the *)
(* number of a device key, or 0.                                           *)
(***************************************************************************)
Steps == {"get_acc", "connect", "verify", "pubkey", "receive", "register",
          "auth", "channel", "systime", "loop"}
Questions == {"CONNECT_VERIFY", "REQ_PUBKEY", "DEVICE_REGISTER", "AUTH",
              "ADD_CHANNEL", "GET_SYSTIME", "KEEPALIVE"}
Orders == {"PLATFORM_REQ_PUBKEY", "LIVE_START"}
UpMessage   == [type : Questions \cup Orders, key : {"plain", "this", "old"}, val : Nat]
DownMessage == [type : Questions \cup Orders, key : Nat, ok : BOOLEAN, val : 0..MaxCodes]

TypeOK ==
  /\ pc \in Steps /\ waiting \in BOOLEAN
  /\ encrypt_flag \in BOOLEAN /\ encrypt_ctx \in {"none", "this", "old"}
  /\ decrypt_ctx \in Nat
  /\ jammed \in BOOLEAN
  /\ auth_code \in 0..MaxCodes /\ auth_length \in Nat
  /\ tm \in {"zero", "this", "old"}
  /\ clock \in {"unset", "platform", "stale", "zero"}
  /\ link \in {"up", "closed"}
  /\ up \in Seq(UpMessage) /\ down \in Seq(DownMessage)
  /\ trust \in {"none", "verified", "registered", "authenticated"}
  /\ devkey \in Nat /\ keyreqs \in 0..MaxKeyRequests
  /\ code \in 1..MaxCodes
  /\ faults \in 0..MaxFaults

Init ==
  /\ pc = "get_acc" /\ waiting = FALSE
  /\ encrypt_flag = FALSE /\ encrypt_ctx = "none" /\ decrypt_ctx = 0
  /\ jammed = FALSE
  /\ auth_code = 0 /\ auth_length = 0 /\ tm = "zero" /\ clock = "unset"
  /\ link = "closed" /\ up = <<>> /\ down = <<>>
  /\ trust = "none" /\ devkey = 0 /\ keyreqs = 0 /\ code = 1
  /\ faults = 0

-----------------------------------------------------------------------------
Fault == faults < MaxFaults /\ faults' = faults + 1

AskedAt(p) ==
  CASE p = "verify"   -> "CONNECT_VERIFY"
    [] p = "pubkey"   -> "REQ_PUBKEY"
    [] p = "register" -> "DEVICE_REGISTER"
    [] p = "auth"     -> "AUTH"
    [] p = "channel"  -> "ADD_CHANNEL"
    [] p = "systime"  -> "GET_SYSTIME"

\* The order of the calls in main.  Only an encrypting program asks for the
\* platform's key, only the sample for its time.
Following(p) ==
  CASE p = "get_acc"  -> "connect"
    [] p = "connect"  -> "verify"
    [] p = "verify"   -> IF Encrypting THEN "pubkey" ELSE "receive"
    [] p = "pubkey"   -> "receive"
    [] p = "receive"  -> "register"
    [] p = "register" -> "auth"
    [] p = "auth"     -> "channel"
    [] p = "channel"  -> IF Program = "sample" THEN "systime" ELSE "loop"
    [] p = "systime"  -> "loop"

Asking  == pc \in {"verify", "pubkey", "register", "auth", "channel", "systime"}
Waiting == Asking /\ waiting
\* ont_device_msg_rcv is running, in a call that waits or in check_receive.
Receiving == Waiting \/ pc \in {"receive", "loop"}

\* The calls whose result main ignores.  (PubkeyOptionalToo, EncryptAlways,
\* FlagKept, AcceptedAnyway, CodeStoredOnce and KeepaliveIgnored are faulty
\* variants; FlagKept is what the GM813x does.)
PubkeyOptionalToo == {"pubkey", "channel", "systime"}
Optional == {"channel", "systime"}

\* The call at pc is over.  The clock is set to tm, the platform's time or not.
Returns(ok, time) ==
  /\ waiting' = FALSE
  /\ pc' = IF ok \/ pc \in Optional THEN Following(pc) ELSE "get_acc"
  /\ tm' = time
  /\ clock' = IF pc # "systime" THEN clock
              ELSE IF time = "this" THEN "platform"
              ELSE IF time = "old" THEN "stale" ELSE "zero"

EncryptAlways == encrypt_ctx
\* ont_device_msg_sendmsg encrypts whenever dev->encrypt_flag is set.
SendKey == IF encrypt_flag THEN encrypt_ctx ELSE "plain"

\* On a connection the other side has closed the bytes go nowhere.
Transmit(type, val) ==
  up' = IF link = "up" THEN Append(up, [type |-> type, key |-> SendKey, val |-> val])
                       ELSE up

Decrypts(m) == m.key \in {0, decrypt_ctx}
Arrived == ~jammed /\ down # <<>> /\ Decrypts(Head(down))

-----------------------------------------------------------------------------
\* The sample forgets at the start that messages are to be encrypted; the
\* GM813x does not.
FlagKept == encrypt_flag
FlagAtStart == IF Program = "sample" THEN FALSE ELSE encrypt_flag

\* __restart, and ont_device_get_acc.
GetAcc ==
  /\ pc = "get_acc"
  /\ encrypt_flag' = FlagAtStart
  /\ \/ pc' = Following(pc) /\ UNCHANGED faults
     \/ pc' = "get_acc" /\ Fault
  /\ UNCHANGED <<waiting, encrypt_ctx, decrypt_ctx, jammed, memory, link, up,
                 down, platform>>

\* What belongs to the connection that is left is of an earlier one now.
Aged(x) == IF x = "this" THEN "old" ELSE x

\* ont_device_connect.
Connect ==
  /\ pc = "connect"
  /\ \/ /\ pc' = Following(pc)
        /\ link' = "up" /\ up' = <<>> /\ down' = <<>>
        /\ encrypt_ctx' = Aged(encrypt_ctx) /\ tm' = Aged(tm)
        /\ decrypt_ctx' = 0
        /\ trust' = "none" /\ devkey' = 0 /\ keyreqs' = 0
        /\ UNCHANGED faults
     \/ /\ pc' = "get_acc" /\ Fault
        /\ UNCHANGED <<encrypt_ctx, decrypt_ctx, tm, link, up, down, trust, devkey, keyreqs>>
  /\ UNCHANGED <<waiting, encrypt_flag, jammed, auth, clock, code>>

\* The calls of device.c up to the wait loop.
Ask ==
  /\ Asking /\ ~waiting
  /\ \/ /\ Transmit(AskedAt(pc), IF pc = "auth" THEN auth_code ELSE 0)
        /\ waiting' = TRUE
        /\ UNCHANGED <<pc, tm, clock>>
     \/ /\ link = "closed"
        /\ Returns(FALSE, tm)
        /\ UNCHANGED up
  /\ UNCHANGED <<keys, jammed, auth, link, down, platform, faults>>

\* What the calls make of an answer: ont_device_verify returns ONT_ERR_OK
\* although the platform refuses the token.
AcceptedAnyway(m) == TRUE
Accepted(m) == m.ok \/ m.type = "CONNECT_VERIFY"

\* Register brings the code, auth a new one if the platform changes it.  It is
\* copied without a NUL: a string that was longer keeps its tail.
Brings(m) == m.ok /\ m.type \in {"DEVICE_REGISTER", "AUTH"} /\ m.val # 0
CodeStoredOnce(m) == IF Brings(m) /\ auth_length = 0 THEN m.val ELSE auth_code
CodeAfter(m) ==
  IF ~Brings(m) THEN auth_code
  ELSE IF auth_length > CodeLength[m.val] THEN 0 ELSE m.val
LengthAfter(m) ==
  IF Brings(m) /\ auth_length < CodeLength[m.val] THEN CodeLength[m.val] ELSE auth_length

\* The answer is received.
TakeAnswer ==
  /\ Waiting /\ Arrived /\ Head(down).type = AskedAt(pc)
  /\ down' = Tail(down)
  /\ auth_code' = CodeAfter(Head(down))
  /\ auth_length' = LengthAfter(Head(down))
  /\ encrypt_flag' = (encrypt_flag \/ pc = "pubkey")
  /\ encrypt_ctx' = IF pc = "pubkey" THEN "this" ELSE encrypt_ctx
  /\ Returns(Accepted(Head(down)), IF pc = "systime" THEN "this" ELSE tm)
  /\ UNCHANGED <<decrypt_ctx, jammed, link, up, platform, faults>>

\* ont_device_msg_callback.  A key request makes a new key, under which the
\* device decrypts from now on; its reply is built after that.
Callback(m) ==
  \/ /\ m.type = "PLATFORM_REQ_PUBKEY"
     /\ decrypt_ctx' = decrypt_ctx + 1
     /\ Transmit(m.type, decrypt_ctx + 1)
  \/ /\ m.type = "LIVE_START"
     /\ Transmit(m.type, 0)
     /\ UNCHANGED decrypt_ctx
  \/ /\ m.type \notin Orders
     /\ UNCHANGED <<decrypt_ctx, up>>

\* Another message is received: in the wait loop, which goes on, by the main
\* loop, or by the one check_receive between the keys and the registration.
TakeOther ==
  /\ Receiving /\ Arrived
  /\ Waiting => Head(down).type # AskedAt(pc)
  /\ down' = Tail(down)
  /\ Callback(Head(down))
  /\ pc' = IF pc = "receive" THEN Following(pc) ELSE pc
  /\ UNCHANGED <<waiting, encrypt_flag, encrypt_ctx, jammed, memory, link,
                 platform, faults>>

\* A message cannot be decrypted.  It stays in rcv_buf, also when the device
\* connects again, so that every later receive fails at once.
CannotDecrypt ==
  /\ Receiving
  /\ jammed \/ (down # <<>> /\ ~Decrypts(Head(down)))
  /\ jammed' = TRUE
  /\ down' = IF jammed THEN down ELSE Tail(down)
  /\ Returns(FALSE, tm)
  /\ UNCHANGED <<keys, auth, link, up, platform, faults>>

\* Nothing comes in time.  A connection the other side has closed looks the
\* same: tcp_recv returns no bytes and no error.
TimeOut ==
  /\ Waiting /\ ~jammed
  /\ Returns(FALSE, tm)
  /\ IF link = "closed" THEN UNCHANGED faults ELSE Fault
  /\ UNCHANGED <<keys, jammed, auth, link, up, down, platform>>

\* Receiving on a connection that is closed may also fail.
SocketFails ==
  /\ Receiving /\ link = "closed"
  /\ Returns(FALSE, tm)
  /\ UNCHANGED <<keys, jammed, auth, link, up, down, platform, faults>>

\* check_receive takes a timeout for success, whether or not the platform
\* has asked for the device's key.
ReceiveTimesOut ==
  /\ pc = "receive" /\ ~jammed
  /\ pc' = Following(pc)
  /\ UNCHANGED <<waiting, keys, jammed, memory, link, up, down, platform, faults>>

InFlight(q, type) == \E i \in 1..Len(q) : q[i].type = type

\* Faulty variant: what keepalive returns is ignored.
KeepaliveIgnored ==
  /\ pc = "loop"
  /\ ~InFlight(up, "KEEPALIVE") /\ ~InFlight(down, "KEEPALIVE")
  /\ Transmit("KEEPALIVE", 0)
  /\ UNCHANGED <<device, link, down, platform, faults>>

\* ont_device_keepalive, every 30 s: how the loop notices that the connection
\* is closed.  Bound: one keepalive on its way.
Keepalive ==
  /\ pc = "loop"
  /\ \/ /\ ~InFlight(up, "KEEPALIVE") /\ ~InFlight(down, "KEEPALIVE")
        /\ Transmit("KEEPALIVE", 0)
        /\ UNCHANGED pc
     \/ /\ link = "closed"
        /\ pc' = "get_acc"
        /\ UNCHANGED up
  /\ UNCHANGED <<waiting, keys, jammed, memory, link, down, platform, faults>>

-----------------------------------------------------------------------------
\* The connection is closed by the other side; some of what was on its way
\* still arrives.
LinkCloses ==
  /\ link = "up" /\ Fault
  /\ link' = "closed" /\ up' = <<>>
  /\ \E n \in 0..Len(down) : down' = SubSeq(down, 1, n)
  /\ UNCHANGED <<device, platform>>

Answer(m, ok, val) ==
  down' = Append(down, [type |-> m.type, key |-> devkey, ok |-> ok, val |-> val])

\* A step of the admission is only granted after the one before it.
Grant(m, before, after, val) ==
  IF trust = before THEN trust' = after /\ Answer(m, TRUE, val)
  ELSE UNCHANGED trust /\ Answer(m, FALSE, 0)

\* The platform has a key for each connection, and makes nothing of a message
\* under another.  It may change the auth code whenever it is used.
PlatformHandles ==
  /\ link = "up" /\ up # <<>>
  /\ up' = Tail(up)
  /\ LET m == Head(up) IN
     \/ /\ m.key = "old"
        /\ UNCHANGED <<down, platform>>
     \/ /\ m.key # "old" /\ m.type = "CONNECT_VERIFY"
        /\ Grant(m, "none", "verified", 0)
        /\ UNCHANGED <<devkey, code>>
     \/ /\ m.key # "old" /\ m.type = "DEVICE_REGISTER"
        /\ Grant(m, "verified", "registered", code)
        /\ UNCHANGED <<devkey, code>>
     \/ /\ m.key # "old" /\ m.type = "AUTH" /\ m.val = code
        /\ \/ Grant(m, "registered", "authenticated", 0) /\ UNCHANGED code
           \/ /\ code < MaxCodes /\ trust = "registered"
              /\ code' = code + 1
              /\ Grant(m, "registered", "authenticated", code + 1)
        /\ UNCHANGED devkey
     \/ /\ m.key # "old" /\ m.type = "AUTH" /\ m.val # code
        /\ Answer(m, FALSE, 0)
        /\ UNCHANGED <<trust, devkey, code>>
     \/ /\ m.key # "old"
        /\ m.type \in {"REQ_PUBKEY", "ADD_CHANNEL", "GET_SYSTIME", "KEEPALIVE"}
        /\ Answer(m, TRUE, 0)
        /\ UNCHANGED <<trust, devkey, code>>
     \/ /\ m.key # "old" /\ m.type = "PLATFORM_REQ_PUBKEY"
        /\ devkey' = m.val
        /\ UNCHANGED <<down, trust, code>>
     \/ /\ m.key # "old" /\ m.type = "LIVE_START"
        /\ UNCHANGED <<down, trust, devkey, code>>
  /\ UNCHANGED <<device, link, keyreqs, faults>>

\* It may refuse, for reasons of its own.
PlatformRefuses ==
  /\ link = "up" /\ up # <<>> /\ Fault
  /\ Head(up).key # "old"
  /\ Head(up).type \in {"CONNECT_VERIFY", "DEVICE_REGISTER", "AUTH", "ADD_CHANNEL"}
  /\ up' = Tail(up)
  /\ Answer(Head(up), FALSE, 0)
  /\ UNCHANGED <<device, link, platform>>

Order(type) ==
  down' = Append(down, [type |-> type, key |-> devkey, ok |-> TRUE, val |-> 0])

\* The platform asks an encrypting device for its key, perhaps again.
PlatformAsksKey ==
  /\ link = "up" /\ Encrypting /\ trust # "none" /\ keyreqs < MaxKeyRequests
  /\ keyreqs' = keyreqs + 1
  /\ Order("PLATFORM_REQ_PUBKEY")
  /\ UNCHANGED <<device, link, up, trust, devkey, code, faults>>

\* Bound: one order on its way.
PlatformOrders ==
  /\ link = "up" /\ trust = "authenticated"
  /\ ~InFlight(down, "LIVE_START") /\ ~InFlight(up, "LIVE_START")
  /\ Order("LIVE_START")
  /\ UNCHANGED <<device, link, up, platform, faults>>

-----------------------------------------------------------------------------
Device ==
  \/ GetAcc \/ Connect \/ Ask \/ TakeAnswer \/ TakeOther
  \/ CannotDecrypt \/ TimeOut \/ ReceiveTimesOut \/ Keepalive

Environment ==
  LinkCloses \/ PlatformHandles \/ PlatformRefuses \/ PlatformAsksKey \/ PlatformOrders

Next == Device \/ SocketFails \/ Environment

Spec == Init /\ [][Next]_vars

(***************************************************************************)
(* main never stops: get_acc and connect return, msg_rcv returns by its    *)
(* timeout, the loop sends its keepalives and receives.  The platform      *)
(* handles what it gets; that it sometimes does not in time, or refuses,   *)
(* is a fault, and the faults are bounded.  Receiving on a closed          *)
(* connection need not fail, it may be silent for ever.                    *)
(***************************************************************************)
Fairness ==
  /\ WF_vars(Device)
  /\ WF_vars(Keepalive)
  /\ WF_vars(PlatformHandles)

FairSpec == Spec /\ Fairness

-----------------------------------------------------------------------------
(***************************************************************************)
(* Whatever the device sends, the platform of this connection can read:    *)
(* nothing goes out under a key of a connection that is gone, also when    *)
(* the device connects again after any failure (video_sample_main.c:255).  *)
(***************************************************************************)
Readable == \A i \in 1..Len(up) : up[i].key # "old"

(***************************************************************************)
(* A program built for encryption sends its registration code and its auth *)
(* code only encrypted, whatever failed before (video_sample_main.c:279,   *)
(* 296-302).                                                               *)
(***************************************************************************)
SecretsEncrypted ==
  Encrypting => \A i \in 1..Len(up) :
    up[i].type \in {"DEVICE_REGISTER", "AUTH"} => up[i].key # "plain"

(***************************************************************************)
(* A device that adds channels or serves orders has been admitted on the   *)
(* connection it has, although verify takes a refusal for success          *)
(* (device.c:161, 168-202).                                                *)
(***************************************************************************)
ServesAuthenticated ==
  pc \in {"channel", "systime", "loop"} => trust = "authenticated"

(***************************************************************************)
(* The device authenticates with the code the platform expects, also when  *)
(* the answer that brought a new code was lost and the old one is all the  *)
(* device has kept (device.c:190-195, protocol.c:471-479) -- or, when the  *)
(* platform has once had a longer code, with what is no code at all: never *)
(* with a code that is outdated.                                           *)
(***************************************************************************)
GotShorter == \E c \in 1..code : CodeLength[c] > CodeLength[code]
CodeCurrent ==
  \A i \in 1..Len(up) : up[i].type = "AUTH" =>
    up[i].val = code \/ (up[i].val = 0 /\ GotShorter)

(***************************************************************************)
(* After the last failure the session comes up again and stays, unless a   *)
(* message could not be decrypted, or the code the device holds is spoilt: *)
(* the start of main does not loop, and a connection closed by the other   *)
(* side is noticed.                                                        *)
(***************************************************************************)
Spoilt == auth_code = 0 /\ auth_length > 0
Recovers == <>[]((pc = "loop" /\ link = "up") \/ jammed \/ Spoilt)
=============================================================================
