------------------------------ MODULE SendQueue -------------------------------
(***************************************************************************)
(* The packet queue of the GM813x camera between the encoder threads and   *)
(* the send thread (src/gm813x/send_queue.c), with the threads that use it *)
(* (src/gm813x/ont_video_play.c:198-392), during one stream: from the      *)
(* creation of the threads to the send thread's call of                    *)
(* ont_video_live_stream_stop.                                             *)
(*                                                                         *)
(* The queue is a list guarded by _mx_rtmp, except that an encoder reads   *)
(* its size before it takes the lock and that stop clears it without the   *)
(* lock.  A locked operation is one step.                                  *)
(***************************************************************************)
EXTENDS Integers, Sequences, FiniteSets

CONSTANTS
  Encoders,    \* the encoder threads
  Video,       \* the one that encodes video
  MaxBufSize,  \* MAX_BUF_SIZE
  MaxFrames    \* bound: buffers an encoder fills

ASSUME QueueAssumption ==
  /\ IsFiniteSet(Encoders) /\ Video \in Encoders
  /\ MaxBufSize \in Nat /\ MaxFrames \in Nat

VARIABLES
  list,       \* _list, the packets that wait, oldest first
  created,    \* has g813x_init created _list?
  enc_exit,
  video_started,
  pc,         \* pc[e]: where encoder e is
  filled,     \* filled[e]: number of buffers encoder e has allocated
  sender,     \* where the send thread is
  sending,    \* the packet it has taken from the list, at most one
  sent,       \* sent[e]: the last buffer of e handed to RTMP
  freed,      \* buffers freed
  leaked      \* buffers nobody refers to any more

vars == <<list, created, enc_exit, video_started, pc, filled, sender, sending,
          sent, freed, leaked>>

\* The n-th buffer of encoder e.
Buffer == [from : Encoders, num : Nat \ {0}]
Previous(e) == [from |-> e, num |-> filled[e] - 1]
Current(e) == [from |-> e, num |-> filled[e]]

TypeOK ==
  /\ list \in Seq(Buffer) /\ sending \in Seq(Buffer)
  /\ created \in BOOLEAN /\ enc_exit \in BOOLEAN /\ video_started \in BOOLEAN
  /\ pc \in [Encoders -> {"loop", "poll", "check", "insert", "done"}]
  /\ filled \in [Encoders -> Nat]
  /\ sender \in {"init", "loop", "select", "pop", "send", "stop",
                "join", "clear", "done"}
  /\ sent \in [Encoders -> Nat]
  /\ freed \subseteq Buffer /\ leaked \subseteq Buffer

\* video_started keeps the value it had at the end of an earlier stream.
Init ==
  /\ list = <<>> /\ sending = <<>>
  /\ created \in BOOLEAN /\ video_started \in BOOLEAN /\ enc_exit = FALSE
  /\ pc = [e \in Encoders |-> "loop"] /\ filled = [e \in Encoders |-> 0]
  /\ sender = "init"
  /\ sent = [e \in Encoders |-> 0]
  /\ freed = {} /\ leaked = {}

-----------------------------------------------------------------------------
Goto(e, from, to) == pc[e] = from /\ pc' = [pc EXCEPT ![e] = to]

\* The loop condition of an encoder thread.
IgnoreEncExit(e) ==
  /\ Goto(e, "loop", "poll")
  /\ UNCHANGED <<list, created, enc_exit, video_started, filled, sender,
                 sending, sent, freed, leaked>>
ReadEncExit(e) ==
  /\ Goto(e, "loop", IF enc_exit THEN "done" ELSE "poll")
  /\ UNCHANGED <<list, created, enc_exit, video_started, filled, sender,
                 sending, sent, freed, leaked>>

\* gm_poll times out, or what it reports cannot be received: a buffer
\* allocated for it is freed at once.
NoFrame(e) ==
  /\ Goto(e, "poll", "loop")
  /\ UNCHANGED <<list, created, enc_exit, video_started, filled, sender,
                 sending, sent, freed, leaked>>

\* A frame is received into a new buffer.  Sound that comes before the first
\* picture is freed, all else goes to g813x_PackEnqueue.
Fill(e) ==
  /\ filled[e] < MaxFrames
  /\ filled' = [filled EXCEPT ![e] = @ + 1]
  /\ IF e = Video \/ video_started
     THEN Goto(e, "poll", "check") /\ UNCHANGED freed
     ELSE Goto(e, "poll", "loop") /\ freed' = freed \cup {Current(e)'}
  /\ UNCHANGED <<list, created, enc_exit, video_started, sender, sending, sent, leaked>>

\* The encoder thread goes on after g813x_PackEnqueue.
Enqueued(e) == video_started' = (video_started \/ e = Video)

\* The size is read without the lock.  The size of a list that does not
\* exist is ONT_ERR_BADPARAM, a huge size_t.
OneTooMany == Len(list) > MaxBufSize + 1
Full == ~created \/ Len(list) > MaxBufSize

DropKeepsBuffer(e) ==
  /\ Full
  /\ Goto(e, "check", "loop")
  /\ Enqueued(e)
  /\ UNCHANGED <<list, created, enc_exit, filled, sender, sending, sent, freed, leaked>>
Drop(e) ==
  /\ Full
  /\ Goto(e, "check", "loop")
  /\ freed' = freed \cup {Current(e)}
  /\ Enqueued(e)
  /\ UNCHANGED <<list, created, enc_exit, filled, sender, sending, sent, leaked>>

Allocate(e) ==
  /\ ~Full
  /\ Goto(e, "check", "insert")
  /\ UNCHANGED <<list, created, enc_exit, video_started, filled, sender,
                 sending, sent, freed, leaked>>

\* No memory for the packet, or none for the list's node: the callers ignore
\* the failure.
AllocationFails(e) ==
  /\ \/ ~Full /\ Goto(e, "check", "loop")
     \/ Goto(e, "insert", "loop")
  /\ leaked' = leaked \cup {Current(e)}
  /\ Enqueued(e)
  /\ UNCHANGED <<list, created, enc_exit, filled, sender, sending, sent, freed>>

InsertFirst(l, b) == <<b>> \o l
ListInsert(l, b) == Append(l, b)

Insert(e) ==
  /\ Goto(e, "insert", "loop")
  /\ list' = ListInsert(list, Current(e))
  /\ Enqueued(e)
  /\ UNCHANGED <<created, enc_exit, filled, sender, sending, sent, freed, leaked>>

-----------------------------------------------------------------------------
SenderGoes(from, to) == sender = from /\ sender' = to

\* g813x_init, before the loop of the send thread; there may be no memory for
\* the list.
CreateList ==
  /\ SenderGoes("init", "loop")
  /\ created' \in {created, TRUE}
  /\ UNCHANGED <<list, enc_exit, video_started, pc, filled, sending, sent, freed, leaked>>

\* The loop condition of the send thread, and select.
SenderLoops ==
  /\ \/ SenderGoes("loop", IF enc_exit THEN "stop" ELSE "select")
     \/ SenderGoes("select", "loop")
     \/ SenderGoes("select", "pop")
     \/ SenderGoes("select", "stop")
  /\ UNCHANGED <<list, created, enc_exit, video_started, pc, filled, sending,
                 sent, freed, leaked>>

\* g813x_RTMPPackDequeue, one round of its loop.
Pop ==
  /\ IF list = <<>>
     THEN SenderGoes("pop", "loop") /\ UNCHANGED <<list, sending>>
     ELSE /\ SenderGoes("pop", "send")
          /\ sending' = <<Head(list)>> /\ list' = Tail(list)
  /\ UNCHANGED <<created, enc_exit, video_started, pc, filled, sent, freed, leaked>>

\* The packet is handed to RTMP, whatever comes of it, and freed.
Send ==
  /\ SenderGoes("send", "pop")
  /\ sent' = [sent EXCEPT ![sending[1].from] = sending[1].num]
  /\ freed' = freed \cup {sending[1]}
  /\ sending' = <<>>
  /\ UNCHANGED <<list, created, enc_exit, video_started, pc, filled, leaked>>

-----------------------------------------------------------------------------
\* ont_video_live_stream_stop, called by the send thread when its loop ends:
\* the encoder threads are told to exit and waited for, then what is left in
\* the list is freed.
TellEncoders ==
  /\ SenderGoes("stop", "join")
  /\ enc_exit' = TRUE
  /\ UNCHANGED <<list, created, video_started, pc, filled, sending, sent, freed, leaked>>

JoinVideoOnly == pc[Video] = "done" /\ SenderGoes("join", "clear") /\ UNCHANGED pc
JoinAll ==
  /\ \A e \in Encoders : pc[e] = "done"
  /\ SenderGoes("join", "clear")
  /\ UNCHANGED pc

Join ==
  /\ JoinAll
  /\ UNCHANGED <<list, created, enc_exit, video_started, filled, sending, sent,
                 freed, leaked>>

\* g813x_clearqueue, one round of its loop.
Clear ==
  /\ sender = "clear"
  /\ IF list = <<>>
     THEN sender' = "done" /\ UNCHANGED <<list, freed>>
     ELSE freed' = freed \cup {Head(list)} /\ list' = Tail(list) /\ UNCHANGED sender
  /\ UNCHANGED <<created, enc_exit, video_started, pc, filled, sending, sent, leaked>>

-----------------------------------------------------------------------------
Encoder(e) ==
  \/ ReadEncExit(e) \/ NoFrame(e) \/ Fill(e)
  \/ Drop(e) \/ Allocate(e) \/ AllocationFails(e) \/ Insert(e)

Sender == CreateList \/ SenderLoops \/ Pop \/ Send \/ TellEncoders \/ Join \/ Clear

Next == Sender \/ \E e \in Encoders : Encoder(e)

Spec == Init /\ [][Next]_vars

\* The scheduler runs every thread that is not blocked, and gm_poll and
\* select have a timeout.
FairSpec == Spec /\ WF_vars(Sender) /\ \A e \in Encoders : WF_vars(Encoder(e))

-----------------------------------------------------------------------------
(***************************************************************************)
(* The list never holds more than MAX_BUF_SIZE packets and one for each    *)
(* encoder thread: each may have found room and not inserted yet, since    *)
(* the size is read before the lock is taken (send_queue.c:35, 51-53).     *)
(***************************************************************************)
QueueBounded == Len(list) <= MaxBufSize + Cardinality(Encoders)

(***************************************************************************)
(* A buffer an encoder filled is in one place only -- with its encoder, in *)
(* the list, with the send thread, freed, or lost to a failed allocation   *)
(* -- so none is freed twice, none is used once freed, and nothing else    *)
(* leaks, whatever encoders, send thread and stop do at the same time.     *)
(***************************************************************************)
Held == {Current(e) : e \in {d \in Encoders : pc[d] \in {"check", "insert"}}}
Listed == {list[i] : i \in 1..Len(list)}
Taken == {sending[i] : i \in 1..Len(sending)}
Filled == UNION {{[from |-> e, num |-> n] : n \in 1..filled[e]} : e \in Encoders}

BuffersOnce ==
  /\ Held \cup Listed \cup Taken \cup freed \cup leaked = Filled
  /\ Cardinality(Held) + Len(list) + Len(sending) + Cardinality(freed)
       + Cardinality(leaked) = Cardinality(Filled)

(***************************************************************************)
(* The packets of an encoder reach RTMP in the order they were filled,     *)
(* with gaps where the queue was full.                                     *)
(***************************************************************************)
SentInOrder ==
  LET ahead == sending \o list IN
  \A i \in 1..Len(ahead) :
    /\ ahead[i].num > sent[ahead[i].from]
    /\ \A j \in 1..(i - 1) : ahead[j].from = ahead[i].from => ahead[j].num < ahead[i].num

(***************************************************************************)
(* Encoders, list, send thread and stop together are the LossyQueue: each  *)
(* of their steps hands over or gives up at most one buffer, one that is   *)
(* in use and, handed over, is newer than those before; when stop returns, *)
(* no packet is left, so the next stream begins with an empty list, and no *)
(* encoder can add an old picture to it (send_queue.c:31-130,              *)
(* ont_video_play.c:209-392, 616-632).                                     *)
(***************************************************************************)
Promise == INSTANCE LossyQueue WITH
  kept <- Held \cup Listed \cup Taken, gone <- freed \cup leaked,
  ended <- sender = "done"

ImplementsQueue == Promise!Spec

(***************************************************************************)
(* A stream that is told to stop stops: the encoders see enc_exit, and the *)
(* send thread, which waits for them, comes to the end of the list.        *)
(***************************************************************************)
StreamStops == sender = "stop" ~> sender = "done"
=============================================================================
