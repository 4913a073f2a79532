----------------------------- MODULE RvodPlayback -----------------------------
(***************************************************************************)
(* The remote playback of one MP4 file by the sample                       *)
(* (src/sample/video_rvod_mp4.c, the RVOD half of ont_packet_queue.cpp,    *)
(* and what ont_video_play.c does with a playback in each of its rounds).  *)
(*                                                                         *)
(* A round first hands one packet of the queue to RTMP (rtmp_rvod_select), *)
(* then does rtmp_rvod_mp4_send_media_singlestep -- which reads what the   *)
(* server has to say and queues the samples that are due of both tracks -- *)
(* and ends by closing the playback if need be.  All this is one thread;   *)
(* the server's notices arrive between any two of its steps.               *)
(*                                                                         *)
(* Time is abstract: whether the samples of a track are due is left open,  *)
(* except at the start and after a seek, when they are.                    *)
(***************************************************************************)
EXTENDS Integers, Sequences, FiniteSets

CONSTANTS
  Files,           \* the files there are
  SendMaxFrames,   \* send_max_frames
  PackBufferSize,  \* PACK_BUFFER_SIZE
  Notices,         \* what the server may say: "pause", "resume", "seek",
                   \* "seek_here" (to start_timestamp), "stop"
  Disconnects,     \* can the RTMP connection break?
  MaxNotices       \* bound: notices the server sends

Tracks == {"video", "audio"}

\* Of a file: the number of samples of each track (ids begin with 1), those
\* that MP4ReadSample cannot read, and the pairs of samples that a time one
\* may seek stands for (for a track without samples, 0).
File == [samples : [Tracks -> Nat],
         unreadable : [Tracks -> SUBSET Nat],
         targets : SUBSET [Tracks -> Nat]]

ASSUME RvodAssumption ==
  /\ Files \subseteq File
  /\ \A f \in Files : f.samples["video"] > 0
  /\ \A f \in Files : \A s \in f.targets : \A t \in Tracks :
       s[t] \in 1..f.samples[t] \cup {f.samples[t]}
  /\ SendMaxFrames \in Nat /\ PackBufferSize \in Nat /\ MaxNotices \in Nat
  /\ Notices \subseteq {"pause", "resume", "seek", "seek_here", "stop"}
  /\ Disconnects \in BOOLEAN

VARIABLES
  file,       \* the file that is played
  pc,         \* where the round is
  next,       \* next_videosampleid and next_audiosampleid
  queue,      \* packDataList
  paused, stoped,
  sendmeta,   \* the tracks whose sendmeta is 1: their headers have been sent
  overdue,    \* the tracks whose last_..timestamp is 0
  state,      \* 1: the end has been announced
  closeflag,
  connected,  \* has librtmp its socket?  It closes it when sending or reading fails
  inbox,      \* notices the server has sent and the device has not read
  notices,    \* number of notices sent
  from,       \* the samples playback began at, or went to by the last seek
  sent,       \* per track, the samples handed to RTMP since then
  lost        \* per track, the samples discarded since then

player == <<next, queue, paused, stoped, sendmeta, overdue, state, closeflag>>
server == <<connected, inbox, notices>>
film == <<file, from, sent, lost>>
vars == <<pc, player, server, film>>

\* A packet is a sample of a track or the mark of the end, with a ctl that
\* holds its own id and the next id of the other track.
Packet == [codec : Tracks \cup {"none"}, ctl : [Tracks -> Nat]]

Samples == file.samples

TypeOK ==
  /\ file \in Files
  /\ pc \in {"select", "step", "receive", "seeking", "video", "audio", "close", "closed"}
  /\ \A t \in Tracks : next[t] \in 1..(Samples[t] + 1) \cup {Samples[t]}
  /\ queue \in Seq(Packet) /\ Len(queue) <= PackBufferSize + 1
  /\ paused \in BOOLEAN /\ stoped \in BOOLEAN /\ connected \in BOOLEAN
  /\ sendmeta \subseteq Tracks /\ overdue \subseteq Tracks
  /\ state \in {0, 1} /\ closeflag \in {0, 1}
  /\ inbox \in Seq(Notices) /\ notices \in 0..MaxNotices
  /\ \A t \in Tracks : \A x \in sent[t] \cup lost[t] : x \in from[t]..Samples[t]

\* rtmp_rvod_mp4_start, which sends the file's description.
Init ==
  /\ file \in Files /\ pc = "select"
  /\ next = [t \in Tracks |-> 1] /\ queue = <<>>
  /\ paused = FALSE /\ stoped = FALSE
  /\ sendmeta = {} /\ overdue = Tracks /\ state = 0 /\ closeflag = 0
  /\ connected \in {TRUE, ~Disconnects} /\ inbox = <<>> /\ notices = 0
  /\ from = next
  /\ sent = [t \in Tracks |-> {}] /\ lost = [t \in Tracks |-> {}]

-----------------------------------------------------------------------------
Goto(a, b) == pc = a /\ pc' = b

\* The test for the end, of the next samples and of a packet's ctl.
\* (AtEndOfEither, AtEndExactly, RoomForOneMore, QueueKept and CtlTooFar are
\* faulty variants, by which the properties are tried out.)
AtEndOfEither(ids) == \E t \in Tracks : ids[t] >= Samples[t]
AtEndExactly(ids) == \A t \in Tracks : ids[t] = Samples[t]
AtEnd(ids) == \A t \in Tracks : ids[t] >= Samples[t]

\* librtmp closes the socket, and forgets it.
Breaks ==
  /\ Disconnects /\ connected
  /\ connected' = FALSE /\ inbox' = <<>>
  /\ UNCHANGED notices

\* rtmp_rvod_select finds that the socket takes nothing, or there is none, or
\* nothing to send.
SelectNothing ==
  /\ Goto("select", "step")
  /\ UNCHANGED <<player, server, film>>

\* RTMPRvodPackDequeue: the end is announced, a picture is sent, after its
\* headers, or sound is, unless no picture has been sent yet.  That a send
\* failed is not looked at.
Dequeue ==
  /\ Goto("select", "step") /\ connected
  /\ queue # <<>> /\ ~paused
  /\ queue' = Tail(queue)
  /\ LET p == Head(queue)  t == p.codec IN
     IF AtEnd(p.ctl)
     THEN state' = 1 /\ UNCHANGED <<sendmeta, sent, lost>>
     ELSE /\ sendmeta' = sendmeta \cup {t}
          /\ IF t = "video" \/ "video" \in sendmeta
             THEN sent' = [sent EXCEPT ![t] = @ \cup {p.ctl[t]}] /\ UNCHANGED lost
             ELSE lost' = [lost EXCEPT ![t] = @ \cup {p.ctl[t]}] /\ UNCHANGED sent
          /\ UNCHANGED state
  /\ UNCHANGED server \/ Breaks
  /\ UNCHANGED <<next, paused, stoped, overdue, closeflag, file, from>>

-----------------------------------------------------------------------------
\* RTMPPackEnqueue of several packets: those that find the list full are
\* discarded.
RoomForOneMore == IF Len(queue) > PackBufferSize + 1 THEN 0 ELSE PackBufferSize + 2 - Len(queue)
Room == IF Len(queue) > PackBufferSize THEN 0 ELSE PackBufferSize + 1 - Len(queue)
Least(a, b) == IF a < b THEN a ELSE b

\* singlestep when all samples are queued: the mark of the end is queued,
\* nothing is read from the server, and nobody asks for the connection.
StepAtEnd ==
  /\ AtEnd(next)
  /\ Goto("step", "close")
  /\ queue' = queue \o SubSeq(<<[codec |-> "none", ctl |-> next]>>, 1, Least(1, Room))
  /\ UNCHANGED <<next, paused, stoped, sendmeta, overdue, state, closeflag, server, film>>

\* singlestep fails without a connection, else it asks for notices.
StepBegins ==
  /\ ~AtEnd(next)
  /\ Goto("step", IF connected THEN "receive" ELSE "close")
  /\ closeflag' = IF connected THEN closeflag ELSE 1
  /\ UNCHANGED <<next, queue, paused, stoped, sendmeta, overdue, state, server, film>>

Read(n) == pc = "receive" /\ inbox # <<>> /\ Head(inbox) = n /\ inbox' = Tail(inbox)

PauseNotify(n) ==
  /\ Read(n)
  /\ paused' = (n = "pause")
  /\ UNCHANGED <<pc, next, queue, stoped, sendmeta, overdue, state, closeflag,
                 connected, notices, film>>

StopNotify ==
  /\ Read("stop")
  /\ stoped' = TRUE
  /\ UNCHANGED <<pc, next, queue, paused, sendmeta, overdue, state, closeflag,
                 connected, notices, film>>

\* rtmp_rvod_mp4_seek_notify.  In a file without sound no time, however
\* early, has a sample of the second track, and the loop that looks for one
\* has no other end.
QueueKept == UNCHANGED queue
ClearQueue == queue' = <<>>

Seek(target) ==
  /\ Read("seek")
  /\ pc' = IF Samples["audio"] = 0 THEN "seeking" ELSE pc
  /\ sendmeta' = {} /\ overdue' = Tracks
  /\ ClearQueue
  /\ next' = target
  /\ from' = target
  /\ sent' = [t \in Tracks |-> {}] /\ lost' = [t \in Tracks |-> {}]
  /\ UNCHANGED <<paused, stoped, state, closeflag, connected, notices, file>>

\* ... to the time of the last pause, resume or seek, or to 0 before any: only
\* the headers are due again.
SeekHere ==
  /\ Read("seek_here")
  /\ sendmeta' = {}
  /\ UNCHANGED <<pc, next, queue, paused, stoped, overdue, state, closeflag,
                 connected, notices, film>>

\* rtmp_check_rcv_handler has read what has arrived.
Received ==
  /\ Goto("receive", IF paused \/ stoped THEN "close" ELSE "video")
  /\ closeflag' = IF ~paused /\ stoped THEN 1 ELSE closeflag
  /\ UNCHANGED <<next, queue, paused, stoped, sendmeta, overdue, state, server, film>>

-----------------------------------------------------------------------------
\* The ctl of the i-th sample read of track t.
CtlTooFar(t, i) == [next EXCEPT ![t] = @ + i]
CtlOf(t, i) == [next EXCEPT ![t] = @ + i - 1]

\* The next samples of a track are read and queued: at most SendMaxFrames + 1,
\* up to the last one, or up to one that cannot be read.
Readable(t) ==
  LET ids == next[t]..Least(next[t] + SendMaxFrames, Samples[t]) IN
  {x \in ids : \A y \in next[t]..x : y \notin file.unreadable[t]}

Fill(t, to) ==
  /\ Goto(t, to)
  /\ LET n == Cardinality(Readable(t))
         kept == Least(n, Room)
         read == [i \in 1..kept |-> [codec |-> t, ctl |-> CtlOf(t, i)]] IN
     /\ queue' = queue \o read
     /\ lost' = [lost EXCEPT ![t] = @ \cup (next[t] + kept)..(next[t] + n - 1)]
     /\ next' = [next EXCEPT ![t] = @ + n]
     /\ overdue' = IF n > 0 THEN overdue \ {t} ELSE overdue
  /\ UNCHANGED <<paused, stoped, sendmeta, state, closeflag, server, file, from, sent>>

\* The last sample's time is still to come.
NotDue(t, to) ==
  /\ t \notin overdue
  /\ Goto(t, to)
  /\ UNCHANGED <<player, server, film>>

\* _checkneedclose, at the end of the round.
Close ==
  /\ Goto("close", IF closeflag = 1 \/ state = 1 THEN "closed" ELSE "select")
  /\ UNCHANGED <<player, server, film>>

-----------------------------------------------------------------------------
\* The server, and the connection.
ServerSends ==
  /\ connected /\ notices < MaxNotices
  /\ \E n \in Notices : inbox' = Append(inbox, n)
  /\ notices' = notices + 1
  /\ UNCHANGED <<pc, player, connected, film>>

\* Reading the server's notices fails.
Disconnect ==
  /\ pc = "receive" /\ Breaks
  /\ UNCHANGED <<pc, player, film>>

FillVideo == Fill("video", "audio")
FillAudio == Fill("audio", "close")

Notified ==
  \/ PauseNotify("pause") \/ PauseNotify("resume") \/ StopNotify
  \/ SeekHere \/ \E s \in file.targets : Seek(s)

Round ==
  \/ SelectNothing \/ Dequeue
  \/ StepAtEnd \/ StepBegins \/ Notified \/ Received
  \/ FillVideo \/ NotDue("video", "audio")
  \/ FillAudio \/ NotDue("audio", "close")
  \/ Close

Next == Round \/ ServerSends \/ Disconnect

Spec == Init /\ [][Next]_vars

(***************************************************************************)
(* The main loop keeps going round, the socket takes data again and again, *)
(* notices that have arrived are read, and time passes, so that every      *)
(* sample becomes due.                                                     *)
(***************************************************************************)
Fairness ==
  /\ WF_vars(Round)
  /\ SF_vars(Dequeue) /\ SF_vars(Notified)
  /\ SF_vars(FillVideo) /\ SF_vars(FillAudio)

FairSpec == Spec /\ Fairness

-----------------------------------------------------------------------------
Queued(t) == {queue[i].ctl[t] : i \in {j \in 1..Len(queue) : queue[j].codec = t}}

(***************************************************************************)
(* Since the start or the last seek, every sample of a track up to the     *)
(* next one was sent, is queued, or was discarded by a full list or for    *)
(* want of a first picture: none is skipped and none is there twice        *)
(* (video_rvod_mp4.c:533-537, 572-577, ont_packet_queue.cpp:80-126).  The  *)
(* packet that stands for the end takes its sample with it, hence state.   *)
(***************************************************************************)
SamplesAccounted ==
  \A t \in Tracks :
    /\ state = 0 => sent[t] \cup Queued(t) \cup lost[t] = from[t]..(next[t] - 1)
    /\ Queued(t) \cap (sent[t] \cup lost[t]) = {} /\ sent[t] \cap lost[t] = {}

(***************************************************************************)
(* The samples of a track are sent in order: what waits in the list comes  *)
(* after what was sent, also after a seek; and the first picture sent is   *)
(* the key picture that was looked for, so that a player can decode what   *)
(* follows.                                                                *)
(***************************************************************************)
PlayedInOrder ==
  /\ \A t \in Tracks : \A i \in 1..Len(queue) : queue[i].codec = t =>
       /\ \A x \in sent[t] : x < queue[i].ctl[t]
       /\ \A j \in 1..(i - 1) : queue[j].codec = t => queue[j].ctl[t] < queue[i].ctl[t]
  /\ sent["video"] # {} => from["video"] \in sent["video"]

(***************************************************************************)
(* What the server gets is the Playback: whatever the list drops, however  *)
(* notices and rounds interleave, each sample that is sent is the next one *)
(* of its track that was not discarded, sound waits for the first picture, *)
(* and the end, announced once, never cuts more than the last sample of    *)
(* each track; after it nothing is sent (video_rvod_mp4.c:475-577,         *)
(* 706-740, ont_packet_queue.cpp:80-126, 262-380).                         *)
(***************************************************************************)
Promise == INSTANCE Playback WITH
  samples <- file.samples, played <- sent, dropped <- lost, over <- state = 1

ImplementsPlayback == Promise!Spec

(***************************************************************************)
(* "check if both video and audio send finished" (video_rvod_mp4.c:581):   *)
(* when the end is announced, every sample has been sent.                  *)
(***************************************************************************)
BothFinished ==
  state = 1 => \A t \in Tracks : from[t]..Samples[t] \subseteq sent[t] \cup lost[t]

(***************************************************************************)
(* A playback comes to an end and is closed, whatever the server says and  *)
(* the list drops, and also when its connection breaks (video_rvod_mp4.c:  *)
(* 476-592), unless it is left paused, seeks in a file without sound, or   *)
(* loses the connection after the last sample was read: then nothing is    *)
(* sent any more, the end mark neither, and nobody notices.                *)
(***************************************************************************)
Forgotten == ~connected /\ AtEnd(next)

PlaybackEnds ==
  \/ <>[]paused \/ <>(pc = "seeking") \/ <>[]Forgotten
  \/ <>(pc = "closed")
=============================================================================
