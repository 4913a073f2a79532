------------------------------- MODULE PlayList --------------------------------
(***************************************************************************)
(* The play list of the sample (src/sample/ont_video_play.c) and its       *)
(* record orders (src/sample/video_record.cpp).                            *)
(*                                                                         *)
(* One list holds the live channels, the remote playbacks and the records  *)
(* that are being written.  The main loop goes round: it receives the      *)
(* platform's requests, closes what has to be closed, starts the records   *)
(* that are due, starts to send those that are complete, and lets every    *)
(* entry and then the event loop make a step.                              *)
(*                                                                         *)
(* What happens inside a live channel is in LiveStream, inside a playback  *)
(* in RvodPlayback; here a channel only fails or does not.                 *)
(***************************************************************************)
EXTENDS Integers, Sequences

CONSTANTS
  NumChannels,  \* cfg_get_channel_num
  Flags,        \* play flags by which the platform names its playbacks
  MaxPackets,   \* bound: packets that wait in a live channel's list
  MaxVods,      \* bound: playbacks that are started
  MaxOrders     \* bound: record orders

ASSUME PlayAssumption ==
  /\ NumChannels \in Nat \ {0} /\ MaxPackets \in Nat
  /\ MaxVods \in Nat /\ MaxOrders \in Nat

Channels == 1..NumChannels
Slots == 1..NumChannels
Vods == 1..MaxVods
NoFlag == "no flag"

VARIABLES
  phase,       \* what the main loop does
  pos,         \* which channel or entry it has come to
  list,        \* g_list
  rtmp,        \* of each channel: rtmp_client is not NULL
  failed,      \* of each channel: state is set, or its stream is late or has timed out
  packets,     \* of each channel: how many packets wait in packDataList
  vods,        \* of each playback: what has become of its session
  records,     \* _g_records
  started,     \* number of playbacks
  orders,      \* number of record orders
  overwritten  \* slots an order for another channel has taken during a record

live == <<rtmp, failed, packets>>
recording == <<records, orders, overwritten>>
playing == <<vods, started>>
vars == <<phase, pos, list, live, playing, recording>>

\* An entry's ctx is the channel, the playback or the slot; only the entries of
\* channels and records have a channel, only those of playbacks a flag.
Entry == [type : {"live", "vod", "record"}, channel : Channels \cup {0},
          flag : Flags \cup {NoFlag}, ctx : Channels \cup Vods \cup Slots,
          closeflag : BOOLEAN]

\* state is 0 (not recording), 2 (recording), 3 (ended) or 4 (sending); intime
\* compares record_starttime and record_endtime with the clock.
Record == [channel : Channels \cup {0}, status : {0, 1, 2}, state : {0, 2, 3, 4},
           intime : BOOLEAN, onvif_ctx : Channels \cup {0},
           file : {"none", "open", "closed"}]

TypeOK ==
  /\ phase \in {"start", "receive", "close", "record", "send", "step", "events"}
  /\ pos \in Nat
  /\ list \in Seq(Entry)
  /\ rtmp \in [Channels -> BOOLEAN] /\ failed \in [Channels -> BOOLEAN]
  /\ packets \in [Channels -> 0..MaxPackets]
  /\ vods \in [Vods -> {"unused", "open", "ended", "freed"}]
  /\ records \in [Slots -> Record]
  /\ started \in 0..MaxVods /\ orders \in 0..MaxOrders
  /\ overwritten \subseteq Slots

NoRecord == [channel |-> 0, status |-> 0, state |-> 0, intime |-> FALSE,
             onvif_ctx |-> 0, file |-> "none"]

\* _g_records is made with the first order; no slot is that of a channel before.
Init ==
  /\ phase = "start" /\ pos = 1
  /\ list = <<>>
  /\ rtmp = [c \in Channels |-> FALSE] /\ failed = [c \in Channels |-> FALSE]
  /\ packets = [c \in Channels |-> 0]
  /\ vods = [v \in Vods |-> "unused"] /\ started = 0
  /\ records = [s \in Slots |-> NoRecord] /\ orders = 0 /\ overwritten = {}

-----------------------------------------------------------------------------
(***************************************************************************)
(* The list and the record slots.  (InsertFirst, KeepFreed, CountLate,     *)
(* ForgetFlag, FlagIgnored, StopOpen and RecordPublished are faulty        *)
(* variants, by which the properties are tried out.)                       *)
(***************************************************************************)
\* ont_list_insert
InsertFirst(e) == list' = <<e>> \o list
Insert(e) == list' = Append(list, e)

\* ont_list_remove
KeepFreed(i) == UNCHANGED list
Remove(i) == list' = [j \in 1..(Len(list) - 1) |-> IF j < i THEN list[j] ELSE list[j + 1]]

\* _ont_record_get_channel finds slot s, or finds none.
Owns(s, c) == records[s].channel = c /\ \A t \in 1..(s - 1) : records[t].channel # c
NoSlot(c) == \A s \in Slots : records[s].channel # c

\* ont_record_intime; rc->stop is never set, since only the lookup of the slot's
\* own channel could fail.
InTime(c) == \E s \in Slots : Owns(s, c) /\ records[s].intime

\* ont_list_find with compareliveFlag: the first entry of the channel.  The
\* platform names the channels the device has added, which begin with 1; 0 is
\* what the entry of a playback has.
Finds(i, c) == list[i].channel = c /\ \A j \in 1..(i - 1) : list[j].channel # c

\* ont_list_find with startfindFlag
Plays(f) == \E i \in DOMAIN list : list[i].flag = f

-----------------------------------------------------------------------------
\* ont_video_live_stream_start for one channel after the other: its camera
\* answers, or it gets no entry.
StartChannel ==
  /\ phase = "start" /\ pos <= NumChannels
  /\ pos' = pos + 1
  /\ \/ Insert([type |-> "live", channel |-> pos, flag |-> NoFlag, ctx |-> pos,
                closeflag |-> FALSE])
     \/ UNCHANGED list
  /\ UNCHANGED <<phase, live, playing, recording>>

Started ==
  /\ phase = "start" /\ pos > NumChannels
  /\ phase' = "receive" /\ pos' = 1
  /\ UNCHANGED <<list, live, playing, recording>>

-----------------------------------------------------------------------------
(***************************************************************************)
(* The platform's requests, and the clock.                                 *)
(***************************************************************************)
\* ont_video_live_stream_rtmp_publish: a channel that is not published yet is
\* connected, or is not; its list is emptied.
Publish(c) ==
  /\ phase = "receive"
  /\ \E i \in DOMAIN list : Finds(i, c) /\ list[i].type = "live"
  /\ ~rtmp[c]
  /\ \E connected \in BOOLEAN : rtmp' = [rtmp EXCEPT ![c] = connected]
  /\ failed' = [failed EXCEPT ![c] = FALSE]
  /\ packets' = [packets EXCEPT ![c] = 0]
  /\ UNCHANGED <<phase, pos, list, playing, recording>>

\* _ont_cmd_live_stream_ctrl, with a level the camera has: its list is emptied.
Control(c) ==
  /\ phase = "receive"
  /\ \E i \in DOMAIN list : Finds(i, c) /\ list[i].type = "live"
  /\ failed' = [failed EXCEPT ![c] = FALSE]
  /\ packets' = [packets EXCEPT ![c] = 0]
  /\ UNCHANGED <<phase, pos, list, rtmp, playing, recording>>

\* ont_vod_start_notify that comes to the end: a flag that is played already is
\* not played again.  One that does not leaves everything as it was.
CountLate(f) ==
  /\ phase = "receive" /\ started < MaxVods
  /\ ~Plays(f)
  /\ Insert([type |-> "vod", channel |-> 0, flag |-> f, ctx |-> started,
             closeflag |-> FALSE])
  /\ started' = started + 1
  /\ vods' = [vods EXCEPT ![started'] = "open"]
  /\ UNCHANGED <<phase, pos, live, recording>>
ForgetFlag(f) ==
  /\ phase = "receive" /\ started < MaxVods
  /\ started' = started + 1
  /\ vods' = [vods EXCEPT ![started'] = "open"]
  /\ Insert([type |-> "vod", channel |-> 0, flag |-> f, ctx |-> started',
             closeflag |-> FALSE])
  /\ UNCHANGED <<phase, pos, live, recording>>
VodStart(f) ==
  /\ phase = "receive" /\ started < MaxVods
  /\ ~Plays(f)
  /\ started' = started + 1
  /\ vods' = [vods EXCEPT ![started'] = "open"]
  /\ Insert([type |-> "vod", channel |-> 0, flag |-> f, ctx |-> started',
             closeflag |-> FALSE])
  /\ UNCHANGED <<phase, pos, live, recording>>

\* ont_record_channel_cmd_update: a channel without a slot takes the first.
Order(c, status) ==
  /\ phase = "receive" /\ orders < MaxOrders
  /\ orders' = orders + 1
  /\ \E s \in Slots :
       /\ Owns(s, c) \/ (NoSlot(c) /\ s = 1)
       /\ records' = [records EXCEPT ![s].channel = c, ![s].status = status,
                                     ![s].intime = (status # 2) \/ @]
       /\ overwritten' = overwritten \cup
            IF records[s].file = "open" /\ records[s].onvif_ctx # c THEN {s} ELSE {}
  /\ UNCHANGED <<phase, pos, list, live, playing>>

\* A record's time is over.
Expire(s) ==
  /\ records[s].intime
  /\ records' = [records EXCEPT ![s].intime = FALSE]
  /\ UNCHANGED <<phase, pos, list, live, playing, orders, overwritten>>

\* The main loop begins a new session, and with it sets the clock.
ClockSet ==
  /\ phase = "receive"
  /\ \E s \in Slots :
       /\ records[s].status # 0
       /\ records' = [records EXCEPT ![s].intime = ~@]
  /\ UNCHANGED <<phase, pos, list, live, playing, orders, overwritten>>

ReceiveEnds ==
  /\ phase = "receive"
  /\ phase' = "close" /\ pos' = 1
  /\ UNCHANGED <<list, live, playing, recording>>

-----------------------------------------------------------------------------
(***************************************************************************)
(* _checkneedclose: as long as there is an entry to be closed, the first   *)
(* of them is.                                                             *)
(***************************************************************************)
\* _checkcloseFlag.  A record's context is taken for a live one, whose
\* rtmp_client is where a record has its channel: it is never NULL.
FlagIgnored(e) ==
  \/ e.type = "vod" /\ vods[e.ctx] = "ended"
  \/ e.type = "live" /\ failed[e.channel]
  \/ e.type = "record" /\ (records[e.ctx].channel # 0 \/ ~InTime(e.channel))
NeedsClose(e) ==
  \/ e.closeflag
  \/ e.type = "vod" /\ vods[e.ctx] = "ended"
  \/ e.type = "live" /\ failed[e.channel]
  \/ e.type = "record" /\ (records[e.ctx].channel # 0 \/ ~InTime(e.channel))

First(i) == NeedsClose(list[i]) /\ \A j \in 1..(i - 1) : ~NeedsClose(list[j])

\* ont_onvifdevice_rtmp_stop; the entry is kept.
CloseLive(i) ==
  /\ list[i].type = "live"
  /\ rtmp' = [rtmp EXCEPT ![list[i].channel] = FALSE]
  /\ failed' = [failed EXCEPT ![list[i].channel] = FALSE]
  /\ UNCHANGED <<list, packets, playing, recording>>

\* rtmp_rvod_stop, and all that belongs to the playback is freed.
CloseVod(i) ==
  /\ list[i].type = "vod"
  /\ vods' = [vods EXCEPT ![list[i].ctx] = "freed"]
  /\ Remove(i)
  /\ UNCHANGED <<started, live, recording>>

\* ont_record_stop: the record of the entry's channel is closed, if a slot is
\* that channel's.
StopOpen(i) ==
  /\ list[i].type = "record"
  /\ Remove(i)
  /\ \/ \E s \in Slots :
          /\ Owns(s, list[i].channel)
          /\ records' = [records EXCEPT ![s].state = 3]
     \/ NoSlot(list[i].channel) /\ UNCHANGED records
  /\ UNCHANGED <<live, playing, orders, overwritten>>
CloseRecord(i) ==
  /\ list[i].type = "record"
  /\ Remove(i)
  /\ \/ \E s \in Slots :
          /\ Owns(s, list[i].channel)
          /\ records' = [records EXCEPT ![s].state = 3, ![s].file = "closed"]
     \/ NoSlot(list[i].channel) /\ UNCHANGED records
  /\ UNCHANGED <<live, playing, orders, overwritten>>

CloseFirst ==
  /\ phase = "close"
  /\ \E i \in DOMAIN list : First(i) /\ (CloseLive(i) \/ CloseVod(i) \/ CloseRecord(i))
  /\ UNCHANGED <<phase, pos>>

NoneToClose ==
  /\ phase = "close"
  /\ \A i \in DOMAIN list : ~NeedsClose(list[i])
  /\ phase' = "record" /\ pos' = 1
  /\ UNCHANGED <<list, live, playing, recording>>

-----------------------------------------------------------------------------
(***************************************************************************)
(* _checkneedrecord: as long as a channel has a record to be started, it   *)
(* is.                                                                     *)
(***************************************************************************)
\* _check_need_record and ont_record_check
RecordPublished(e) ==
  /\ e.type = "live"
  /\ \E s \in Slots : Owns(s, e.channel) /\ records[s].intime /\ records[s].state < 2
RecordDue(e) ==
  /\ e.type = "live" /\ ~rtmp[e.channel]
  /\ \E s \in Slots : Owns(s, e.channel) /\ records[s].intime /\ records[s].state < 2

\* ont_record_start, and an entry for the record
StartRecord ==
  /\ phase = "record"
  /\ \E i \in DOMAIN list, s \in Slots :
       LET c == list[i].channel IN
       /\ RecordDue(list[i])
       /\ \A j \in 1..(i - 1) : ~RecordDue(list[j])
       /\ Owns(s, c)
       /\ records' = [records EXCEPT ![s].state = 2, ![s].onvif_ctx = c,
                                     ![s].file = "open"]
       /\ Insert([type |-> "record", channel |-> c, flag |-> NoFlag, ctx |-> s,
                  closeflag |-> FALSE])
  /\ UNCHANGED <<phase, pos, live, playing, orders, overwritten>>

NoneToRecord ==
  /\ phase = "record"
  /\ \A i \in DOMAIN list : ~RecordDue(list[i])
  /\ phase' = "send" /\ pos' = 1
  /\ UNCHANGED <<list, live, playing, recording>>

\* _check_send_record for one channel after the other.  A record that has ended
\* is sent if its file can be read and the platform be reached; the entry that
\* is made for it is not put into the list.
SendRecord ==
  /\ phase = "send" /\ pos <= NumChannels
  /\ pos' = pos + 1
  /\ \/ \E s \in Slots :
          /\ Owns(s, pos) /\ records[s].state = 3
          /\ records' = [records EXCEPT ![s].state = 4]
     \/ UNCHANGED records
  /\ UNCHANGED <<phase, list, live, playing, orders, overwritten>>

SendEnds ==
  /\ phase = "send" /\ pos > NumChannels
  /\ phase' = "step" /\ pos' = 1
  /\ UNCHANGED <<list, live, playing, recording>>

-----------------------------------------------------------------------------
(***************************************************************************)
(* ont_list_foreach with _listsinglestep, and the event loop.              *)
(***************************************************************************)
\* A playback goes on, is at its end, is stopped by the platform, or fails.
StepVod ==
  /\ list[pos].type = "vod"
  /\ \/ vods' = [vods EXCEPT ![list[pos].ctx] = "ended"] /\ UNCHANGED list
     \/ list' = [list EXCEPT ![pos].closeflag = TRUE] /\ UNCHANGED vods
     \/ UNCHANGED <<list, vods>>
  /\ UNCHANGED <<live, started, recording>>

\* ont_record_singlestep: some of the packets of the live channel are taken,
\* and written or discarded; an old one makes the channel's state 1.
StepRecord ==
  /\ list[pos].type = "record"
  /\ LET c == records[list[pos].ctx].onvif_ctx IN
       \/ /\ packets[c] > 0
          /\ \E left \in 0..(packets[c] - 1) : packets' = [packets EXCEPT ![c] = left]
          /\ \E old \in BOOLEAN : failed' = [failed EXCEPT ![c] = @ \/ old]
       \/ packets[c] = 0 /\ UNCHANGED <<packets, failed>>
  /\ UNCHANGED <<list, rtmp, playing, recording>>

StepLive ==
  /\ list[pos].type = "live"
  /\ UNCHANGED <<list, live, playing, recording>>

StepEntry ==
  /\ phase = "step" /\ pos \in DOMAIN list
  /\ StepVod \/ StepRecord \/ StepLive
  /\ pos' = pos + 1 /\ UNCHANGED phase

StepsEnd ==
  /\ phase = "step" /\ pos \notin DOMAIN list
  /\ phase' = "events" /\ pos' = 1
  /\ UNCHANGED <<list, live, playing, recording>>

\* ont_onvifdevice_live_stream_singlestep: a channel gets a frame, sends a packet,
\* or fails, if it is one of the list's.
Events ==
  /\ phase = "events"
  /\ phase' = "receive" /\ pos' = 1
  /\ \/ \E i \in DOMAIN list :
          LET c == list[i].channel IN
          /\ list[i].type = "live"
          /\ \/ packets[c] < MaxPackets /\ packets' = [packets EXCEPT ![c] = @ + 1]
             \/ packets[c] > 0 /\ rtmp[c] /\ packets' = [packets EXCEPT ![c] = @ - 1]
             \/ UNCHANGED packets
          /\ \E fails \in BOOLEAN : failed' = [failed EXCEPT ![c] = @ \/ fails]
     \/ UNCHANGED <<packets, failed>>
  /\ UNCHANGED <<list, rtmp, playing, recording>>

-----------------------------------------------------------------------------
Requests ==
  \/ \E c \in Channels : Publish(c) \/ Control(c)
  \/ \E f \in Flags : VodStart(f)
  \/ \E c \in Channels, status \in {1, 2} : Order(c, status)

Time == ClockSet \/ \E s \in Slots : Expire(s)

\* ont_video_playlist_singlestep, after what comes before
Round ==
  \/ StartChannel \/ Started \/ ReceiveEnds
  \/ CloseFirst \/ NoneToClose
  \/ StartRecord \/ NoneToRecord
  \/ SendRecord \/ SendEnds
  \/ StepEntry \/ StepsEnd \/ Events

Next == Requests \/ Time \/ Round

Spec == Init /\ [][Next]_vars

\* The main loop goes on.
FairSpec == Spec /\ WF_vars(Round)

-----------------------------------------------------------------------------
(***************************************************************************)
(* Properties                                                              *)
(***************************************************************************)
\* A request for a channel reaches the channel's live entry and never, by the
\* channel they have in common, the context of a record of it: ont_list_find
\* looks at the channel only, and takes the first.
LiveFound ==
  \A i \in DOMAIN list : list[i].channel # 0 =>
    \E j \in 1..i : Finds(j, list[i].channel) /\ list[j].type = "live"

\* The packets of a channel have one taker: when entries make their steps, a
\* channel whose packets are recorded is not published, though publications
\* arrive while records are being written.
OneConsumer ==
  phase \in {"send", "step", "events"} =>
    \A i \in DOMAIN list :
      list[i].type = "record" => ~rtmp[records[list[i].ctx].onvif_ctx]

\* A playback's session is open as long as it has an entry, which is the only
\* one of its flag: none is left open, and none is used after it has been freed.
SessionsListed ==
  /\ \A v \in Vods :
       vods[v] \in {"open", "ended"} <=>
       \E i \in DOMAIN list : list[i].type = "vod" /\ list[i].ctx = v
  /\ \A i, j \in DOMAIN list :
       (list[i].type = "vod" /\ list[j].type = "vod" /\ list[i].flag = list[j].flag) => i = j

\* A record's file is read for sending only when it has been closed, and it is
\* open only as long as the record has an entry; unless meanwhile an order for another
\* channel has taken the slot, whose file nobody closes then.
FilesClosed ==
  \A s \in Slots :
    /\ records[s].state \in {3, 4} => records[s].file = "closed"
    /\ records[s].file = "open" =>
         \/ s \in overwritten
         \/ \E i \in DOMAIN list : list[i].type = "record" /\ list[i].ctx = s

Stopped(v) == \E i \in DOMAIN list :
  list[i].type = "vod" /\ list[i].ctx = v /\ list[i].closeflag

\* A playback that the platform has stopped, that has failed or that has come to
\* its end is closed: whatever else is in the list, the loops of a round end.
StopServed == \A v \in Vods : (Stopped(v) \/ vods[v] = "ended") ~> vods[v] = "freed"

\* "seconds: when status is 1, the length of the record" (device.h:119): a record
\* is ended when its time is over, when the platform says so or the channel is
\* published, or when its slot is taken.
RecordLasts ==
  [][\A i \in DOMAIN list :
       LET e == list[i] IN
       (e.type = "record" /\ ~\E j \in DOMAIN list' : list'[j] = e) =>
         \/ e.closeflag \/ rtmp[e.channel] \/ e.ctx \in overwritten
         \/ ~records[e.ctx].intime \/ records[e.ctx].status = 2]_vars
=============================================================================
