------------------------------ MODULE LiveStream -------------------------------
(***************************************************************************)
(* One live channel of the sample: the camera's RTSP source, the list of   *)
(* packets (the live half of src/sample/ont_packet_queue.cpp), and the     *)
(* RTMP connection the platform asks for (src/sample/ont_video_play.c,     *)
(* src/sample/onvif/ont_onvif_impl.cpp).                                   *)
(*                                                                         *)
(* The source runs from the program's start.  Its frames are queued        *)
(* whether or not the channel is published; once it is, a handler of the   *)
(* event loop takes a packet whenever the socket can be written.  All this *)
(* is one thread: in each round the main loop receives the platform's      *)
(* requests, closes the streams that have to be closed, and lets the event *)
(* loop make one step: one handler, then one delayed task.                 *)
(***************************************************************************)
EXTENDS Integers, Sequences

CONSTANTS
  PackBufferSize,  \* PACK_BUFFER_SIZE
  MaxPublishes,    \* bound: connections the platform asks for
  MaxParams,       \* bound: parameter sets the camera uses
  MaxControls      \* bound: times the platform changes the picture's quality or
                   \* sets back the clock

ASSUME LiveAssumption ==
  /\ PackBufferSize \in Nat /\ MaxPublishes \in Nat /\ MaxParams \in Nat \ {0}
  /\ MaxControls \in Nat

VARIABLES
  turn,       \* what the main loop does: "receive", "select" or "alarm"
  open,       \* does the source deliver frames?
  camera,     \* the parameter sets its pictures are coded with, by number
  latest,     \* latestSps and latestPps of the sink, 0 if it has none
  changed,    \* spspps_changed
  heard,      \* last_rcvts > 0
  silent,     \* last_rcvts is more than five seconds ago
  idle,       \* last_sndts is more than five seconds ago
  queue,      \* packDataList
  ahead,      \* number of its packets whose sndts may be past last_sndts
  rtmp,       \* rtmp_client: the number of the connection, 0 for NULL
  broken,     \* is the connection lost?
  timedout,   \* sb_timedout, of the last read when the connection was made
  dead,       \* has a send failed, and librtmp closed the socket?
  fdlost,     \* is ctx->fd -1?
  watching,   \* is the handler set for the connection's socket?
  stale,      \* is it still set for the socket of an earlier one?
  key_send,
  sendmeta,   \* sendmeta[0]; what [1] asks for, the sound's own header, is left out
  state,      \* TRUE: need stop
  crashed,    \* has NULL been taken for a connection?
  published, controls,  \* what the bounds count
  shown,      \* the parameter sets last sent on this connection, 0 if none
  last,       \* the packet last sent on this connection: what it is coded with,
              \* and when it was captured
  missed,     \* parameter sets that went with a packet that was discarded, or
              \* timed out
  overtaken   \* was a frame queued, or the level changed, between a failed send
              \* and the close of its stream?

source == <<open, camera, latest, changed>>
times == <<heard, silent, idle>>
packets == <<queue, ahead>>
connection == <<rtmp, broken, timedout, dead>>
handler == <<fdlost, watching, stale>>
sending == <<key_send, sendmeta, state, crashed>>
counts == <<published, controls>>
viewer == <<shown, last, missed>>
vars == <<turn, source, times, packets, connection, handler, sending, counts,
          viewer, overtaken>>

Params == 1..MaxParams

\* A packet: a key picture, another picture, or sound; what a key picture is
\* coded with; whether the parameter sets go with it (mspd); the connection there
\* was when it was captured.
Packet == [kind : {"key", "delta", "audio"}, params : Params \cup {0}, mspd : BOOLEAN,
           at : 0..MaxPublishes]
None == [params |-> -1]

TypeOK ==
  /\ turn \in {"receive", "select", "alarm"} /\ overtaken \in BOOLEAN
  /\ open \in BOOLEAN /\ camera \in Params /\ latest \in Params \cup {0}
  /\ changed \in BOOLEAN
  /\ heard \in BOOLEAN /\ silent \in BOOLEAN /\ idle \in BOOLEAN
  /\ queue \in Seq(Packet) /\ Len(queue) <= PackBufferSize + 1
  /\ ahead \in 0..Len(queue)
  /\ rtmp \in 0..MaxPublishes /\ broken \in BOOLEAN
  /\ timedout \in BOOLEAN /\ dead \in BOOLEAN
  /\ fdlost \in BOOLEAN /\ watching \in BOOLEAN /\ stale \in BOOLEAN
  /\ key_send \in BOOLEAN /\ sendmeta \in BOOLEAN
  /\ state \in BOOLEAN /\ crashed \in BOOLEAN
  /\ published \in 0..MaxPublishes /\ controls \in 0..MaxControls
  /\ shown \in Params \cup {0}
  /\ last \in [params : Params \cup {0}, at : 0..MaxPublishes] \cup {None}
  /\ missed \subseteq Params

\* What openURL comes to later on: no frames, or a sink that is told the
\* parameter sets (params), or one that is not, with spspps_changed not
\* initialised.
Opened(params) ==
  {<<FALSE, 0, FALSE>>, <<TRUE, params, TRUE>>, <<TRUE, 0, TRUE>>, <<TRUE, 0, FALSE>>}

\* ont_video_live_stream_start
Init ==
  /\ turn = "receive" /\ overtaken = FALSE
  /\ camera = 1
  /\ \E s \in Opened(1) : open = s[1] /\ latest = s[2] /\ changed = s[3]
  /\ heard = FALSE /\ silent = FALSE /\ idle = FALSE
  /\ queue = <<>> /\ ahead = 0
  /\ rtmp = 0 /\ broken = FALSE /\ timedout = FALSE /\ dead = FALSE
  /\ fdlost = FALSE /\ watching = FALSE /\ stale = FALSE
  /\ key_send = FALSE /\ sendmeta = FALSE /\ state = FALSE /\ crashed = FALSE
  /\ published = 0 /\ controls = 0
  /\ shown = 0 /\ last = None /\ missed = {}

-----------------------------------------------------------------------------
\* Where the main loop is, and its going on.
At(t) == ~crashed /\ turn = t
Goes == turn' = [receive |-> "select", select |-> "alarm", alarm |-> "receive"][turn]

-----------------------------------------------------------------------------
(***************************************************************************)
(* The camera, the network and the time.  What happens during the event    *)
(* loop's step is seen in the next one.                                    *)
(***************************************************************************)
\* The camera changes its parameter sets.
CameraChanges ==
  /\ At("receive")
  /\ open /\ camera < MaxParams /\ camera' = camera + 1
  /\ UNCHANGED <<turn, open, latest, changed, times, packets, connection, handler,
                 sending, counts, viewer, overtaken>>

\* Five seconds go by without a frame.
Stall ==
  /\ At("receive")
  /\ ~idle /\ idle' = TRUE /\ silent' = heard
  /\ UNCHANGED <<turn, source, heard, packets, connection, handler, sending,
                 counts, viewer, overtaken>>

\* A new session with the platform takes over its time, which is behind.
ClockBack ==
  /\ At("receive")
  /\ controls < MaxControls /\ controls' = controls + 1
  /\ ahead' = Len(queue)
  /\ idle' = FALSE /\ silent' = FALSE
  /\ UNCHANGED <<turn, source, heard, queue, connection, handler, sending,
                 published, viewer, overtaken>>

Break ==
  /\ At("receive")
  /\ rtmp # 0 /\ ~broken /\ broken' = TRUE
  /\ UNCHANGED <<turn, source, times, packets, rtmp, timedout, dead, handler, sending,
                 counts, viewer, overtaken>>

-----------------------------------------------------------------------------
(***************************************************************************)
(* RTMPLivePackEnqueue                                                     *)
(***************************************************************************)
\* (FullLater, NoHandler and the like are faulty variants, by which the
\* properties are tried out.)
FullLater == Len(queue) > PackBufferSize + 1
Full == Len(queue) > PackBufferSize

\* ont_set_rtmp_packet_handle: a connection whose socket librtmp has closed
\* has the descriptor -1, for which no handler can be set.
NoHandler == UNCHANGED <<fdlost, watching>>
SetHandler ==
  IF rtmp = 0 THEN UNCHANGED <<fdlost, watching>>
  ELSE fdlost' = dead /\ watching' = (watching \/ ~dead)

Enqueue(p) ==
  /\ IF Full
     THEN /\ missed' = missed \cup {v \in {p.params} : p.mspd}
          /\ UNCHANGED <<queue, fdlost, watching>>
     ELSE /\ queue' = Append(queue, p)
          /\ SetHandler
          /\ UNCHANGED missed
  /\ overtaken' = (overtaken \/ (dead /\ watching /\ ~Full))
  /\ UNCHANGED <<ahead, connection, stale, sending, shown, last>>

\* afterGettingFrame notes the time.  A frame comes from the source's socket or,
\* put in order, from a delayed task.
FrameArrives ==
  /\ At("select") \/ At("alarm")
  /\ Goes
  /\ open
  /\ heard' = TRUE /\ silent' = FALSE /\ idle' = FALSE
  /\ UNCHANGED <<open, camera, counts>>

\* The source ends: the sink's closure sets the state, unless nothing tells
\* of the end.
SourceEnds ==
  /\ At("select") \/ At("alarm")
  /\ Goes
  /\ open /\ open' = FALSE
  /\ state' \in {state, TRUE}
  /\ UNCHANGED <<camera, latest, changed, times, packets, connection, handler,
                 key_send, sendmeta, crashed, counts, viewer, overtaken>>

\* New parameter sets are remembered.  A camera sends them before the first
\* key picture that is coded with them.
ParamsArrive ==
  /\ FrameArrives
  /\ latest # camera
  /\ latest' = camera /\ changed' = TRUE
  /\ UNCHANGED <<packets, connection, handler, sending, viewer, overtaken>>

\* The parameter sets go with a key picture if they have changed or if none
\* have been sent.
OnlyIfChanged == changed
WithParams == changed \/ ~sendmeta

KeyArrives ==
  /\ FrameArrives
  /\ latest = camera
  /\ changed' = FALSE
  /\ Enqueue([kind |-> "key", params |-> camera, mspd |-> WithParams, at |-> rtmp])
  /\ UNCHANGED latest

DeltaArrives ==
  /\ FrameArrives
  /\ Enqueue([kind |-> "delta", params |-> 0, mspd |-> FALSE, at |-> rtmp])
  /\ UNCHANGED <<latest, changed>>

\* handleAACFrame: sound waits for the first picture.
AudioArrives ==
  /\ FrameArrives
  /\ sendmeta
  /\ Enqueue([kind |-> "audio", params |-> 0, mspd |-> FALSE, at |-> rtmp])
  /\ UNCHANGED <<latest, changed>>

-----------------------------------------------------------------------------
(***************************************************************************)
(* RTMPLivePackDequeue, by a handler of the event loop                     *)
(***************************************************************************)
Pop ==
  /\ At("select") /\ Goes
  /\ watching \/ stale
  /\ queue # <<>> /\ queue' = Tail(queue)
  /\ ahead' = (IF ahead = 0 THEN 0 ELSE ahead - 1)
  /\ UNCHANGED overtaken

\* A packet later than the last frame is dropped; the handler stays.
DequeueAhead ==
  /\ Pop
  /\ ahead > 0
  /\ missed' = missed \cup {v \in {Head(queue).params} : Head(queue).mspd}
  /\ UNCHANGED <<source, times, connection, handler, sending, counts, shown, last>>

\* ont_disable_rtmp_packet_handle
Disable == watching' = (watching /\ (rtmp = 0 \/ fdlost))
DisableIfEmpty == IF queue' = <<>> THEN Disable ELSE UNCHANGED watching

\* A packet may have waited for more than five seconds, by last_sndts.
Waited == state' \in {state, TRUE}

\* Pictures are skipped until there is a key picture.
DequeueSkips ==
  /\ Pop
  /\ Head(queue).kind = "delta" /\ ~key_send
  /\ Waited
  /\ DisableIfEmpty
  /\ UNCHANGED <<source, times, connection, fdlost, stale, key_send, sendmeta,
                 crashed, counts, viewer>>

\* Pictures from a key picture on, and sound.
Begins(p) == p.kind = "key" \/ (p.kind = "delta" /\ key_send) \/ p.kind = "audio"

\* Metadata sent without a connection: rtmp_send_metadata does not look.
Crash ==
  /\ Pop
  /\ rtmp = 0 /\ Head(queue).mspd
  /\ crashed' = TRUE
  /\ UNCHANGED <<source, times, connection, handler, key_send, sendmeta, state,
                 counts, viewer>>

\* A send fails; librtmp closes the socket, unless it gave up only after the
\* timeout.  What became of the metadata and the parameter sets before
\* it is not looked at.
DequeueFails ==
  LET p == Head(queue) IN
  /\ Pop
  /\ Begins(p)
  /\ rtmp = 0 \/ broken \/ dead
  /\ ~(rtmp = 0 /\ p.mspd)
  /\ key_send' = (key_send \/ p.kind = "key")
  /\ sendmeta' = (sendmeta \/ p.mspd)
  /\ state' = TRUE /\ dead' \in {dead, rtmp # 0}
  /\ DisableIfEmpty
  /\ UNCHANGED <<source, times, rtmp, broken, timedout, fdlost, stale, crashed,
                 counts, viewer>>

\* That the parameter sets timed out does not keep back their picture.
DequeueSends ==
  LET p == Head(queue) IN
  /\ Pop
  /\ Begins(p)
  /\ rtmp # 0 /\ ~broken /\ ~dead
  /\ key_send' = (key_send \/ p.kind = "key")
  /\ sendmeta' = (sendmeta \/ p.mspd)
  /\ Waited
  /\ \/ shown' = (IF p.mspd THEN p.params ELSE shown) /\ UNCHANGED missed
     \/ p.mspd /\ missed' = missed \cup {p.params} /\ UNCHANGED shown
  /\ last' = [params |-> p.params, at |-> p.at]
  /\ DisableIfEmpty
  /\ UNCHANGED <<source, times, connection, fdlost, stale, crashed, counts>>

\* select() with a closed socket among its sockets ends the program, unless
\* the descriptor is in use again.
SelectFails ==
  /\ At("select") /\ Goes
  /\ stale \/ (watching /\ dead)
  /\ crashed' = TRUE
  /\ UNCHANGED <<source, times, packets, connection, handler, key_send, sendmeta,
                 state, counts, viewer, overtaken>>

Dequeue == DequeueAhead \/ DequeueSkips \/ Crash \/ DequeueFails \/ DequeueSends

-----------------------------------------------------------------------------
(***************************************************************************)
(* The main loop: the platform's requests, and streams that have to close  *)
(***************************************************************************)
NewSource ==
  \E s \in Opened(camera') : open' = s[1] /\ latest' = s[2] /\ changed' = s[3]

NewViewer == shown' = 0 /\ last' = None /\ missed' = {}
EmptyQueue == queue' = <<>> /\ ahead' = 0
KeepQueue == UNCHANGED <<queue, ahead>>

\* ont_onvifdevice_live_stream_play: a source that has been silent is opened
\* anew, the list is emptied, and all of this even if there is no connection.
PlayQueue == EmptyQueue

\* A new connection may have the descriptor of the one before, with its
\* handler.
Reuses ==
  /\ rtmp' # 0 /\ stale
  /\ stale' = FALSE /\ watching' = TRUE
  /\ UNCHANGED fdlost

\* ont_video_live_stream_rtmp_publish
Publish ==
  /\ At("receive") /\ UNCHANGED turn
  /\ rtmp = 0
  /\ published < MaxPublishes /\ published' = published + 1
  /\ UNCHANGED camera
  /\ IF silent THEN NewSource ELSE UNCHANGED <<open, latest, changed>>
  /\ rtmp' \in {0, published'}
  /\ broken' = FALSE /\ timedout' \in {FALSE, rtmp' # 0} /\ dead' = FALSE
  /\ Reuses \/ UNCHANGED handler
  /\ key_send' = FALSE /\ sendmeta' = FALSE /\ state' = FALSE
  /\ idle' = FALSE
  /\ PlayQueue
  /\ NewViewer
  /\ UNCHANGED <<heard, silent, crashed, controls, overtaken>>

\* ont_onvifdevice_stream_ctrl for the level there is: headers are sent again.
SameLevel ==
  /\ At("receive") /\ UNCHANGED turn
  /\ controls < MaxControls /\ controls' = controls + 1
  /\ sendmeta' = FALSE
  /\ UNCHANGED <<source, times, packets, connection, handler, key_send, state,
                 crashed, published, viewer, overtaken>>

\* For another level the source is opened anew and the list is cleared, and
\* with it (ont_list_clear) what the packets hold is lost.
SwitchLevel ==
  /\ At("receive") /\ UNCHANGED turn
  /\ controls < MaxControls /\ controls' = controls + 1
  /\ camera < MaxParams /\ camera' = camera + 1
  /\ NewSource
  /\ state' = FALSE /\ sendmeta' = FALSE
  /\ EmptyQueue
  /\ overtaken' = (overtaken \/ dead)
  /\ UNCHANGED <<times, connection, handler, key_send, crashed, published,
                 viewer>>

\* _checkcloseFlag: the state says so, the camera is gone, or the last read of
\* the connection had to wait (rtmp.c:3739), which a send never changes.
IgnoresIdle == state \/ (rtmp # 0 /\ timedout)
NeedsClose == state \/ (rtmp # 0 /\ (idle \/ timedout))

\* ont_onvifdevice_rtmp_stop
LeaveHandler ==
  /\ watching' = FALSE /\ stale' = (stale \/ watching)
StopHandler ==
  /\ watching' = FALSE /\ stale' = (stale \/ (watching /\ fdlost))

Close ==
  /\ At("receive") /\ Goes
  /\ NeedsClose
  /\ IF rtmp = 0 THEN UNCHANGED <<watching, stale>> ELSE StopHandler
  /\ rtmp' = 0 /\ broken' = FALSE /\ timedout' = FALSE /\ dead' = FALSE
  /\ state' = FALSE /\ sendmeta' = FALSE
  /\ NewViewer
  /\ UNCHANGED <<source, times, packets, fdlost, key_send, crashed, counts,
                 overtaken>>

\* Nothing (more) to receive and nothing to close, nothing ready, nothing due.
Proceed ==
  /\ ~crashed /\ Goes
  /\ turn = "receive" => ~NeedsClose
  /\ UNCHANGED <<source, times, packets, connection, handler, sending, counts,
                 viewer, overtaken>>

-----------------------------------------------------------------------------
Loop ==
  \/ ParamsArrive \/ KeyArrives \/ DeltaArrives \/ AudioArrives \/ SourceEnds
  \/ Dequeue \/ SelectFails
  \/ Close \/ Proceed

Next ==
  \/ CameraChanges \/ Stall \/ ClockBack \/ Break
  \/ Publish \/ SameLevel \/ SwitchLevel
  \/ Loop

Spec == Init /\ [][Next]_vars

\* A source that delivers sends its parameter sets and, again and again, a key
\* picture that finds room in the list: the server reads faster than the camera
\* films.  One that does not lets five seconds go by.
SourceGoesOn == ParamsArrive \/ (~Full /\ KeyArrives) \/ (~open /\ Stall)

\* The main loop goes round, and the event loop gives every socket that is
\* ready its turn (BasicTaskScheduler::SingleStep begins past the last).
FairSpec == Spec /\ WF_vars(Loop) /\ SF_vars(Dequeue) /\ SF_vars(SourceGoesOn)

-----------------------------------------------------------------------------
(***************************************************************************)
(* What is sent can be shown: the first packet on a connection is a key    *)
(* picture with its parameter sets, sound comes after it, and every key    *)
(* picture is coded with the parameter sets sent last -- unless the packet *)
(* that brought its own was discarded or they timed out, which nothing     *)
(* makes up for (ont_packet_queue.cpp:155, :382 and :420), however often   *)
(* the platform publishes, changes the level, or the connection is lost.   *)
(***************************************************************************)
Decodable ==
  last # None => /\ shown # 0 \/ missed # {}
                 /\ (last.params # 0 => last.params \in {shown} \cup missed)

(***************************************************************************)
(* What is sent on a connection was filmed since it was asked for, though  *)
(* frames are queued all the time (ont_onvif_videoaudiohandler.cpp:421).   *)
(***************************************************************************)
LiveOnly == last # None => last.at = rtmp

(***************************************************************************)
(* A connection that is lost does not bring the program down: the handler  *)
(* of a socket that librtmp has closed is taken away before select() sees  *)
(* the socket again, and no handler sends on a connection that is NULL.    *)
(* Not so if a frame is queued, or the level changed, between the failed   *)
(* send and the close of the stream in the next round: then the descriptor *)
(* to take the handler from is forgotten (ont_packet_queue.cpp:46), or the *)
(* state that asks for the close (ont_onvif_impl.cpp:475).                 *)
(***************************************************************************)
HandlerSafe ==
  /\ crashed \/ stale => overtaken
  /\ turn = "select" /\ watching => overtaken \/ ~dead

(***************************************************************************)
(* A stream whose connection or camera is gone is given up, so that the    *)
(* platform can publish the channel again and is not told that it has      *)
(* started already (ont_video_play.c:160), with the same exception.        *)
(***************************************************************************)
GivesUp ==
  (rtmp # 0 /\ (broken \/ ~open)) ~> (rtmp = 0 \/ (~broken /\ open) \/ overtaken)

(***************************************************************************)
(* A published channel shows a picture, unless it is given up.             *)
(***************************************************************************)
PictureShown ==
  (rtmp # 0) ~> (last # None \/ rtmp = 0 \/ broken \/ ~open \/ crashed)
=============================================================================
