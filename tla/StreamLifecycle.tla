---------------------------- MODULE StreamLifecycle -----------------------------
(***************************************************************************)
(* The streams of the GM813x camera, one after the other or not            *)
(* (src/gm813x/ont_video_play.c:361-392, 481-507, 545-644).                *)
(*                                                                         *)
(* The main thread publishes: it stops what there is, sets up camera and   *)
(* connection, and creates two encoder threads and a send thread.  A       *)
(* stream is stopped by its own send thread when that thread's loop ends,  *)
(* and by the main thread's next publication; both call the same function. *)
(* What the threads do with their pictures meanwhile is in SendQueue.      *)
(***************************************************************************)
EXTENDS Integers

CONSTANT MaxPublishes  \* bound: publications that begin a stream

Streams == 1..MaxPublishes
Main == 0
Threads == {Main} \cup Streams  \* those that may stop: the main and the send threads
Encoders == {"video", "audio"}
NULL == 0

VARIABLES
  main,        \* where the main thread is
  _start_play,
  enc_exit,
  thread_id,   \* enc_thread_id and au_enc_thread_id: the stream of the encoder, or NULL
  encoder,     \* what has become of each stream's encoder threads
  sender,      \* what has become of each stream's send thread
  stop,        \* where each thread is in ont_video_live_stream_stop
  joining,     \* the thread it waits for
  _cam_init,
  _pRtmp,      \* NULL, a connection, or one that was freed when it failed
  streams      \* publications that have begun a stream

threads == <<thread_id, encoder, sender>>
stopping == <<stop, joining>>
vars == <<main, _start_play, enc_exit, threads, stopping, _cam_init, _pRtmp, streams>>

TypeOK ==
  /\ main \in {"idle", "stop", "camera", "connect", "begin", "create"}
  /\ _start_play \in BOOLEAN /\ enc_exit \in BOOLEAN /\ _cam_init \in BOOLEAN
  /\ thread_id \in [Encoders -> Streams \cup {NULL}]
  /\ encoder \in [Encoders -> [Streams -> {"none", "runs", "done"}]]
  /\ sender \in [Streams -> {"none", "runs", "stops", "done"}]
  /\ stop \in [Threads -> {"no", "tell", "join video", "join audio", "clear", "end"}]
  /\ joining \in [Threads -> Streams \cup {NULL}]
  /\ _pRtmp \in {"NULL", "open", "freed"}
  /\ streams \in 0..MaxPublishes

Init ==
  /\ main = "idle" /\ _start_play = FALSE /\ enc_exit = FALSE
  /\ thread_id = [e \in Encoders |-> NULL]
  /\ encoder = [e \in Encoders |-> [n \in Streams |-> "none"]]
  /\ sender = [n \in Streams |-> "none"]
  /\ stop = [t \in Threads |-> "no"] /\ joining = [t \in Threads |-> NULL]
  /\ _cam_init = FALSE /\ _pRtmp = "NULL" /\ streams = 0

-----------------------------------------------------------------------------
(***************************************************************************)
(* ont_video_live_stream_stop, by the main thread or a send thread.        *)
(***************************************************************************)
StopGoes(t, from, to) == stop[t] = from /\ stop' = [stop EXCEPT ![t] = to]

TellEncoders(t) ==
  /\ StopGoes(t, "tell", "join video")
  /\ enc_exit' = TRUE
  /\ UNCHANGED <<main, _start_play, threads, joining, _cam_init, _pRtmp, streams>>

JoinStage(e) == IF e = "video" THEN "join video" ELSE "join audio"
AfterJoin(e) == IF e = "video" THEN "join audio" ELSE "clear"

NoThread(t, e) ==
  /\ joining[t] = NULL /\ thread_id[e] = NULL
  /\ StopGoes(t, JoinStage(e), AfterJoin(e))
  /\ UNCHANGED <<main, _start_play, enc_exit, threads, joining, _cam_init, _pRtmp, streams>>

\* (The handle is read for the test and for the call at once.)
JoinBegins(t, e) ==
  /\ stop[t] = JoinStage(e) /\ joining[t] = NULL /\ thread_id[e] # NULL
  /\ joining' = [joining EXCEPT ![t] = thread_id[e]]
  /\ UNCHANGED <<main, _start_play, enc_exit, threads, stop, _cam_init, _pRtmp, streams>>

\* The thread has ended.  If another waits for the same one, what pthread_join
\* does is undefined: it may return at once, too.
JoinEnds(t, e) ==
  /\ joining[t] # NULL
  /\ \/ encoder[e][joining[t]] = "done"
     \/ \E u \in Threads \ {t} : joining[u] = joining[t] /\ stop[u] = stop[t]
  /\ StopGoes(t, JoinStage(e), AfterJoin(e))
  /\ joining' = [joining EXCEPT ![t] = NULL]
  /\ thread_id' = [thread_id EXCEPT ![e] = NULL]
  /\ UNCHANGED <<main, _start_play, enc_exit, encoder, sender, _cam_init, _pRtmp, streams>>

\* The queue is cleared, then camera_release and RTMP264_Close.
Release(t) ==
  /\ StopGoes(t, "clear", "end")
  /\ _cam_init' = FALSE /\ _pRtmp' = "NULL"
  /\ UNCHANGED <<main, _start_play, enc_exit, threads, joining, streams>>

StopReturns(t) ==
  /\ StopGoes(t, "end", "no")
  /\ _start_play' = FALSE
  /\ IF t = Main
     THEN main' = "camera" /\ UNCHANGED threads
     ELSE sender' = [sender EXCEPT ![t] = "done"] /\ UNCHANGED <<main, thread_id, encoder>>
  /\ UNCHANGED <<enc_exit, joining, _cam_init, _pRtmp, streams>>

-----------------------------------------------------------------------------
(***************************************************************************)
(* The main thread: ont_video_live_stream_rtmp_publish and _play.          *)
(***************************************************************************)
\* A publication that is not refused with ONT_RET_CHANNEL_ALREADY_START.
Publish ==
  /\ main = "idle" /\ streams < MaxPublishes
  /\ ~_start_play
  /\ _start_play' = TRUE
  /\ streams' = streams + 1
  /\ main' = "stop" /\ stop' = [stop EXCEPT ![Main] = "tell"]
  /\ UNCHANGED <<enc_exit, threads, joining, _cam_init, _pRtmp>>

CameraInit ==
  /\ main = "camera" /\ main' = "connect"
  /\ _cam_init' = TRUE
  /\ UNCHANGED <<_start_play, enc_exit, threads, stopping, _pRtmp, streams>>

\* RTMP264_Connect; that it failed is not looked at.
Connect ==
  /\ main = "connect" /\ main' = "begin"
  /\ _pRtmp' \in {"open", "freed"}
  /\ UNCHANGED <<_start_play, enc_exit, threads, stopping, _cam_init, streams>>

Begin ==
  /\ main = "begin" /\ main' = "create"
  /\ enc_exit' = FALSE
  /\ UNCHANGED <<_start_play, threads, stopping, _cam_init, _pRtmp, streams>>

\* The encoder threads are created before the send thread.
CreateEncoder(e) ==
  /\ main = "create" /\ encoder[e][streams] = "none"
  /\ e = "audio" => encoder["video"][streams] # "none"
  /\ encoder' = [encoder EXCEPT ![e][streams] = "runs"]
  /\ thread_id' = [thread_id EXCEPT ![e] = streams]
  /\ UNCHANGED <<main, _start_play, enc_exit, sender, stopping, _cam_init, _pRtmp, streams>>

CreateSender ==
  /\ main = "create" /\ encoder["audio"][streams] # "none"
  /\ sender' = [sender EXCEPT ![streams] = "runs"]
  /\ main' = "idle"
  /\ UNCHANGED <<_start_play, enc_exit, thread_id, encoder, stopping, _cam_init, _pRtmp,
                 streams>>

-----------------------------------------------------------------------------
\* The loop of an encoder thread ends.
EncoderEnds(e, n) ==
  /\ encoder[e][n] = "runs" /\ enc_exit
  /\ encoder' = [encoder EXCEPT ![e][n] = "done"]
  /\ UNCHANGED <<main, _start_play, enc_exit, thread_id, sender, stopping, _cam_init,
                 _pRtmp, streams>>

\* The loop of a send thread ends, because of enc_exit or because select fails.
SenderEnds(n) ==
  /\ sender[n] = "runs"
  /\ sender' = [sender EXCEPT ![n] = "stops"]
  /\ stop' = [stop EXCEPT ![n] = "tell"]
  /\ UNCHANGED <<main, _start_play, enc_exit, thread_id, encoder, joining, _cam_init,
                 _pRtmp, streams>>

Stop(t) ==
  \/ TellEncoders(t) \/ Release(t) \/ StopReturns(t)
  \/ \E e \in Encoders : NoThread(t, e) \/ JoinBegins(t, e) \/ JoinEnds(t, e)

MainStep ==
  \/ Stop(Main) \/ CameraInit \/ Connect \/ Begin \/ CreateSender
  \/ \E e \in Encoders : CreateEncoder(e)

Next ==
  \/ Publish \/ MainStep
  \/ \E n \in Streams : Stop(n) \/ SenderEnds(n)
  \/ \E e \in Encoders, n \in Streams : EncoderEnds(e, n)

Spec == Init /\ [][Next]_vars

-----------------------------------------------------------------------------
(***************************************************************************)
(* A publication on a channel whose stream runs is refused:                *)
(* "return ONT_RET_CHANNEL_ALREADY_START" (ont_video_play.c:603-611).      *)
(* Otherwise two threads stop the same stream, and the send thread of the  *)
(* first may stop the second.                                              *)
(***************************************************************************)
AlreadyStarted ==
  [][main = "idle" /\ main' = "stop" =>
       \A n \in Streams : sender[n] \notin {"runs", "stops"}]_vars
=============================================================================
