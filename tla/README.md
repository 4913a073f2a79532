# Verification of the OneNET video SDK

This directory keeps a TLA+ model of the device SDK of the OneNET video
platform (`src/`, `include/`, `platforms/`) and of the two programs that are
built on it: the sample for PCs and IP cameras (`sample/`) and the firmware of
the GM813x camera (`gm813x/`).  TLC checks the model on small instances, TLAPS
proves the most important invariants for all instances.

Contents

1. The system: parts, state, operations, interactions
2. What is modelled, and where
3. The model-checking runs
4. Fairness
5. The proofs
6. Disagreements found between code and documents
7. What is not modelled
8. Plan

## 1. The system

A device is one thread that talks to the platform over one TCP connection.  It
introduces itself, registers, authenticates, announces its channels, and then
loops: keepalive, receive, play list.  The platform asks it to publish a live
picture or to play back a record; both go out over RTMP connections of their own.

| Component | State | Operations | What is hard | What makes it correct |
|---|---|---|---|---|
| Device protocol, requests and answers (`src/src/protocol.c`, callers in `device.c`) | `seq_snd`, `seq_rcv`, the C stack of nested calls | `ont_device_msg_sendmsg` (waiting or not), `ont_device_check_receive`, the dispatch `ont_device_msg_callback`, replies | answers that come late, requests of the platform that come while the device waits, callbacks that call the SDK again on the same stack, links that break | a waiting call returns the answer to that very call or none; replies bear the id of their request, go out in order and once; every call returns |
| Framing (`protocol.c:230-331`, `389-402`, `tcp_recv`, `tcp_send`) | `rcv_buf`, `rcv_length`, `buf_length`, the bytes on their way in both directions | `ont_device_msg_rcv`, the loop that sends in `ont_device_msg_sendmsg` | messages cut anywhere, timeouts in the middle of one, a buffer that is replaced by a larger one, decryption that fails, a send given up half way, reconnections | messages are delivered whole, in order, once; no byte is lost; nothing is written beyond the buffer; the platform gets whole messages |
| Device API (`device.c`) | `device_id`, `auth_code`, keys | connect, verify, register, auth, channels, system time, keepalive, upload | order of the steps, refusals, a key request in the middle of others | no request goes out that the platform cannot read; the loop runs only when authenticated |
| Platform commands (`platform_cmd.c`) | none | parse a command, call the application, reply | which command is replied to, and when | a command that wants a reply gets one |
| Encryption (`security_*.c`) | key contexts in the device | encrypt, decrypt, key exchange | keys that change while messages are on their way | both ends use the same key |
| GM813x packet queue and stream threads (`gm813x/send_queue.c`, `ont_video_play.c`) | `_list`, `enc_exit`, `video_started`, the buffers | enqueue by two encoder threads, dequeue by the send thread, clear by whoever stops | a size read without the lock, failed allocations, the end of a stream while pictures are on their way | buffers are freed once and none is lost, packets stay in order, the queue is bounded, stop ends and leaves nothing |
| GM813x stream lifecycle (`ont_video_play.c:545-644`, `librtmp_send264.cpp`) | `_start_play`, thread handles, the RTMP connection | publish, play, stop | two stops that overlap | one stream at a time, released once |
| Sample session (`sample/video_sample_main.c`), GM813x session | connection, keepalive time | the steps above, the loop, the restart | a failure at any step | the session is re-established |
| Play list (`sample/ont_video_play.c`) | `g_list` of live, playback and record entries, each with a context of its own type | start and publish a channel, start a playback, a round: close, record, send, step | entries that end while others start, contexts told apart by `type` only in some places, loops that begin again at the head after every change | a request reaches the entry it is meant for, every session is closed once and freed, a channel's packets have one taker, a round ends |
| Remote playback (`sample/video_rvod_mp4.c`, `src/src/rvod.c`, the RVOD half of `ont_packet_queue.cpp`) | next samples of two tracks, the packet list, paused, stoped, state | fill, send, pause, resume, seek, stop, end, close | notices that come at any point of a round, packets of an old position, tracks of different lengths, a list that overflows | no sample is skipped or sent twice, order, a picture that can be decoded first, an end that comes and only at the end |
| Live channels (`onvif/ont_onvif_impl.cpp`, `ont_onvif_videoaudiohandler.cpp`, the live half of `ont_packet_queue.cpp`) | packet list, parameter sets, RTMP connection, its handler | frames of the camera, dequeue by the event loop, publish, change of level, close | frames while nobody watches, a socket closed inside a send, a list that overflows, a clock that jumps | what is sent can be decoded and is live, a broken connection harms nothing else, a lost stream is given up |
| Records (`video_record.cpp`) | `_g_records`, a slot for each channel: order, time, state, file | order, start, step, stop, send | orders that come during a record, a slot taken by another channel, a publication during a record | a record lasts as long as was ordered, its file is closed before it is sent |
| Linked list (`ont_list.c`) | nodes | insert, remove, find | pointers at both ends | it is a sequence |
| Bytes (`ont_bytes.c`) | a buffer | write, read integers | width, limits | what was written is read |

Interactions: the protocol calls application callbacks synchronously, from the
main loop or from within a call that waits.  The callbacks of the samples add
entries to the play list or start the stream threads.  The stream threads of
the GM813x share the packet queue and a few flags with the main thread.  In the
sample all but the cameras' libraries is a single thread, in which the RTMP
server's notices are read between two packets.

## 2. What is modelled, and where

`PROJECT.json` maps every definition to the lines it stands for.

### DeviceProtocol, RequestReply

`DeviceProtocol` has the device's counters, its C stack (`stack`: a frame
"wait" is an `ont_device_msg_sendmsg` in its wait loop, a frame "callback" a
message being dispatched), the two directions of the link, and the platform
as the SDK sees it.  One action is the code between two points at which
something else may happen: `Ask` is `sendmsg` up to its wait loop, `TakeAnswer`,
`TakeOther` and `WaitFails` are the three ends of a round of that loop,
`CheckReceive` the same for the main loop, `CallbackReturns` sends the reply if
there is one.  Whether application code in a callback may call the SDK again is
the constant `NestDepth`: 0 never, 1 from the main loop's callbacks, 2 from
callbacks that run inside a call that waits.  A send that fails may have sent all of
its message, since the time is looked at after the bytes (`protocol.c:398`).

Messages have their type, response bit and id as in the code.  A ghost, `tag`,
tells which call a message is about; no guard of the device looks at it.  The
platform reads, answers what can be answered once, late or never, and asks; it
answers `ADD_CHANNEL` without the response bit, as `device.c` expects.  It may also send
what the SDK does not know, as often as it likes (`PlatformNotifies`).

`RequestReply` is what this amounts to, without ids, loops or a stack: requests,
answers, replies.  `ImplementsContract` says that `DeviceProtocol` implements
it, where `waiting` is the set of calls on the stack and the result is the
answer's own request.

The counter `seq_snd` is a natural number here and a 32-bit one in the code,
where it starts at the time of day.  It wraps only after billions of calls,
which is not modelled.

### DeviceSession, MCDeviceSession, DeviceSessionProofs

The way from the start of `main` to its loop and back, for the sample or the
GM813x (`Program`), built for encryption or not (`Encrypting`).  `pc` is the call
`main` makes next.  `Ask` sends its request, `TakeAnswer`, `TimeOut` and
`CannotDecrypt` are its ends; `Returns` says what `main` makes of the result: on
to the next call, back to the start, or on in any case for the calls whose
result it ignores.  That a call returns its own answer or fails, and that other
messages go to the callbacks meanwhile, is what `DeviceProtocol` shows; here it is
taken for granted, so that what is left to see is which call follows which, under
which key a message goes out, and what outlives its connection: `encrypt_flag`,
the keys, `auth_code`, `tm`, and a message that could not be decrypted
(`jammed`).

A key of the platform is "this" or "old", according to whether it was received
on the present connection; the device's keys are counted from the connection's
start.  An auth code is a serial number, with a length (`CodeLength`): the device copies
it over the one it has without a terminator, so that a longer one's tail stays, and what it
then holds is no code (`auth_code = 0`, `auth_length > 0`).  The platform admits a connection step by
step, changes the auth code when it likes, and asks an encrypting device for its
key once or more.  A connection it closes looks like silence to the device
(`tcp_recv` returns no bytes and no error) or fails at once (`SocketFails`), and
sending fails sooner or later.
There is one channel.

### MsgFraming, MCMsgFraming, MessageLink, MsgFramingProofs

Bytes are pairs of a message and a position, so that a byte in the wrong place
is seen; a complete header tells the message's length, unless its bytes do not
belong together, when it reads a length from `GarbageLen`: any number, by the place of
its first byte.  If that does not exceed the header's own length there is no body
to receive (`protocol.c:271`); what is left to decrypt has a negative length then (`:296`), which wraps, and
the decryption fails or, taking its number of blocks for an `int`, finds none.  `RecvHeader` and `RecvBody` take
any part of what has arrived, `GiveUp` is the end of the time between any two
bytes, a `recv` that fails, or memory that is not to be had for the decryption, `Call` resumes from `rcv_buf` and `rcv_length`.  `Connect` is
`ont_device_connect`, which opens a new socket and leaves the receive state as
it is.  The variable `stale` remembers that a connection began with bytes in
the buffer: what `MessageLink` and `BytesAccountedFor` say is claimed of the
others.

`MessageLink` is what the receiving half amounts to, without bytes, buffers or calls that
give up: messages under way, and messages handed on, each once and in their order.
`ImplementsLink` says that `MsgFraming` implements it, where what is under way are the numbers
of the messages sent on this connection and not yet delivered, and of a connection that began
stale nothing is shown.  It is what `DeviceProtocol` takes for granted of its
link: `down` is a sequence of whole messages there.

The other direction is the loop in `ont_device_msg_sendmsg`: `SendSome` is one
`tcp_send` that takes any part of what is left, `SendEnds` and `SendGivesUp` its
ends.  `up` holds the bytes the platform gets, `asked` the lengths of the messages
they belong to; a send that is given up before its first byte leaves no trace.
What the platform then reads is `Frames`, the same predicate that describes the
bytes received: from the end of a message to the beginning of the next.  `torn`
remembers that a send gave up inside a message, after which nothing is claimed of
the connection.

### SendQueue, LossyQueue, SendQueueProofs

One stream of the GM813x: from the creation of the threads to the send
thread's `ont_video_live_stream_stop`.  What a thread does under `_mx_rtmp` is
one step, as is every access to a shared flag; reading the list's size before
the lock is taken, and allocating in between, are steps of their own.  A buffer
is the pair of its encoder and a number, and the ghosts `freed` and `leaked`
say where it ended.  The list of `ont_list.c` is a sequence.

`LossyQueue` is what encoders, list, send thread and stop promise together, without threads, lock or
list: a filled buffer is in use until it is handed to RTMP or not, and is given up then, once; the buffers of an
encoder are handed over in their order, with gaps; a stream ends only when none is in use,
and nothing happens after its end.  `ImplementsQueue` says that `SendQueue` implements it; the buffers in use are
those an encoder holds, those in the list and the one the send thread has taken.

### StreamLifecycle

The streams of the GM813x around the one stream of `SendQueue`.  `main` is the main thread in
`ont_video_live_stream_rtmp_publish` and `_play`; `stop[t]` is where thread `t`, the main thread or a
send thread, is in `ont_video_live_stream_stop`, which both call; `thread_id` holds the two
handles, each the number of its thread's stream, and `joining[t]` the one that `t` waits for.  Waiting for a thread that
another waits for is undefined in POSIX: it returns at once or when the thread ends.  A
call of `pthread_create` does not fail.

### RvodPlayback, Playback, MCRvodPlayback, RvodPlaybackProofs

One playback in the sample.  `pc` walks through a round: `select` (at most one
packet is handed to RTMP), `step` (the test for the end, and for the connection),
`receive` (the server's notices), `video` and `audio` (the due samples are read
and queued), `close`.  All this is one thread, but the server's notices arrive
at any point and wait in `inbox`.  librtmp closes its socket and forgets it when it
fails to send or to read (`Breaks`): `connected` is whether it has one, and without one nothing
is taken from the list.  A packet holds what the code's `ctl` holds:
the next ids of both tracks.  The ghosts `from`, `sent` and `lost` say which
samples were handed to RTMP or thrown away since the start or the last seek.

Time is abstract: whether the samples of a track are due is left open, except
where the code makes them due (start and seek).  A seek goes to one of the
file's `targets`, the pairs of samples that `MP4GetSampleIdFromTime` gives for
a time.  In a file without sound the second loop of the seek has no end, which
is `pc = "seeking"`.

`Playback` is what a playback promises to who watches it, without rounds, list or
notices: a sample is played when all before it, from where playback began or went to, have been
played or dropped; sound comes after the first picture, which is the one that was looked for; the end
is announced once, with nothing left but the last sample of a track, and after it nothing is played.
`ImplementsPlayback` says that `RvodPlayback` implements it, with `sent` for what was
played, `lost` for what was dropped and `state = 1` for the end.

`MCRvodPlayback` holds the files of the runs: one whose sound is longer than its
pictures, one whose last picture cannot be read, one without sound.

### LiveStream, LiveStreamProofs

One live channel of the sample.  `turn` is where the main loop is: `receive`
(requests of the platform, then the streams to close), `select` (one handler of
the event loop) and `alarm` (one of its delayed tasks); a frame comes in either of
the last two.  `open`, `camera`, `latest`, `changed` are the source, with the
parameter sets numbered; `heard`, `silent` and `idle` are what the code's time
stamps are asked for; `watching` is the handler of the connection's own socket,
`stale` one that was left on an earlier descriptor, `fdlost` whether `ctx->fd` has
become an error code.  The live555 scheduler is external: it is fair to sockets,
and ends the program if `select` meets a closed one.

Two ghosts state the properties: `missed` holds the parameter sets that went with a
packet that was discarded, and `overtaken` says that a frame was queued, or the
level changed, between a failed send and the close of the stream.  Both are
exceptions the code really makes, and hazards of the list.

### PlayList, PlayListProofs

The list of the sample and its records.  `phase` is where the main loop is in a
round, in the order of `ont_video_playlist_singlestep`: it receives requests
(`Publish`, `Control`, `VodStart`, `Order`), closes (`CloseFirst` until
`NoneToClose`), starts records (`StartRecord` until `NoneToRecord`), sends those
that are complete (`SendRecord` for each channel), lets every entry make a step, and
then the event loop (`Events`).  `pos` is the channel or the entry it has come to.

An entry has the fields of `t_playlist`; `ctx` says which channel, playback or record
slot its `playctx` points to.  What a test reads through the wrong type of pointer
is modelled by what lies there: `_checkcloseFlag` reads a record's context as a live
one, and finds the record's channel where it looks for `rtmp_client`.  A live channel
is only published or not, failed or not, with a number of packets; a playback only
open, ended or freed; what happens inside them is in `LiveStream` and `RvodPlayback`.
A record's time is the Boolean `intime`, which `Expire` ends and `ClockSet` may turn
round.

Each disjunct of `NeedsClose` is a kind of entry, so that a request which comes
between two rounds and the failure of an entry within one meet in every order.  The
ghost `overwritten` holds the slots that an order for another channel has taken
during a record.

### Faulty variants

Beside some definitions stands a variant with a plausible mistake in it
(`HasAwaitedType` beside `IsAnswer`, `DropKeepsBuffer` beside `Drop`...).  They
are used by nothing.  Each property is tried out by putting a variant in the
place of the definition, upon which TLC must find the property violated; the
pairs are listed under "mutants" in `PROJECT.json`.

## 3. The model-checking runs

Every configuration sets `CHECK_DEADLOCK FALSE`: the bounded environment has,
in the end, nothing more to send and the bounded program nothing more to do.

| Run | Checks | Bounds, and why they are enough |
|---|---|---|
| `protocol_faults` | `TypeOK`, `OwnAnswer`, `ReplyMatches`, `ImplementsContract` | Three calls, two platform requests, one reconnection, a link that may break at any time, no calls from callbacks.  A late answer needs two calls (the one given up and the one that waits), mixing it with platform requests a third. |
| `protocol_callbacks` | `CallReturns`, `RequestsServed` | Callbacks call the SDK and wait, those of the main loop and those that run inside a waiting call (`NestDepth` 2).  Two calls, so that one waits inside the other; two platform requests of a kind that is replied to by the SDK, one that is not, and the key request; one request that is answered without response bit.  The platform may stay silent, and may send unknown messages without end: `MaxNotices` bounds only how many are on their way at once. |
| `session` | `TypeOK`, `Readable`, `SecretsEncrypted`, `ServesAuthenticated`, `CodeCurrent`, `Recovers` | The sample built for encryption; three failures (a lost connection, a refusal, an answer too late, no server) at any points, three auth codes of which the second is longer than the others, two key requests on a connection.  A lost code change needs a failure at one point, a stale key a session that was complete before: two failures leave one more for the sessions in between. |
| `framing` | `TypeOK`, `BytesAccountedFor`, `WholeFrames`, `AllDelivered`, `ImplementsLink` | Three messages of the platform of 3 or 4 bytes with headers of 2 and a buffer of 3: every cut of a header and a body occurs, and so does the buffer's growth, before and after other messages.  Two messages of the device of 3 bytes: one given up at each byte and one after it.  One reconnection, which may begin stale; headers of left-over bytes read lengths of 1, 4, 2 and 0 (`MCMsgFraming`). |
| `framing_reconnect` | `HandlesOneMessage`, violated | One reconnection: see section 6. |
| `queue` | `TypeOK`, `QueueBounded`, `BuffersOnce`, `SentInOrder`, `StreamStops`, `ImplementsQueue` | Two encoders as in the code, three buffers each, `MAX_BUF_SIZE` 1: the queue is filled past its limit, emptied and filled again. |
| `rvod` | `TypeOK`, `SamplesAccounted`, `PlayedInOrder`, `PlaybackEnds`, `ImplementsPlayback` | Files of up to 4 pictures and 5 samples of sound, two samples of each a round, a list of three packets: several rounds to the end, both orders of the tracks' ends, an overflow in each; two notices, enough for pause and resume, pause and seek, two seeks; the connection is lost in any send or receive. |
| `rvod_end` | `BothFinished`, violated | A file played undisturbed through a list that never overflows: see section 6. |
| `live` | `TypeOK`, `Decodable`, `LiveOnly`, `HandlerSafe`, `GivesUp`, `PictureShown` | Two publications, two parameter sets (changed by the camera or by a change of level), one change of level or step back of the clock, a list of two packets (`PACK_BUFFER_SIZE` 1): a handler left by the first connection meets the second, a discarded parameter set is followed by key pictures, a packet waits behind the one whose send fails. |
| `playlist` | `TypeOK`, `LiveFound`, `OneConsumer`, `SessionsListed`, `FilesClosed`, `StopServed` | Two channels, of which either may be without camera, two flags, two playbacks, two record orders, one packet a channel.  Two orders are enough for a slot to be taken from the channel that is recorded and for a record to be ordered again, two playbacks for one flag to be used again after its end or while it is listed, and all are in the list at once. |
| `record_cut` | `RecordLasts`, violated | One channel, one order: see section 6. |
| `gm_restart` | `AlreadyStarted`, violated | Two publications: see section 6. |

What the runs show, beyond their names:

* `OwnAnswer` holds although the test for the answer looks only at the id:
  because the counter moves on after every call, also one that failed, a late
  answer never meets a call that waits for its id.  Testing the type instead
  would not do.
* `ReplyMatches` holds although replies take their id from a variable that any
  received message overwrites, as long as callbacks do not wait for answers
  themselves.
* `CallReturns` is claimed of every call on the stack, and needs its exception `Flooded`: the
  wait loop has no deadline as a whole, so that a platform which goes on sending
  messages of any other kind keeps a call waiting for ever.
* `Readable` holds of the sample because it resets `encrypt_flag` at every start.
  The GM813x does not: `FlagKept` is its code, and with it (built for encryption)
  both `Readable` and `Recovers` fail, since every later session begins with a
  message under the key of the first.
* `ServesAuthenticated` holds although `ont_device_verify` takes a refusal for
  success, because the platform refuses what follows.
* `CodeCurrent` holds although the answer that brings a new code may be lost,
  because every session registers again and is told the code.  It promises the code
  the platform expects, or what is left of two codes once the platform has had a longer one
  (`GotShorter`): that is what the code does, and TLC refutes the property without it.
* `Recovers` excepts a session in which a message cannot be decrypted, after which
  every receive fails, on every later connection too, and a device whose code is spoilt
  (`Spoilt`), which the platform refuses at every start.  It rests on the keepalive:
  nothing else notices a connection that the platform has closed.
* `PlaybackEnds` has an exception, `Forgotten`, that TLC finds needed: when everything has been
  read the connection is not asked for any more (`video_rvod_mp4.c:476-484`), and without a socket
  nothing is sent, so that a playback which loses its connection then is never closed.
* `BytesAccountedFor` holds through the replacement of the buffer because only
  a header has been received when it happens, and only a header is copied.
* `QueueBounded` has the bound the code really keeps: one packet for each
  encoder more than a reader of `send_queue.c:35` would think, and `ont_list_size` is compared with `>`.
* `ImplementsQueue` depends on stop waiting for both encoders before it clears: an encoder it does not
  wait for leaves an old picture for the next stream.
* `ImplementsLink` depends on `rcv_length` being set back after every message handed on; kept,
  the bytes of that message are taken for the beginning of the next.
* `Decodable` and `HandlerSafe` have exceptions, and TLC finds each of them needed:
  without `missed`, a key picture is sent with parameter sets the viewer has not
  got, because they were discarded or because sending them timed out, which is not looked at
  (`ont_packet_queue.cpp:420-423`); without `overtaken`, a handler is left on a closed socket, or `select` ends the
  program.
* `LiveOnly` holds though frames are queued from the program's start on, because a
  publication empties the list.
* `WholeFrames` has the exception the code makes: after a send that gives up inside
  a message the connection goes on, and the platform reads the next message as the
  rest of the first.
* `LiveFound` holds, although entries are found by their channel alone and the entry
  of a record has the channel of the live one, because live entries are inserted
  before the main loop begins, at the head, and never removed.
* `OneConsumer` holds although nothing keeps a channel from being published while it
  is recorded: requests are received between the rounds, the closing comes first in a
  round and ends the record, and a record is started only if the channel is not published.
* `StopServed` says of a playback that the platform has stopped, that has failed or has come to
  its end, that it is freed.  It rests on `closeflag` being looked at, and on `ont_onvifdevice_rtmp_stop` resetting `state`: the entry of a live
  channel stays in the list, and would otherwise be met again for ever.
* `FilesClosed` has an exception, `overwritten`: a channel without a slot takes the first
  one (`video_record.cpp:52`), whatever is in it, and a file that is being written there
  stays open.  In fact no other slot is ever used.
* `ImplementsPlayback` lets the end cut the last sample of each track, which is less than a
  comment claims (section 6).

## 4. Fairness

* `DeviceProtocol`: the device's own steps are weakly fair.  `msg_rcv` polls the
  socket until the time is up, callbacks return, and the main loop goes on
  receiving.  Nothing is assumed of the platform and the link.
* `MsgFraming`: the main loop calls `check_receive` again and again (weak), and a
  `recv` that takes something happens again and again (strong, since `GiveUp`
  disables it for a while): bytes that were sent on a connection that lasts arrive.
  A send comes to its end, if only because its time is up (weak).
* `DeviceSession`: `main` runs on, sends its keepalives, and the platform handles what
  it gets (weak).  Timeouts, refusals and closed connections are faults, of which
  there are finitely many.  That a receive on a closed connection fails is not assumed: it may be silent.
* `SendQueue`: each thread runs (weak).  `gm_poll` and `select` have timeouts, so
  neither waits for ever; the join is enabled once the encoders are done.
* `RvodPlayback`: rounds go on (weak); and again and again the socket takes data,
  notices that have arrived are read, and samples become due (strong: RTMP and
  the clock progress, but not in every round).
* `PlayList`: the main loop goes on (weak).  Nothing is assumed of the platform or the
  cameras.
* `LiveStream`: the main loop goes round (weak).  Each socket that is ready is served
  (strong: `SingleStep` begins past the last one it served).  A source that delivers
  sends key pictures, again and again when the list has room (strong: the server reads
  faster than the camera films, or the stream is closed for lateness); from one that
  does not, five seconds pass without a frame.

## 5. The proofs

`DeviceProtocolProofs`, `DeviceSessionProofs`, `MsgFramingProofs`, `SendQueueProofs`,
`LiveStreamProofs`, `PlayListProofs` and `RvodPlaybackProofs` are checked by TLAPS, for every
value of the constants that the named assumptions allow.

* `DeviceProtocolProofs!TypeCorrect`: `Spec => []TypeOK`, from
  `ConstantsAssumption`.  `TypeOK` is inductive; the proof goes through the
  actions one by one.
* `DeviceProtocolProofs!AnswersMatch`: `Spec => []OwnAnswer`, for every number of
  calls, platform requests, faults and reconnections.  `OwnAnswer` is not
  inductive: it says nothing about messages on their way.  `AnswerInv` adds
  that (1) every request of the device and every answer to one, wherever it is
  -- in `up`, `todo` or `down` -- was given the id that belongs to its serial
  number, (2) a call that waits is the latest and its id is `seq_snd`, and so
  (3) a message whose id is `seq_snd` answers that call.  Two hypotheses are needed and named:
  `NoNestedWait` (callbacks call the SDK only from the main loop,
  `NestDepth <= 1`) and `IdsApart` (no platform request bears an id the device
  may use).  Without the first (`NestDepth = 2`), the callback's
  call advances `seq_snd`, and the call below it misses its answer or takes another's; without
  the second, a platform request whose id happens to be `seq_snd` is taken for
  the answer, since neither response bit nor type is looked at.
* `DeviceProtocolProofs!RepliesMatch`: `Spec /\ [][MainLoopWaits]_vars => []ReplyMatches`, for any number
  of calls, requests and faults and any `NestDepth`.  `MainLoopWaits` says of a step that a call
  that waits for its answer is made by the main loop, not by a callback; a callback may send what
  is not answered.  `ReplyInv` adds that a callback
  is on top of the stack until it returns, that its request's id is still `seq_rcv`, and that what
  comes with a type of the platform's is a request as it was made.  Without `MainLoopWaits` it fails: the
  callback's own call receives another request and leaves the id of that in `seq_rcv`.
  `RepliesMatchAlone` is the case in which `NestDepth = 0` makes `MainLoopWaits` true of every
  step (`NoCallsWait`), as in both sample programs.
* `DeviceProtocolProofs!Refines`: `Spec /\ [][MainLoopWaits]_vars => ImplementsContract`, under `NoNestedWait`
  and `IdsApart`: every step of
  the device is a step of `RequestReply` or none.  It rests on `AnswerInv` and `ReplyInv`, and on
  `AnswersGiven` (an answer on its way was given) and `InTurn` (the requests replied to, the one
  being served and those on their way are in the order in which they were made), which is what
  replying in order, and to each at most once, needs of the link.  `RefinesAlone` is
  `Spec => ImplementsContract` for `NestDepth = 0`.
* `DeviceSessionProofs!TypeCorrect`: `Spec => [](TypeOK /\ KeyKnown)`, from
  `SessionAssumption`.  A message's key has a type only because a device that
  encrypts has a key, which is `KeyKnown`.
* `DeviceSessionProofs!AlwaysReadable`: `Spec => []Readable` for the sample.  `FreshInv`
  adds that a device that encrypts has the key of this connection, and that it
  does not encrypt when it connects.
* `DeviceSessionProofs!SecretsKept`: `Spec => []SecretsEncrypted` for both programs.
  `SecretInv` adds that an encrypting program past the key exchange encrypts.
* `DeviceSessionProofs!Admitted`: `Spec => []ServesAuthenticated`.  `AdmitInv` adds that
  a platform that has not admitted the connection has no answer on its way that
  says so.
* `DeviceSessionProofs!RightCode`: `Spec => []CodeCurrent`, for codes of any lengths.  `CodeInv` adds that at most one
  AUTH is on its way, and none before the device comes to authenticate: a code the device saves
  is the one of its last registration, which cannot change again before that connection has ended.
  `LengthInv` says of the string that is held that it is as long as some code of the platform's, and of every
  answer on its way that its code is one of these: if the string is longer than the code copied into it,
  the platform has had a longer code, which is the exception the property names.
  The five hold for any number of failures, codes and key requests.
  Messages on their way are described by the set they are from (`up` is a
  sequence over `FreshMessage`, and so on), so that sending and receiving preserve
  the invariants by the same few lemmas.
* `MsgFramingProofs!TypeCorrect`: `Spec => []TypeOK`, which says among other things that
  nothing is received beyond the buffer, whatever length a header of left-over bytes reads.  Needed besides (`Fits`): what is kept for the next
  call was read from a buffer that was already large enough for its message, and the length in
  `len` is the one the buffer's header reads.
* `MsgFramingProofs!MessagesWhole`: `Spec => []WholeFrames`, for every length of message
  and every cut.  `FramesInv` adds where the bytes end while a message is being sent: at
  `snd_offset` of the last one, or, before its first byte, at the end of the one before.
* `MsgFramingProofs!Accounted`, `MsgFramingProofs!InOrder`: `Spec => []BytesAccountedFor` and
  `Spec => []DeliveredInOrder` (what was delivered are the messages from the first of the connection on, in
  their order).  `RunInv` joins the two, since neither is inductive alone: what is
  kept and what is on the wire are one run of bytes, from the first message not delivered to the
  end of the last one sent.  A `recv` moves bytes within the run and leaves it as it is; a
  delivery takes its first message away (`FramesDrop`), which is the one in the buffer because the header
  of a run tells its true length (`RunLength`); a new message is put behind it (`FramesJoin`); and
  nothing is lost in the larger buffer because it is taken when nothing but a header is there
  (`NothingLost`).  The lemmas about `Frames` are about all sequences of bytes and serve
  both directions.
* `MsgFramingProofs!Refines`: `Spec => ImplementsLink`, for all lengths of messages and buffers,
  connections that begin stale included.  With `RunInv` before and after a step, the message
  that `Deliver` hands on is the first of those that are under way (`LinkDelivers`); `PlatformSends`
  adds the last (`LinkSends`), `Connect` loses all (`LinkReconnects`), and no other step is seen.
* `SendQueueProofs!TypeCorrect`, `SendQueueProofs!Bounded`: `Spec => []QueueBounded`
  for every number of encoders and every queue size.  The bound alone is not
  inductive; `RoomLeft` says that the packets in the list and the encoders that
  have found room and not inserted yet are together no more than the bound.
* `SendQueueProofs!AllFreed`: `Spec => []NothingLeft` (after stop the list is empty and every buffer
  freed, or lost by a failed allocation).  `Covered` says that what was ever
  filled is held by an encoder, listed, being sent, freed or leaked, and `Stopped`
  that no encoder is left when the list is cleared; with them the end has nowhere else to put a buffer.
* `SendQueueProofs!InOrder`: `Spec => []SentInOrder`.  What is sent must not be older than what
  was sent before, so that the order of what waits has to be kept too: `Ordered` for
  the packet being sent and those behind it, and `NoneNewer`, that none of them is as new as a
  buffer its encoder still holds.
* `SendQueueProofs!OnceOnly`: `Spec => []BuffersOnce`.  Numbers that rise keep the waiting
  packets apart from each other (`Order` again); `Apart` keeps what is held or waits
  apart from what was freed or leaked; `Sizes` says that the sets whose sizes are compared are finite.
* `SendQueueProofs!Refines`: `Spec => ImplementsQueue`.  It takes all of the above: what a step takes out
  of use is one buffer and nothing else (`Exact`: the three kinds of buffers in use are apart, and none of them
  was given up), the packet sent is newer than the last of its encoder (`Ordered`), and nothing is in use
  when stop ends (`Covered`, `Stopped`).
* `LiveStreamProofs!TypeCorrect`: `Spec => []TypeOK` (from `LiveAssumption`, as the three below), which
  bounds the list.  Needed besides: only key pictures have and bring parameter sets
  (`Proper`), and the sink never knows newer ones than the camera (`latest <= camera`).
* `LiveStreamProofs!OnlyLive`: `Spec => []LiveOnly`.  `Since` says that with a connection the list holds
  nothing older; it holds because a publication empties the list, although the list fills again without a connection.
* `LiveStreamProofs!AllDecodable`: `Spec => []Decodable`, for any number of parameter sets, changes of
  level and connections.  `Supply` says of every key picture that waits that when its turn comes its
  parameter sets are those shown, or were brought by a packet before it with none of others
  between, or were missed (`Supplied`); that the same holds of the next key picture, if it is to come without; and that nothing
  that relies on earlier packets waits before the first parameter sets have been sent or missed.
  All of it holds while the connection is alive; after a failed send the sink believes
  headers to be sent that are not, which only the close and the next publication repair.
* `LiveStreamProofs!SafeHandler`: `Spec => []HandlerSafe`.  `Watched` adds that the handler of a closed socket
  is watched only when the stream is to be closed before the next `select`, and that a descriptor is
  forgotten, or a handler left without a connection, only in the exception `overtaken` names.
* `PlayListProofs!TypeCorrect`: `Spec => []TypeOK` (from `PlayAssumption`, as the four below).
  Needed besides: what an entry's `ctx` points to is of the kind that its type says (`Proper`).
* `PlayListProofs!SessionsOpen`: `Spec => []SessionsListed`.  `Sessions` adds that no
  session has two entries, without which removing one could leave the other behind, and that
  a session still to be made has none.
* `PlayListProofs!LiveFirst`: `Spec => []LiveFound`.  `FirstLive` says that the first entry
  of every channel is a live one, wherever other entries are put in or taken away.
* `PlayListProofs!OneTaker`: `Spec => []OneConsumer`.  `SlotTaken` says that the slot of a listed
  record has a channel, so that no order can be given it; `Alone` says that from the start of
  the records to the end of a round the channel of a listed record is not published.
* `PlayListProofs!FilesEnd`: `Spec => []FilesClosed`.  `Files` adds that no two slots record the same
  channel, and that a slot whose file is open has its entry, unless an order has overwritten it.

* `RvodPlaybackProofs!TypeCorrect`: `Spec => []TypeOK` (from `RvodAssumption`, as the four below).
  Needed besides: what waits was read between `from` and `next`, and a mark was queued at the end
  (`Placed`); what is gone was read before `next` (`Gone`).  `ReadableIs` turns the set of the
  samples a fill reads into an interval: all up to a first that cannot be read.
* `RvodPlaybackProofs!InOrder`: `Spec => []PlayedInOrder`.  The list is ordered after what was
  sent (`Ordered`).  That the first picture is the first to go needs `Begun`: nothing waits before
  it, so that the list has room for it when it is read, unless it cannot be read at all or the
  end has been reached.  For that, pictures must be read before sound in a round, and the first
  one must be due.
* `RvodPlaybackProofs!Accounted`: `Spec => []SamplesAccounted`, which is inductive together with
  `Ordered`: a packet that leaves the list takes away one id only.
* `RvodPlaybackProofs!EndsAtEnd`: `Spec => []EndAtEnd`: when the end has been announced, every
  sample but the last of each track has been sent or discarded.  `Earlier` says that what a packet's
  `ctl` knows to be read is gone or waits before the packet, also of the other track;
  `Finishing`, that after the end nothing more is read or sent.
* `RvodPlaybackProofs!Refines`: `Spec => ImplementsPlayback`.  A packet that leaves the list is
  played, dropped or the end mark (`PlaysOrDrops`), a fill drops what the list does not take (`FillDrops`),
  and a seek begins anew with nothing sent or discarded (`SeekSeeks`).  That no sample is passed over and none comes
  before the first picture are the invariants above; that sound has a picture before it needs one more,
  `Headed`: when the pictures' header is marked as sent, a picture has been sent since the start or the last seek.

Only model-checked: all liveness properties (which, like `ENABLED`, are out of the prover's
reach), and the violations of section 6, and `StreamLifecycle`: what could be proved of it would hold only if
publications did not overlap, which the code does not ensure (`gm_restart`).  No module a theorem speaks of
uses recursive operators, which the provers do not support.

## 6. Disagreements found between code and documents

Each is the outcome of a run that is expected to fail.

* `framing_reconnect`: `ont_device_connect` keeps `rcv_length`.  After a
  reconnection in the middle of a message the new connection's first bytes are
  taken for the rest of the old message, and "success handle one message"
  (`protocol.c:314`) hands on what no one sent.
* `rvod_end`: "check if both video and audio send finished"
  (`video_rvod_mp4.c:581`) is true one sample early for both tracks, and the
  packet that meets the test on dequeuing is taken for the end mark: the last
  sample is never sent.
* `gm_restart`: a publication that finds `_start_play` set returns
  `ONT_RET_CHANNEL_ALREADY_START` ("return this value, i guess", `gm813x/ont_video_play.c:609`).
  The stop with which every stream begins sets it back (`:557`, `:636`), so that it is 0 while
  the stream runs.  A second publication is accepted and stops the first stream together with the stream's own
  send thread: both wait for the same threads, which is undefined, both clear the queue and
  close the connection, and the send thread may still be at it when the next stream has begun,
  whose connection and encoders it then ends.
* `record_cut`: "when status is 1, the length of the record" (`device.h:119`, of an order's
  seconds).  `_checkcloseFlag` (`ont_video_play.c:337`) takes the context of a record for
  that of a live channel and its channel number for a connection, so that the round after the
  one that began a record ends it.

Others were met that no run states.

* Protocol: a callback that runs inside a call that waits and makes a call of its own advances
  `seq_snd`, with which the outer call compares ("if it's response of the message",
  `protocol.c:413`): `OwnAnswer` fails with `NestDepth = 2`.  No callback of the samples does so; `AnswersMatch` excludes it.
  And the wait of `protocol.c:408` has no end while other messages come (`Flooded`).
* GM813x: whether `RTMP264_Connect` has failed is not looked at (`gm813x/ont_video_play.c:565`), and
  the connection it has freed then is used by the threads and freed again.
* Session: the GM813x, built for encryption, keeps `encrypt_flag` from one connection to
  the next (section 3, `Readable`).  `video_sample_main.c:326-327` ignores whether the
  platform's time was received, and sets the clock to zero or to the time of an earlier
  session, where `device.h:340` speaks of bringing the platform's time to the device.  An
  auth code is copied over the old one without its terminator (`device.c:193`, `protocol.c:479`), so that a
  shorter one keeps the old one's tail, and the device is refused from then on (`Spoilt`).
* Framing: a message that cannot be decrypted is met again by every later call, since
  `rcv_length`, set to 0 in `protocol.c`, is set to the offset at `__end`.  A header whose length is below the header's own is not refused
  (`protocol.c:271`), and the length of what is to be decrypted wraps (`:296`).
* Playback: a seek in a file without sound never returns, although the code after
  the loop (`video_rvod_mp4.c:733`) shows that such files were thought of.  A playback that
  is paused and then taken to the end of its file reads nothing more from the server and
  hears no resume (`video_rvod_mp4.c:476-484` returns before the notices are read), and one that loses
  its connection after its last sample was read is never closed (`Forgotten`).  A sample
  in the middle of a file that cannot be read is tried for ever (`:513`).
* Live channels: `ctx->fd`, "rtmp_client fd" by `ont_onvif_if.h`, holds an error code
  once a frame is queued on a connection that librtmp has closed (section 3, `HandlerSafe`).
* Records: all channels share the first slot (section 3, `FilesClosed`).  Its `state`
  never returns below 2, so that a program records once.  The entry of a record
  that is sent is made and not put into the list (`ont_video_play.c:440-447`), so that
  its connection is opened and nothing is sent; if the connection fails, every round tries again.
* Commands: the first file of a query's page is computed as a product that may overflow
  (`platform_cmd.c:81`) before page and size are tested (`:100`).

## 7. What is not modelled

* Vendored libraries (librtmp, cJSON, mbedTLS, OpenSSL, live555, mp4v2, gSOAP),
  the RTSP dialogue and the discovery of cameras built on them, and the platform layers' system calls, except
  `tcp_recv` as framing sees it.
* The contents of messages beyond the codes of `DeviceSession`; which platform
  command replies when.
* Of the device API: the channel list, its deletion, the request to push a stream.
* Requests for channel 0, whose number a playback's zeroed entry carries (`ont_video_play.c:78`, `:203`):
  the platform names the channels the device has added, which begin at 1 in `bin/config.json`.
* What the queue of the GM813x goes through when two stops clear it at the same time without
  its lock.
* The linked list as a heap, the byte writer and reader.
* Of a record: what is written into its file, and the sending of it, which the code does not do.
* `status_sync.c`, the configuration, the test program, the platform layer for Windows.
* Of a live channel: the sound's header, and what the packets hold.
* Clocks.

## 8. Plan

In this order; the first eight stand.

1. `DeviceProtocol` with `RequestReply`: done, with four theorems and two corollaries, the refinement among them.
2. `MsgFraming` with `MessageLink`: done in both directions, with five theorems, the refinement among them.
3. `SendQueue` with `LossyQueue`: done, with six theorems, the refinement among them.
4. `RvodPlayback` with `Playback`: done, with five theorems, the refinement among them.
5. `DeviceSession`: done, with five theorems.
6. `LiveStream`: done, with four theorems.
7. `PlayList`: done, with five theorems.
8. `StreamLifecycle`: done, without theorems.  Next: two overlapping stops composed with `SendQueue`.
9. `VideoCmd`: which command replies, the paging of the record query against a
   reference definition over bounded inputs.
10. Of the proofs: abstract specifications of `LiveStream`, `PlayList` and `DeviceSession` with their
   refinements.
11. `List`: `ont_list.c` as a heap, shown to implement a sequence; `Bytes`.
