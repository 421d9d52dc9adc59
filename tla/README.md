# Formal models of siot-av

siot-av (a descendant of lal) is a live streaming server: it takes a stream in
over RTMP or RTSP, or pulls it from an origin, and gives it out as RTMP,
HTTP-FLV, HTTP-TS, RTSP and HLS, and to other servers by relay push. This
directory holds TLA+ modules translated from its Go source, the TLC
configurations that check them, and TLAPS proofs about them.

All paths below are relative to `src/`.

## 1. Inventory

### 1.1 Components, their state and their operations

| Component | Source | State | Operations |
|---|---|---|---|
| Group | `pkg/logic/group.go` | the input (`rtmpPubSession`, `rtspPubSession`, `pullProxy`), four sets of players, `url2PushProxy`, `hlsMuxer`, two GOP caches, `tickCount` | Add/Del of every session kind, `Tick`, `Dispose`, `StartPull`, `KickOutSession`, the broadcast |
| ServerManager | `pkg/logic/server_manager.go` | `groupMap`, one mutex | the observers of every server, `iterateGroup` once a second, statistics, `Dispose` |
| GOP cache | `pkg/logic/gop_cache.go` | metadata, the two sequence headers, a ring of GOPs | `Feed`, `GetGOPCount`, `GetGOPDataAt`, `Clear` |
| RTP sequence numbers | `pkg/rtprtcp/rtp.go` | none | `CompareSeq`, `SubSeq` |
| RTP unpacker | `pkg/rtprtcp/rtp_unpacker*.go` | sorted list of packets, its counted size, the last unpacked number | `Feed` |
| RR producer | `pkg/rtprtcp/rr_producer.go` | highest number, cycles, counters of the last report | `FeedRTPPacket`, `Produce` |
| A/V packet queue | `pkg/rtsp/avpacket_queue.go` | an audio and a video queue, two base timestamps | `Feed` |
| HLS muxer and streamer | `pkg/hls/muxer.go`, `streamer.go`, `m3u8.go` | ring of fragments, the open fragment, its timestamps, the audio cache | `OnFrame`, `Dispose`, fragment open and close, playlists |
| RTMP server session | `pkg/rtmp/server_session.go`, `server.go` | session type, observer, chunk sizes | connect, createStream, publish, play, A/V messages |
| RTMP client session | `pkg/rtmp/client_session.go` and its pull/push wrappers | connection, result channel | `Do`, `Wait`, `Dispose`, the read loop |
| RTMP chunks | `pkg/rtmp/chunk_composer.go`, `chunk_divider.go`, `stream.go` | per-csid headers and partial messages | compose, divide |
| RTSP server | `pkg/rtsp/server.go`, `server_command_session.go`, `base_in_session.go`, `base_out_session.go`, pub/sub sessions | one pub or sub session per connection, channels or ports, unpackers, the A/V queue | OPTIONS ... TEARDOWN, interleaved data, RTP/RTCP |
| RTSP client | `pkg/rtsp/client_*_session.go` | command state, method under way | `Do`, write/read of commands |
| HTTP-FLV, HTTP-TS | `pkg/httpflv`, `pkg/httpts` | connection, `IsFresh`, wait-for-key flags | serve, write, pull |
| HTTP notify and API | `pkg/logic/http_notify.go`, `http_api.go` | a bounded task channel | enqueue, post; statistics, start pull, kick |
| Start and stop | `pkg/logic/entry.go`, `signal_*.go` | the exit channel | the signal handler calls `Dispose` while `RunLoop` runs |
| MPEG-TS | `pkg/mpegts` | the continuity counters of the caller | `PackTSPacket`, the parsers of packets and PES headers |
| Formats | `pkg/avc`, `hevc`, `aac`, `sdp`, `remux`, `rtmp/amf0.go` ... | none (pure functions) | parse, pack |

### 1.2 How they interact

* Each accepted connection has its own goroutine. It calls the ServerManager's
  observers, which take `sm.mutex`, look the group up and call it; the group
  takes `group.mutex`. So the order is always `sm.mutex`, then `group.mutex`.
* Media goes around the manager: a read loop calls the group directly
  (`OnReadRTMPAVMsg` under `group.mutex`, `OnAVPacket` without it).
* The manager's ticker calls `iterateGroup` every second under `sm.mutex`: an
  empty group is disposed of and dropped, any other gets a `Tick`.
* Relay pull and push run in goroutines the group starts; they come back
  through `Add...Session` and `Del...Session`, possibly long after the group
  has changed or is gone.
* Closing a connection (`Dispose`) never removes a session from a group: the
  session's goroutine notices that its read fails and calls `OnDel...`. The
  time in between is where a session is closed but still in the tables.

### 1.3 What is hard here, and what must hold

* **Group.** Many actors, two locks, callbacks that arrive late. One input at a
  time; nothing in the tables that is finished, nothing forgotten that is alive;
  the muxer, the GOP caches and the relay pushes follow the input; dead
  sessions and empty groups go away; a wanted pull or push is tried again.
* **ServerManager.** Groups of one name follow each other; a group is looked up
  under one lock and used under another. Nobody who is connected is lost with
  a group that is erased; shutdown ends; a stop is told after its start; files
  of a stream that ended go away.
* **GOP cache and fan-out.** Ring arithmetic with one slot kept free, slots
  reused without clearing; a player that is let in between two messages of the
  stream. It gets the headers, complete GOPs in order, never the tail of an
  overwritten one, and each later message once.
* **RTP receiver.** Loss, duplication and reordering of UDP packets, a 16 bit
  number that wraps, a list bound by a counter. Frames come out whole, once,
  in order; a ready frame never waits; reports count what was lost.
* **A/V queue.** Two queues of bounded size merged by timestamp: nothing is
  lost, each medium stays in order, the merge is monotonic as promised.
* **HLS and TS.** Fragments that overlap playlists written at other moments:
  what a playlist names exists on disk, sequence numbers never go back. A
  packet's headers, stuffing and data share 188 bytes exactly.
* **RTMP chunks.** State per connection and state per chunk stream: messages of
  interleaved streams come out once, whole and in order.
* **RTMP and RTSP sessions.** Signalling in orders no client of the tests uses;
  timeouts that race the answer; sessions that are registered twice or never
  removed; media that overtakes the answer.

## 2. Plan

### 2.1 Modules

In the order of their weight for the system:

| Module | Models | Composes, refines |
|---|---|---|
| `Group` | one stream's group with every actor that calls it | refines `StreamInput` (one slot that is taken and freed) |
| `ServerManager` | `groupMap`, the observers, the ticker, notifications, shutdown, clean-up of HLS files | |
| `GopCache` | the GOP ring | refines `GopWindow` (the last n GOPs as a sequence) |
| `Fanout` | the broadcast, statement by statement, with players coming and going | extends `GopCache`, so refines `GopWindow` too |
| `SeqNumber` | 16 bit sequence numbers, width as a constant | |
| `RtpUnpacker` | reordering, loss, duplication; frames | extends `SeqNumber` |
| `RtpReceiver` | receiver reports, every packet to both | extends `RtpUnpacker` |
| `AVPacketQueue` | the merge of audio and video, statement by statement | |
| `HlsMuxer` | fragments, live and record playlist, audio cache | |
| `TsPacket` | frames into TS packets, read back by the package's parsers | |
| `ChunkDivider`, `ChunkStream` | RTMP messages into chunks, the wire, chunks into messages | `ChunkStream` extends `ChunkDivider`, refines `MessageChannel` (each message once, in order) |
| `RtmpWire`, `RtmpServerSession`, `RtmpClientSession`, `RtmpSession` | RTMP signalling with both its ends | `RtmpSession` composes the other three |
| `RtspWire`, `RtspServerSession`, `RtspClientSession`, `RtspSession` | RTSP signalling over TCP and UDP with both its ends | `RtspSession` composes the other three |
| `GroupProofs`, `FanoutProofs`, `RtspInputProofs`, `HlsProofs`, `ServerManagerProofs`, `RtmpSessionProofs`, `RtspSessionProofs`, `ChunkStreamProofs` | the theorems | extend the component's module |
| `MC*` | instances for TLC | extend the component's module |

The plan is carried out.

### 2.2 How the modules follow the code

A handler that runs under a mutex is one action; code between two points
where another goroutine can interfere is one action; where the code takes no
lock (`AVPacketQueue.Feed`, the broadcast) each statement that touches shared
state is one. Names are the code's. Variables that the code does not have are
history, and the modules say so. Definitions marked as mutants are faulty
versions of the definition below them: with one of them in its place, the
property it is listed with fails.

* **Group.** The variables are the fields of `Group`; `conn`, `closed`,
  `stalled` stand for the server's connections, `pullPc`/`link` and
  `pushPc`/`pushUrl` for the goroutines `pullIfNeeded` and `pushIfNeeded`
  start and for what their client session has reached. `OnNew...`/`OnDel...`
  actions include the manager's part (look up or create the group). `Tick`,
  `Erase` and `Shutdown` are `iterateGroup` and `ServerManager.Dispose`.
  `hung` becomes true when a handler locks a mutex it already holds; nothing
  that needs the mutex is enabled afterwards. A message is abstracted to its
  feeder, the GOP caches to the set of feeders.
* **ServerManager.** A name's group is absent, alive or disposed of; what
  `Group` models in full is reduced to its input, its other sessions and its
  muxer. `Dispose` is three steps, as its lock and its channel send are places
  to wait; a due clean-up task looks (`CleanupCheck`) and removes
  (`CleanupRemove`). `queue` is the channel of `http_notify.go`, `start`
  remembers what became of a session's start notification.
* **GopCache.** Fields and indices one to one; a message is a model value, and
  is a key frame or not.
* **Fanout.** `bc` are the broadcasts under way: the players still to be
  written to, then the feeding of the cache. With `Locked` a broadcast keeps
  players and other broadcasts out, as `OnReadRTMPAVMsg` does; without it is
  `OnAVPacket`. `joined` are the session tables, `fresh` the sessions' flags,
  `got` is what a connection was given, and `fed` remembers the stream: each
  message with the headers the cache held when it came.
* **RtpUnpacker, RtpReceiver.** The list is a sequence, `size` is the counter
  the code keeps apart from it. The network delivers each packet at most
  `Late` places late, loses it if allowed to, and repeats `MaxDups` packets. A
  packet is its position (single, first, middle, last fragment, aggregate,
  unparsable). `rr` is `RRProducer` with words of `Byte` values to a byte.
* **AVPacketQueue.** Statements of `Feed`, for any assignment of media to
  calling goroutines. `unpacked` is the timestamp the RTP unpacker computes.
* **HlsMuxer.** `OnFrame`, `updateFragment`, `openFragment`, `FlushAudio`
  call each other, so handlers are operators from state to state and only the
  four inputs are actions. What flushes is a parameter of the operators between
  (`flush`): `FlushAudio` goes one level down, where the recursion of the code
  ends (`FlushOfAFlush`). Times are in quarter seconds, so that half a second
  and the rounding to seconds mean something. `segments` holds what each TS
  file contains. Creating a file fails or not for a whole handler. Closing one
  may fail as well (`FeedLost`, `DisposeLost`): `closeFragment` then returns
  with the fragment still opened, over a file that `os` closes only once, so
  every later split fails and every later frame is lost (`closeFailed`). Where
  one frame closes two fragments, the first close may fail in the model and the
  second does not.
* **TsPacket.** A packet is a function from offsets to bytes that carry what
  they stand for, so that one copied over another shows. One action is one
  turn of `PackTSPacket`'s loop; what is read back is what the parsers of
  `ts_packet_header.go` and `pes.go` make of the offsets.
* **ChunkDivider, ChunkStream.** `ReadChunk` is one turn of the loop in
  `RunLoop`. A chunk is a record, and reading is compared with it: if the
  composer expects an extended timestamp that is not there, or a body of
  another size, it goes on in the middle of something (`lost`). What this code
  writes is divided by `message2Chunks` after a `SetChunkSize`; what others
  write follows the RTMP specification and is external. A message of length 0
  has no chunk and is never written.
* **RTMP and RTSP sessions.** The wire is a pair of sequences of named messages
  and the set of ends that are still open (`clientUp`, `serverUp`); RTSP has a
  set of datagrams beside it. `sloop` and `cloop` are what the goroutines of
  the two ends are doing, `called` and `told` what the caller of a client
  session knows, `pub`/`subs` what the group knows. A foreign end asks in the
  order of its protocol, may send one request that cannot be parsed, and may
  close at any time. The group writes media to whoever is in `subs`.

## 3. Runs

Each run finishes within seconds to three minutes on two workers.

| Run | Question | Result |
|---|---|---|
| `Group_input` | Two RTMP publishers, an RTSP one and a relay pull as rivals, HTTP and RTSP players, kicks and shutdown in every order: one input at a time, no table entry of a finished session, nobody forgotten whose connection is open, no GOPs of an earlier publisher, and the input slot refines StreamInput. | holds |
| `Group_live` | Under Fairness, with a publisher, a player, a relay pull and two push goroutines: dead sessions are released, a lost push is retried and never runs twice, a relay pull that nobody watches stops and a group without sessions is erased. | holds |
| `Group_rtspsub` | An RTSP player to whom nothing was sent for an interval makes Tick lock the group mutex it already holds. | violated |
| `Rtp_network` | Packets lost, late by up to three, one repeated, one unparsable, with a list of six and numbers that wrap: what goes out is whole frames, in order, from a bounded list, nothing is given up while the network loses nothing, and receiver reports count the losses truly. | holds |
| `Avq_tcp` | One goroutine feeds both media (an interleaved publisher), four packets each, queues of three: nothing is lost or retimed, and the output goes back in time only after a queue was full. | holds |
| `Hls_mux` | Every stream of up to five messages whose timestamps advance within or beyond a fragment or jump back, with headers at any time, files that cannot be created at times and one that cannot be closed, and a ring of five slots: the playlists tell what the ring and the files hold, a fragment that no jump forced begins with a key frame and holds nothing twice, nothing is lost, and no fragment holds a jump. | holds |
| `Chunk_wire` | Every way to write three messages: this code's division, or a peer with all four formats, interleaved chunk streams, extended timestamps and new chunk sizes: the composer keeps its place, but for two exceptions the property states, and delivers each message once and in order. | holds |
| `Manager` | Two publishers, an RTSP player and a player of any other kind on one stream name, with the ticker, notifications through a full queue, clean-up tasks and a shutdown: nobody connected is lost with an erased group, no stop is told before its start, Dispose ends RunLoop, leftover files go away. | holds |
| `Rtmp` | A push session of this program and a foreign client that publishes or plays against the server sessions of one stream, with refusals, protocol errors, disposals and closed connections: registrations are taken back, the answer precedes the media, no refused publisher reaches a nil observer, and a Do that reached the server gets its result without the help of the timer. | holds |
| `Rtsp` | A pull or push session of this program, against this server or somebody else's, beside a foreign publisher or player, over TCP and UDP, with refusals, 401s, drops, kicks, lost datagrams and closed connections: roles and sockets are released, both ends agree on the channels, Do ends, the end is told. | holds |
| `Fanout` | A player of each kind, let in and out at any moment of a stream of six messages and two inputs: it gets the headers, a key frame, then each message once; what the ring of cached GOPs holds is the window of the last GOP. | holds |
| `Ts` | Two frames, audio or video, of every size around those that fill one or two packets with each set of headers, and of more than 65535 bytes: the package's own parsers read back the bytes, times and lengths; key frames have a packet's size at least, and the times are below 2^30. | holds |

`Group_rtspsub` states what a comment of the code says; the code does
otherwise, and PROJECT.json lists the place as a finding: a player who was sent
nothing for an interval is overdue, and `Tick` drops it by a method that locks
the mutex `Tick` holds. (One that stops reading is another matter, see section
5.)

### 3.1 Variations

What follows is not a regular run. Each changes constants of a regular run and
checks one property that is defined in the module and that the code does not
keep: TLC ends with a counterexample. Deadlock is not checked in any of them.

| Run to start from | Change | Property that fails | The code |
|---|---|---|---|
| `Group_input` | `Spec`; one RTMP publisher and player, no RTSP, no HTTP | `MuxerFollowsInput` | `delRTMPPullSession` (group.go:670) does not look whether the session was ever the input: when a publisher comes first, the pull's failure ends the publisher's muxer, pushes and caches |
| `Group_input` | one RTMP player and one pull only | `NoInputAfterDispose` | `AddRTMPPullSession` (group.go:337) does not look whether the group was disposed of |
| `Group_input` | one RTMP publisher, one player, one pull; no HLS | `BroadcastOnlyInput` | `Pull` gets `group.OnReadRTMPAVMsg` (group.go:878): a pull's messages are broadcast before it is added, or after it was refused |
| `Group_input` | one session of each kind; no HLS | `DisposeReleasesAll` | `Dispose` (group.go:239-280) closes neither RTSP players nor the pull session |
| `Group_input` | one RTSP publisher and nothing else | `NoMuxerWithoutInput` | `Tick` drops an overdue RTSP publisher without `delIn` (group.go:165); the muxer stays and the group is never erased |
| `Group_input` | `FairSpec`; one RTMP publisher and player, two pulls | `WatchedStreamPulled` | a relay pull that `AddRTMPPullSession` refuses (group.go:890) leaves `isPulling` set: no pull is started again |
| `Manager` | two `Callers`, no RTSP or HTTP sessions, `NotifyOn = {}` | `DisposeEndsRunLoop` | `RunLoop` receives from `exitChan` once (server_manager.go:164), and a group disposed of three times sends into a full channel (group.go:241) |
| `Manager` | two RTMP publishers only, `NotifyOn = {}` | `LiveFilesKept` | the clean-up task asks and removes without a lock (group.go:1023-1031) |
| `Manager` | one RTMP publisher and player, `NotifyOn = {}` | `NoUseAfterDispose` | a player that comes after `Dispose` is put into a nil map (group.go:357) |
| `Fanout` | `Locked = FALSE` | `NoConcurrentMapWrite` | `OnAVPacket` broadcasts without the mutex (group.go:533); `EachMessageOnce`, `StartsAtKeyFrame` and `HeadersBeforeMedia` fail as well |
| `Fanout` | `HeadersChange = TRUE` | `HeadersBeforeMedia` | a header is replaced and the GOPs stay (gop_cache.go:108) |
| `Fanout` | none | `ClosedWhenDeleted` | the handlers of HTTP players return without closing the connection (httpflv/server.go:151) |
| `Avq_tcp` | `Wrap <- Early` | `NothingLost` | the RTP timestamp is divided before it wraps (rtp_unpacker_avc.go:102), the base is subtracted modulo 2^32 (avpacket_queue.go:54) |
| `Avq_tcp` | none | `Interleaved` | a full queue gives up its head without looking at the other one (avpacket_queue.go:57) |
| `Avq_tcp` | `Reads <- TwoSockets`, `maxQueueSize = 9`, `MaxFed = 3` | `Interleaved` | two goroutines call `Feed` without a lock (base_in_session.go:162); the output is to be "interleaved and increasing" (avpacket_queue.go:18) |
| `Hls_mux` | none | `WrittenOnce` | `FlushAudio` clears its cache after `OnFrame`, which may flush again (streamer.go:257, muxer.go:277) |
| `Hls_mux` | none | `SplitOnlyWhenLong` | after a forced split the closed fragment's duration is looked at (muxer.go:232): a key frame opens two fragments |
| `Hls_mux` | none | `TargetCovers` | the longest duration is compared with half a second added (muxer.go:366) |
| `Ts` | `SmallKeys = TRUE` | `CarriedWhole` | with an adaptation field the base of the stuffing is one byte short and the data is put after it, over the PES header (pack.go:184-190) |
| `Ts` | `Highs = {0, 1}` | `CarriedWhole` | `packPTS` does not shift the three high bits (pack.go:238), so times from 2^30 ticks on, 3.3 hours, read back as others |
| `Rtp_network` | none | `SizeIsLength` | `insert` counts a repeated packet that it does not insert (rtp_unpacker.go:129) |
| `Rtp_network` | none | `FractionTrue` | `lostInterval <= 0` is asked of an unsigned number (rr_producer.go:89) |
| `Rtp_network` | none | `PackedTrue` | `Pack` writes the extended sequence number two bytes off and then over it (rtcp_pack.go:42-45) |
| `Chunk_wire` | none | `TimestampsKeptAlways` | `absTsFlag` is one for all chunk streams (chunk_composer.go:163-167): a message that ends after another stream's is given its difference once more, or not at all |
| `Rtmp` | no `PushConns`, `OneRole = FALSE`, `MaxSays = 3` | `RegistrationReleased` | `handleTCPConnect` takes back the last role only (rtmp/server.go:79) |
| `Rtmp` | `Waits = FALSE` | `NoNilObserver` | media of a refused publisher reaches a nil `avObserver` (server_session.go:229) |
| `Rtmp` | `DoTimeout = FALSE`, no `PeerConns` | `DoReportsErrors` | the comment of `Do` says "阻塞直到 ... 或者发生错误", blocks until the result or an error (client_session.go:122), but `errChan` is never read (241) and the default time-out is none (73): when the dial is refused `Do` waits for ever |
| `Rtmp` | no `PeerConns` | `NothingAfterTimeout` | the goroutine of a `Do` that timed out goes on |
| `Rtmp` | no `PushConns` | `AVTimeoutSet` | `modConnProps` reads the type before it is set (server_session.go:419, 459) |
| `Rtmp` | no `PushConns` | `EndedIsClosed` | `handleTCPConnect` does not close the connection (rtmp/server.go:77) |
| `Rtsp` | `Transports <- AllOverTCP` | `PlayAnswerFirst` | the player is in the group before PLAY is answered (server_command_session.go:335) |
| `Rtsp` | `FairSpec`, `PeerConns = {}`, `Transports <- AllOverTCP` | `KeepAliveSent` | between two packets `runReadLoop` waits in a read, not for its ticker (client_command_session.go:279) |
| `Rtsp` | none | `RefusalReported` | only a 401 is told from a success (client_command_session.go:545) |
| `Rtsp` | none | `PlayerSocketsReleased` | nothing disposes of a player's session when its connection ends (rtsp/server.go:132) |
| `Rtsp` | `QuietWhenDropped = FALSE` | `SocketsReleased` | a SETUP that is under way when the ticker drops the publisher opens sockets nobody closes |
| `Rtsp` | `OneRole = FALSE` | `RolesReleased` | of a publisher and a player on one connection only the publisher is taken back (rtsp/server.go:130-134) |

### 3.2 Bounds, and why they are enough

* **Group.** In `Group_input` two rivals of the kind that competes with itself
  and one of each other kind, with relay pull and HLS; in `Group_live` one of
  each that the liveness properties name, and two push goroutines for one
  target. `CheckInterval` 2, so that a session may be seen alive once before it
  is seen stalled. The hazards are races between two actors and one handler of
  a third. Symmetry is used in the safety run only.
* **ServerManager.** One name (names share nothing but `sm.mutex` and the
  queue), two publishers of different protocol, so that one may come while the
  other's group is being erased, and two players: one that erasing asks about
  like any other, and an RTSP one, which is told of differently. A queue of one
  is full at once. One caller of `Dispose`.
* **GopCache, Fanout.** `GopNum` 1 (a ring of two) and six messages under two
  inputs: the ring wraps, is cleared and wraps again. A player of HTTP-FLV and
  one of HTTP-TS, one of them at a time; RTMP players share HTTP-FLV's path.
* **RtpUnpacker, RtpReceiver.** Window 16 (numbers modulo 64) and numbers that
  wrap within the run; frames of one to three fragments, ten packets; packets
  late by up to three, and a list of six: just enough for what can wait behind
  a late packet (`RoomForLate`, which the module of the run asserts), and short
  enough to overflow when one is lost. With a list of five `BufferSound` fails.
* **AVPacketQueue.** Queues of three, four packets per medium: a queue fills,
  drains and fills again. Timestamps of eight values.
* **HlsMuxer.** `FragmentNum` 2 (ring of five), five messages: the live window
  slides. A message may fill a fragment by itself; `ForceFactor` is 10 in the
  code and 2 in the runs, so that two messages without a key frame between them
  jump ahead far enough to force a split, as one that goes back does.
* **TsPacket.** The real packet size, frames around the sizes that fill one and
  two packets with every set of headers, and around 65535 bytes, where the PES
  header cannot tell the length any more.
* **ChunkStream.** Three messages (one of them may be `SetChunkSize`) on two
  chunk streams and the control stream, of none to three units with chunks of
  one to three: whole, two and three chunks. Timestamps modulo 8 with three as
  the greatest that fits a header: below, at and above it. The exceptions in
  `InSync` and `TimestampsKept` are what the code does wrong, and no more.
* **RTMP sessions.** A push session of this program and a foreign client on one
  stream: they compete as publishers, or one plays what the other publishes.
  Each sends one message of media at a time, the foreign one asks twice.
* **RTSP sessions.** A session of this program, one over TCP and one over UDP,
  beside a foreign client; audio and video, one packet under way per line.

`CHECK_DEADLOCK FALSE` where the system stops because the input ends, the bound
on it is reached, or the server is shut down.

### 3.3 Fairness

* **Group.** Weak fairness of the ticker (`time.Ticker` in `RunLoop`), of
  goroutines whose connection was closed (their read returns an error), of
  relay goroutines that have an answer or a timeout, and of waiting for
  `sync.Mutex`, which hands over to a starving waiter.
* **ServerManager.** Weak fairness of the ticker, of a caller of `Dispose` and
  of a due clean-up task; strong fairness of the exit, as `select` chooses
  among what is ready at random.
* **RTMP and RTSP sessions.** Weak fairness of each goroutine of this program
  that has something to read, to write or a closed connection. RTSP's time-out
  of `Do` is fair too, where one is set; RTMP's may fire and is never relied on:
  `ConnectedDoReturns` is the answer's doing.

Nothing is assumed of peers: players and publishers may stay silent for ever,
origins may never answer before the timeout.

## 4. Proofs

All theorems hold for every value of the constants that satisfies the module's
ASSUMEs.

* **Group.** `TypeCorrect`, `OneInput`, `NothingLost`, `PushGoroutineOwnsTarget`,
  `NoGhosts`, `CacheOfCurrentInput`, and `ImplementsInputSlot`: every step maps
  to a step of `StreamInput` or a stutter. The invariants are inductive together with the
  types, `PushOwned` with the addition that a goroutine's stage and its
  target's flags agree.
* **GopCache.** `RingImplementsWindow`: the ring refines the window. The
  mapping reads the window through `GetGOPDataAt`; the argument is arithmetic
  on the two indices modulo `gopNum + 1`. `TypeCorrect`: the indices stay in
  the ring.
* **RTP.** `SeqArithmeticSound`: `SubSeq` and `CompareSeq` compute difference
  and order of the unwrapped numbers while they are less than a quarter of the
  range apart; `CompareAntisymmetric` holds at any distance. `LossReportTrue`,
  for any window, network and number of packets that does not fill the window
  (`Total < Window`): the producer's extended number is as far from the first
  packet's as the newest packet that came, and it has counted as many packets
  as came, so the difference is what was lost, less what was repeated. The
  proof counts finite sets.
* **RTP unpacker.** `WholeFramesOnly`, `FramesInOrder` and `ListBounded`, for any
  network and list, if the sender cuts a frame into one packet or into a start,
  middles and an end (`WellCut`). The invariant is that the list is strictly
  sorted and newer than what went out, and that what went out is frames of the
  sender in order; a gapless run from a start to an end is then one frame.
  `NothingGivenUpNeedlessly` assumes `RoomForLate`: the list has room for the
  longest frame and for what comes late or twice beside it. Its invariant
  (`Kept`) says of every packet that came and neither waits nor went out that it
  is before all that wait, that it is out of reach of a packet still to come,
  and that it is before the first frame that went out or nobody can parse it;
  and that nothing is missing between the first and the last frame that went
  out. When the list overflows, its sorted packets reach so far (`Spread`) that
  nothing before its head can still come, and a head that makes no frame has
  lost a part of it, unless nobody can parse it (`HeadIsBad`). The loop of
  `Feed`, the sender's packets and the runs of numbers need induction; the proof
  gets it from the well-ordering of the natural numbers (`LeastNat`), which
  speaks of sets, not operators.
* **AVPacketQueue.** `TypeCorrect` for any number of goroutines.
  `OneReaderIsSound` for one calling goroutine (`SingleReader`) and before the
  RTP timestamps start over (`NoWrap`): both assumptions are necessary, as the
  variations show. The inductive invariant says that a queue is a suffix of
  what was fed, that what was fed is sorted, and that nothing that waits or is
  still to come is earlier than the last packet that went out, unless a queue
  was full.
* **Fanout.** `NoSeam`, `NothingBeforeItsKeyFrame`, `DecodableWithWhatCameBefore`,
  for any players, inputs, numbers of messages and of kept GOPs. All assume
  `Locked`: messages come under the group's mutex, as they do from an RTMP
  publisher or a pull; the last assumes `~HeadersChange` besides. With either
  assumption dropped TLC finds the property violated. Under the mutex one
  message is under way at a time, to players that cannot leave meanwhile. On
  that rest three invariants that speak of the cache and of the players alike.
  `WholeInv`: what the cache holds, flattened, and what a player has are parts
  of the stream without a gap, up to the message before the one under way, or
  to that one where it has arrived. `KeyInv`: a player that is not fresh has
  had a key frame if the cache has. `HeaderInv`: the last header of each kind a
  player has is the cache's, or the one under way. A fresh player's turn is
  where the cache's part becomes the player's. What the cache is fed turns one
  GOP of the ring, so the proofs need what `FlattenSeq`, a fold, makes of a
  sequence that grows, loses its head or has its last part grow.
  `PlayersFindTheWindow`: the group uses the cache as its own specification
  allows, with the mutex or without it.
* **HlsMuxer.** `HlsTypeCorrect`, `PlaylistsAlwaysTrue`, `FragmentsStandAlone`,
  `NoMessageLost` and `JumpsSplit`, for any durations, number of fragments and
  stream, with files that cannot be created. The invariant (`Sound`) is a
  predicate of the state that a handler hands to the next, as muxer and streamer
  call each other: each of their operators preserves it and says what it adds to
  the files (`HlsStep`). Its parts are that slot `n % RingSize` of the ring holds
  fragment `n` for the last `FragmentNum` fragments and the open one, that the
  record playlist is the closed files, that what is kept is in no file between two
  handlers, and, for `JumpsSplit`, that the messages of each file lie in one
  window, for the open file the one of its own time. `FragmentsStandAlone` adds
  (`KeyInv`) that only audio is kept and that between two handlers the open file,
  if it was not forced and there is video, holds its key frame already; inside a
  handler it holds only audio yet. `FlushOfAFlush` shows that
  `FlushAudio`, which goes one level down, is what the code's mutual recursion
  computes in every such state: a flush inside a flush finds a fragment that
  begins at its own time. Assumed is that a jump back is not shorter than what
  the streamer keeps (hls.go:44-46: 300 and 1000 milliseconds).
* **TsPacket.** `FramesCarriedWhole`, for frames and packets of any size, with
  `~SmallKeys` and `Highs \subseteq {0}`: the two variations of 3.1 show what
  happens otherwise. The headers are followed cell by cell from where they are
  written to where a full packet leaves them or stuffing moves them
  (`Carried`), and from there into the parsers (`Reads`). The invariant adds
  that a key frame not yet begun fills its first packet, so the headers of an
  adaptation field are never moved.
* **ServerManager.** `NobodyLost` and `NoGhosts` share one invariant: the types
  of the tables, that a session which reached its callback has a name, and the
  two properties themselves, each of which the other's steps need. It holds
  for any number of names, sessions and callers of `Dispose`.
  `StopsFollowStarts` needs three more facts: a start that waits is in the
  queue, a stop in the queue is of a session that is gone (so no start of it
  can follow), and who was in a group had its start told, waiting or lost.
* **RTMP sessions.** `RegistrationsReleased` assumes `OneRole`: other clients
  publish or play once per connection. The invariant bounds what can be on the
  wire: no `publish` travels to the server on a connection that plays, and no
  `play` on one that publishes, so `stype`, which `handleTCPConnect` reads last,
  is the role the group knows. `AnswersFirst`: whoever is in the group's table,
  or about to enter it, has its answer under way, has heard it, or is no longer
  there; media is only ever appended behind. (`OneRole` is needed because the
  client's `role` is forgotten when it asks again.)
  `RefusedPublisherHarmless` assumes `Waits` besides: a client sends media only
  when it was told that it may publish. Then one request or answer at a time
  travels on a connection, no media travels behind a `publish`, and a session
  that was refused is closed before its loop reads again, with nothing in its
  read buffer that it could hand to the missing observer.
* **RTSP sessions.** The invariant is about turns: on each connection one
  request or answer is under way, the one of the step the client has reached,
  and what the server holds of a publisher follows from the number of answers
  it has given. So a channel is always the one the medium has in the SETUP of
  both ends (`ChannelsMeanTheSame`), and a publisher's sockets are open only
  while the group knows it (`NothingLeftBehind`). `OneRole` is assumed of both,
  `QuietWhenDropped` (no request under way when the ticker drops a publisher)
  of the second; the variations show that neither can be left out.
  `RolesForgotten` is the part of `SessionsReleased` that needs `OneRole` only.
* **ChunkStream.** `ReadsWhatIsThere` and `ImplementsMessageChannel`, for any
  number of chunk streams and any sizes. For each chunk stream, what the
  composer has of a message, what of it is on the wire and what the sender has
  left make up the message's body, and the fields the composer keeps, with
  those of the header on the wire, are the message's; both ends cut by the same
  chunk size when the wire is empty. Once the composer is out of step nothing
  happens any more, so the invariant then keeps only how that came about: the
  two exceptions in `InSync`. Assumed is that a message's length is no wider
  than a timestamp (24 and 32 bits in RTMP). The bodies need lemmas about parts
  of sequences, this code's division one about the number of chunks.

Only model-checked: liveness (it needs ENABLED), and what is not named above of
the manager and the sessions. The bounds named in 3.2 are of the runs only.

## 5. What is not modelled

* Bytes: the digests of the RTMP handshake, AMF0, FLV tags, PAT and PMT, SDP,
  NAL units. Conversions without state are the unit tests' business.
* Statistics and logging, except where a decision reads them (`IsAlive`), and
  the reads of the HTTP API. `GetStat` keeps the statistics of a pull that has
  ended (group.go:581), and the video codec is never recorded when the audio
  header came first (group.go:814).
* RTSP: PLAY without DESCRIBE (a nil session), RTCP from players, the ticks of
  players; the packets a UDP client sends to open its NAT; that a UDP client
  without GET_PARAMETER spins; kicks of RTSP players, which `KickOutSession`
  does not implement (group.go:634).
* Writes that block. `base_out_session.go:164` and `:176` write RTP to a player
  synchronously, without a time-out and under `group.mutex`
  (`RtspServerSession.OnRTPPacket`): a TCP player that stops reading blocks its
  group, and then the ticker, in `conn.Write`. In the models a write succeeds at
  once or, where they say so, fails.
* HLS: errors of writing to a fragment or a playlist, which the code only logs.
* HTTP-FLV pull, STUN, the HLS file server, configuration, the demos.
* HTTP-TS audio, which is batched: `Fanout` states its properties of the video.
