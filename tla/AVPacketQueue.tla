--------------------------- MODULE AVPacketQueue ---------------------------
(***************************************************************************)
(* AVPacketQueue (pkg/rtsp/avpacket_queue.go): the audio and the video of  *)
(* an RTSP publisher, each with its own clock, become one sequence whose   *)
(* timestamps do not go back.  It has no lock: an interleaved (TCP)        *)
(* publisher has one goroutine that feeds it, a UDP publisher has one for  *)
(* each medium (SetupWithConn).                                            *)
(*                                                                         *)
(* A packet is its timestamp, unsigned of TsMod values (2^32 milliseconds  *)
(* in the code).  The unpacker divides the RTP timestamp by its ticks per  *)
(* millisecond, so it starts over at Wrap (2^32 / 90 for video) already.   *)
(***************************************************************************)
EXTENDS Integers, Sequences

CONSTANTS
  maxQueueSize, \* 128 in the code
  TsMod,        \* how many timestamps there are
  Wrap,         \* where each medium's timestamps start over
  start,        \* the timestamp of each medium's first packet
  Reads,        \* the goroutines that call Feed, with the media each one reads
  MaxFed,       \* bound: packets per medium
  LastClock,    \* bound: how long a medium goes on
  None

Media == {"audio", "video"}
Goroutines == DOMAIN Reads
Other(m) == IF m = "audio" THEN "video" ELSE "audio"

ASSUME QueueConstants ==
  /\ maxQueueSize \in Nat \ {0} /\ TsMod \in Nat \ {0} /\ MaxFed \in Nat
  /\ LastClock \in 0..(TsMod - 1)
  /\ Wrap \in [Media -> 1..TsMod]
  /\ start \in [Media -> Nat] /\ \A m \in Media : start[m] < Wrap[m]
  /\ \A g \in Goroutines : Reads[g] \subseteq Media

VARIABLES
  baseTS,     \* the first timestamp of each medium, -1 before it
  queue,      \* audioQueue, videoQueue
  pc,         \* where each goroutine is in Feed
  front,      \* the two heads a goroutine has read
  panicked,   \* a goroutine asserted the type of a head that was not there
  \* History.
  fed,        \* the timestamps of each medium on its own clock, from 0
  emitted,    \* the timestamps given to onAVPacket, by medium
  lastTs,     \* the last one of either
  backwards,  \* onAVPacket was given a timestamp before lastTs
  overflowed  \* a queue was full once

queueVars == <<baseTS, queue, pc, front, panicked, fed, emitted, lastTs, backwards, overflowed>>

QueueInit ==
  /\ baseTS = [m \in Media |-> -1]
  /\ queue = [m \in Media |-> <<>>]
  /\ pc = [g \in Goroutines |-> "idle"]
  /\ front = [g \in Goroutines |-> None]
  /\ panicked = FALSE
  /\ fed = [m \in Media |-> <<>>]
  /\ emitted = [m \in Media |-> <<>>]
  /\ lastTs = 0 /\ backwards = FALSE /\ overflowed = FALSE
----------------------------------------------------------------------------
\* onAVPacket.
Emit(m, ts) ==
  /\ emitted' = [emitted EXCEPT ![m] = Append(@, ts)]
  /\ lastTs' = ts
  /\ backwards' = (backwards \/ ts < lastTs)

\* The clock of a medium, from its first packet on, only grows (packets that come
\* out of the unpacker are in order).
Clocks(m) ==
  {t \in 0..LastClock : IF fed[m] = <<>> THEN t = 0 ELSE t >= fed[m][Len(fed[m])]}

\* The timestamp the unpacker gives a packet.
unpacked(m, t) == (start[m] + t) % Wrap[m]

Rebase_Raw(m, raw) == raw  \* mutant
Rebase_OtherBase(m, raw) == (raw - baseTS'[Other(m)]) % TsMod  \* mutant

Rebase(m, raw) == (raw - baseTS'[m]) % TsMod

\* The queue is full with this packet: its head goes out at once.
pushFull(m, q) ==
  queue' = [queue EXCEPT ![m] = Tail(q)] /\ Emit(m, Head(q))

\* Feed up to its loop; a push into a full queue fails and is ignored.
Push(g, m) ==
  /\ pc[g] = "idle" /\ m \in Reads[g] /\ Len(fed[m]) < MaxFed
  /\ \E t \in Clocks(m) :
       LET raw == unpacked(m, t)
           q == IF Len(queue[m]) = maxQueueSize THEN queue[m]
                ELSE Append(queue[m], Rebase(m, raw))
       IN
       /\ baseTS' = [baseTS EXCEPT ![m] = IF @ = -1 THEN raw ELSE @]
       /\ fed' = [fed EXCEPT ![m] = Append(@, t)]
       /\ \/ /\ Len(q) = maxQueueSize
             /\ pushFull(m, q)
             /\ overflowed' = TRUE /\ UNCHANGED pc
          \/ /\ Len(q) < maxQueueSize
             /\ queue' = [queue EXCEPT ![m] = q]
             /\ pc' = [pc EXCEPT ![g] = "loop"]
             /\ UNCHANGED <<emitted, lastTs, backwards, overflowed>>
  /\ UNCHANGED <<front, panicked>>

BothWait == \A m \in Media : queue[m] # <<>>

\* The loop's condition.
LoopTest(g) ==
  /\ pc[g] = "loop"
  /\ pc' = [pc EXCEPT ![g] = IF BothWait THEN "front" ELSE "idle"]
  /\ UNCHANGED <<baseTS, queue, front, panicked, fed, emitted, lastTs, backwards, overflowed>>

\* Front of both; a missing head is nil, and its type assertion panics.
Fronts(g) ==
  /\ pc[g] = "front"
  /\ \/ /\ \A m \in Media : queue[m] # <<>>
        /\ front' = [front EXCEPT ![g] = [m \in Media |-> Head(queue[m])]]
        /\ pc' = [pc EXCEPT ![g] = "pop"]
        /\ UNCHANGED panicked
     \/ (\E m \in Media : queue[m] = <<>>) /\ panicked' = TRUE /\ UNCHANGED <<front, pc>>
  /\ UNCHANGED <<baseTS, queue, fed, emitted, lastTs, backwards, overflowed>>

\* Which head goes first; on a tie the video.
earlier(f) == IF f["audio"] < f["video"] THEN "audio" ELSE "video"

\* PopFront (which fails on an empty queue) and the callback.
Pop(g) ==
  /\ pc[g] = "pop"
  /\ LET m == earlier(front[g]) IN
     /\ queue' = [queue EXCEPT ![m] = IF @ = <<>> THEN @ ELSE Tail(@)]
     /\ Emit(m, front[g][m])
  /\ pc' = [pc EXCEPT ![g] = "loop"]
  /\ front' = [front EXCEPT ![g] = None]
  /\ UNCHANGED <<baseTS, panicked, fed, overflowed>>

Step(g) == LoopTest(g) \/ Fronts(g) \/ Pop(g) \/ \E m \in Media : Push(g, m)

QueueNext == ~panicked /\ \E g \in Goroutines : Step(g)

QueueSpec == QueueInit /\ [][QueueNext]_queueVars
----------------------------------------------------------------------------
Timestamps == 0..(TsMod - 1)

QueueTypeOK ==
  /\ baseTS \in [Media -> Timestamps \cup {-1}]
  /\ queue \in [Media -> Seq(Timestamps)]
  /\ pc \in [Goroutines -> {"idle", "loop", "front", "pop"}]
  /\ front \in [Goroutines -> [Media -> Timestamps] \cup {None}]
  /\ \A g \in Goroutines : pc[g] = "pop" => front[g] \in [Media -> Timestamps]
  /\ panicked \in BOOLEAN
  /\ fed \in [Media -> Seq(Timestamps)]
  /\ emitted \in [Media -> Seq(Timestamps)]
  /\ lastTs \in Timestamps
  /\ backwards \in BOOLEAN /\ overflowed \in BOOLEAN

SingleReader == \A g, h \in Goroutines : g = h

\* The publisher stops before the RTP timestamps of either medium wrap.
NoWrap == \A m \in Media : start[m] + LastClock < Wrap[m]

\* Every packet goes out or waits, once and in its medium's order, with the time
\* since its medium's first packet as its timestamp (Feed, "both start from 0").
NothingLost == \A m \in Media : emitted[m] \o queue[m] = fed[m]

\* When Feed returns, at most one medium waits for the other, with fewer than
\* maxQueueSize packets: the latency the queue adds is bounded.
OneMediumWaits ==
  (\A g \in Goroutines : pc[g] = "idle") =>
    /\ \E m \in Media : queue[m] = <<>>
    /\ \A m \in Media : Len(queue[m]) < maxQueueSize

\* The output does not go back in time while no queue was full.
InterleavedUnlessFull == backwards => overflowed

\* "the timestamps of audio and video go out interleaved and increasing".
Interleaved == ~backwards

\* No goroutine asserts the type of a head that is not there.
NeverPanics == ~panicked
=============================================================================
