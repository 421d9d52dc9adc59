------------------------------ MODULE HlsMuxer ------------------------------
(***************************************************************************)
(* The HLS muxer (pkg/hls/muxer.go) with its streamer (streamer.go): the   *)
(* messages of one input become TS fragments, a live playlist of the last  *)
(* FragmentNum of them and a record playlist of all.                       *)
(*                                                                         *)
(* Muxer and streamer call each other (openFragment flushes the audio the  *)
(* streamer has kept, which comes back as a frame), so a handler is an     *)
(* operator from state to state.  A message is its number in fed; times    *)
(* are in units of which Second make a second.                             *)
(***************************************************************************)
EXTENDS Integers, Sequences, SequencesExt, FiniteSets

CONSTANTS
  Second,               \* units in a second (even)
  FragmentDuration,     \* MuxerConfig.FragmentDurationMS
  FragmentNum,          \* MuxerConfig.FragmentNum
  ForceFactor,          \* a jump of so many fragment durations (10) forces a split
  negMaxfraglen,        \* a jump back by more than this forces a split
  maxAudioCacheDelayByAudio, maxAudioCacheDelayByVideo,
  Deltas,               \* steps of the input's timestamps
  MaxMsgs               \* bound: messages

ASSUME MuxerConstants ==
  /\ {Second, FragmentDuration, FragmentNum, ForceFactor} \subseteq Nat \ {0}
  /\ {negMaxfraglen, maxAudioCacheDelayByAudio, maxAudioCacheDelayByVideo, MaxMsgs} \subseteq Nat
  /\ Deltas \subseteq Int
  /\ maxAudioCacheDelayByVideo <= negMaxfraglen

VARIABLES
  m,          \* Muxer and Streamer
  now,        \* the input's timestamp
  fed,        \* the audio and video messages fed, [kind, key, ts]
  disposed,
  diskFailed, \* a file could not be created or closed once
  closeFailed \* the file of the fragment that is open could not be closed

vars == <<m, now, fed, disposed, diskFailed, closeFailed>>

RingSize == 2 * FragmentNum + 1
Slots == 0..(RingSize - 1)
NoFragment == [id |-> -1, duration |-> 0, discont |-> FALSE]

Init ==
  /\ m = [frag |-> 0, nfrags |-> 0, frags |-> [i \in Slots |-> NoFragment],
          opened |-> FALSE, fragTS |-> 0,
          spspps |-> FALSE, adts |-> FALSE, audioCache |-> <<>>, audioCacheTS |-> 0,
          recordMax |-> 0,
          segments |-> <<>>,  \* the TS files by fragment id: their messages, and how they began
          playlist |-> [seq |-> 0, target |-> 0, entries |-> <<>>, ended |-> FALSE],
          record |-> [target |-> 0, entries |-> <<>>]]
  /\ now = 0 /\ fed = <<>> /\ disposed = FALSE
  /\ diskFailed = FALSE /\ closeFailed = FALSE
----------------------------------------------------------------------------
(* Playlists.                                                              *)

getFrag(x, n) == (x.frag + n) % RingSize
getCurrFrag(x) == getFrag(x, x.nfrags)
getFragmentID(x) == x.frag + x.nfrags

incrFrag_Always(x) == [x EXCEPT !.nfrags = @ + 1]  \* mutant

incrFrag(x) ==
  IF x.nfrags = FragmentNum THEN [x EXCEPT !.frag = @ + 1] ELSE [x EXCEPT !.nfrags = @ + 1]

\* The loop in writePlaylist that looks for the longest fragment.
maxFrag(x) ==
  FoldLeft(LAMBDA longest, i : LET d == x.frags[getFrag(x, i - 1)].duration
                               IN IF d > longest THEN d + (Second \div 2) ELSE longest,
           FragmentDuration, [i \in 1..x.nfrags |-> i])

writePlaylist(x, isLast) ==
  [x EXCEPT !.playlist = [seq |-> x.frag, target |-> maxFrag(x) \div Second,
                          entries |-> [i \in 1..x.nfrags |-> x.frags[getFrag(x, i - 1)]],
                          ended |-> isLast]]

newest_Current(x) == x.frags[getCurrFrag(x)]  \* mutant

newest(x) == x.frags[getFrag(x, x.nfrags - 1)]

\* updateTargetDurationInM3U8 never lowers the target in the file.
writeRecordPlaylist(x) ==
  LET d == newest(x).duration
      longest == IF d > x.recordMax THEN d + (Second \div 2) ELSE x.recordMax
      target == longest \div Second
  IN [x EXCEPT !.recordMax = longest,
               !.record = [target |-> IF target > @.target THEN target ELSE @.target,
                           entries |-> Append(@.entries, newest(x))]]

\* With a broken disk neither playlist is replaced.  (That CloseFile fails is below.)
closeFragment(x, isLast, disk) ==
  LET closed == incrFrag([x EXCEPT !.opened = FALSE])
  IN IF ~x.opened THEN x
     ELSE IF disk THEN writeRecordPlaylist(writePlaylist(closed, isLast))
     ELSE [closed EXCEPT !.recordMax =
             IF newest(closed).duration > @ THEN newest(closed).duration + (Second \div 2) ELSE @]
----------------------------------------------------------------------------
(* Frames.  An audio frame holds every message the streamer had kept.       *)
(* openFragment flushes them, which makes a frame of them, for which a      *)
(* fragment may be opened once more: what flushes, x \odot disk, is a       *)
(* parameter.                                                               *)

opening(x, ts, discont) ==
  LET id == getFragmentID(x) IN
  [x EXCEPT !.opened = TRUE, !.fragTS = ts,
            !.frags[getCurrFrag(x)] = [id |-> id, duration |-> 0, discont |-> discont],
            !.segments = Append(@, [id |-> id, msgs |-> <<>>, discont |-> discont,
                                    video |-> x.spspps])]

openFragment(_ \odot _, x, ts, discont, disk) ==
  IF x.opened \/ ~disk THEN x ELSE opening(x, ts, discont) \odot disk

forced_Never(x, ts) == FALSE  \* mutant

\* The timestamp is far ahead, or back, of where the fragment began.
forced(x, ts) ==
  \/ ts - x.fragTS > FragmentDuration * ForceFactor
  \/ x.fragTS - ts > negMaxfraglen

\* The duration that counts is the one of the fragment that was open at the start.
updateFragment(_ \odot _, x, ts, boundary, disk) ==
  IF ~x.opened THEN IF boundary THEN openFragment(\odot, x, ts, TRUE, disk) ELSE x
  ELSE
    LET f == getCurrFrag(x)
        y == IF forced(x, ts)
             THEN openFragment(\odot, closeFragment(x, FALSE, disk), ts, TRUE, disk) ELSE x
        z == IF ts - y.fragTS > y.frags[f].duration
             THEN [y EXCEPT !.frags[f].duration = ts - y.fragTS] ELSE y
    IN IF ~y.opened THEN y
       ELSE IF z.frags[f].duration < FragmentDuration \/ ~boundary THEN z
       ELSE openFragment(\odot, closeFragment(z, FALSE, disk), ts, FALSE, disk)

isBoundary_AnyAudio(x, frame) ==  \* mutant
  IF frame.kind = "audio" THEN TRUE
  ELSE frame.key /\ (~x.adts \/ ~x.opened \/ x.audioCache # <<>>)

\* Where a new fragment may begin: any audio of a stream without video, or a key
\* frame, if there is audio only when there is some to begin with.
isBoundary(x, frame) ==
  IF frame.kind = "audio" THEN ~x.spspps
  ELSE frame.key /\ (~x.adts \/ ~x.opened \/ x.audioCache # <<>>)

OnFrame(_ \odot _, x, frame, disk) ==
  LET y == updateFragment(\odot, x, frame.ts, isBoundary(x, frame), disk)
  IN IF y.opened
     THEN [y EXCEPT !.segments[Len(y.segments)].msgs = @ \o frame.msgs] ELSE y

keptAudio(x) == [kind |-> "audio", key |-> FALSE, ts |-> x.audioCacheTS, msgs |-> x.audioCache]

flush(_ \odot _, x, disk) ==
  IF x.audioCache = <<>> THEN x
  ELSE [OnFrame(\odot, x, keptAudio(x), disk) EXCEPT !.audioCache = <<>>]

\* A flush inside a flush finds a fragment that began with the frame's own time, so
\* it opens none: FlushAudio = flush(FlushAudio, ...), as the code has it.
flushNever(x, disk) == x
flushInside(x, disk) == flush(flushNever, x, disk)
FlushAudio(x, disk) == flush(flushInside, x, disk)

keptTooLong(x, ts, delay) == x.audioCache # <<>> /\ x.audioCacheTS + delay < ts

flushOld(x, ts, delay, disk) == IF keptTooLong(x, ts, delay) THEN FlushAudio(x, disk) ELSE x

\* A key frame needs the parameter sets; without them it is dropped.
feedVideo(x, i, key, ts, disk) ==
  IF key /\ ~x.spspps THEN x
  ELSE OnFrame(FlushAudio, flushOld(x, ts, maxAudioCacheDelayByVideo, disk),
               [kind |-> "video", key |-> key, ts |-> ts, msgs |-> <<i>>], disk)

cached(x, i, ts) ==
  [x EXCEPT !.audioCache = Append(@, i),
            !.audioCacheTS = IF x.audioCache = <<>> THEN ts ELSE @]

feedAudio(x, i, ts, disk) ==
  IF ~x.adts THEN x
  ELSE cached(flushOld(x, ts, maxAudioCacheDelayByAudio, disk), i, ts)
----------------------------------------------------------------------------
(* CloseFile fails: the disk tells of an error late.  closeFragment returns *)
(* it, updateFragment too, and the frame is dropped.  The fragment stays    *)
(* opened; but an os.File is closed only once, so that from now on every    *)
(* close fails, and every write.                                            *)

dropFrame(x, ts) ==
  LET f == getCurrFrag(x) IN
  IF ~forced(x, ts) /\ ts - x.fragTS > x.frags[f].duration
  THEN [x EXCEPT !.frags[f].duration = ts - x.fragTS] ELSE x

\* FlushAudio clears the cache whatever became of the frame.
dropAudio(x) ==
  IF x.audioCache = <<>> THEN x ELSE [dropFrame(x, x.audioCacheTS) EXCEPT !.audioCache = <<>>]

dropOld(x, ts, delay) == IF keptTooLong(x, ts, delay) THEN dropAudio(x) ELSE x

\* The frame makes updateFragment close the fragment.
splits(x, frame) ==
  /\ x.opened
  /\ \/ forced(x, frame.ts)
     \/ /\ isBoundary(x, frame)
        /\ dropFrame(x, frame.ts).frags[getCurrFrag(x)].duration >= FragmentDuration

dropMessage(x, i, msg) ==
  IF msg.kind = "audio"
  THEN IF x.adts THEN cached(dropOld(x, msg.ts, maxAudioCacheDelayByAudio), i, msg.ts) ELSE x
  ELSE IF msg.key /\ ~x.spspps THEN x
       ELSE dropFrame(dropOld(x, msg.ts, maxAudioCacheDelayByVideo), msg.ts)
----------------------------------------------------------------------------
(* The muxer's owner: a group's input (FeedRTMPMessage) and its end.       *)

FeedRTMPMessage(x, i, msg, disk) ==
  IF msg.kind = "audio" THEN feedAudio(x, i, msg.ts, disk)
  ELSE feedVideo(x, i, msg.key, msg.ts, disk)

Feed(kind, key) ==
  /\ ~disposed /\ ~closeFailed /\ Len(fed) < MaxMsgs
  /\ \E d \in Deltas, disk \in BOOLEAN :
       LET msg == [kind |-> kind, key |-> key, ts |-> now + d] IN
       /\ msg.ts >= 0 /\ now' = msg.ts
       /\ fed' = Append(fed, msg)
       /\ diskFailed' = (diskFailed \/ ~disk)
       /\ m' = FeedRTMPMessage(m, Len(fed'), msg, disk)
  /\ UNCHANGED <<disposed, closeFailed>>

FeedVideo(key) == Feed("video", key)
FeedAudio == Feed("audio", FALSE)

\* The audio that is flushed ahead of the message, or the message's own frame, is the
\* first that cannot close the fragment, or one was before.  (Where one frame closes two
\* fragments, the second close fails in no behaviour.)
Loses(i, msg) ==
  \/ /\ \/ closeFailed
        \/ /\ keptTooLong(m, msg.ts, IF msg.kind = "audio" THEN maxAudioCacheDelayByAudio
                                                           ELSE maxAudioCacheDelayByVideo)
           /\ splits(m, keptAudio(m))
     /\ m' = dropMessage(m, i, msg)
  \/ /\ ~closeFailed
     /\ msg.kind = "video" /\ (msg.key => m.spspps)
     /\ \E disk \in BOOLEAN :
          LET o == flushOld(m, msg.ts, maxAudioCacheDelayByVideo, disk) IN
          /\ splits(o, msg)
          /\ m' = dropFrame(o, msg.ts)

FeedLost(kind, key) ==
  /\ ~disposed /\ Len(fed) < MaxMsgs
  /\ \E d \in Deltas :
       LET msg == [kind |-> kind, key |-> key, ts |-> now + d] IN
       /\ msg.ts >= 0 /\ now' = msg.ts
       /\ fed' = Append(fed, msg)
       /\ Loses(Len(fed'), msg)
  /\ diskFailed' = TRUE /\ closeFailed' = TRUE
  /\ UNCHANGED disposed

FeedVideoLost(key) == FeedLost("video", key)
FeedAudioLost == FeedLost("audio", FALSE)

\* cacheSPSPPS and cacheAACSeqHeader.
FeedHeader ==
  /\ ~disposed
  /\ \/ ~m.spspps /\ m' = [m EXCEPT !.spspps = TRUE]
     \/ ~m.adts /\ m' = [m EXCEPT !.adts = TRUE]
  /\ UNCHANGED <<now, fed, disposed, diskFailed, closeFailed>>

Dispose_FlushesLate ==  \* mutant
  /\ ~disposed /\ ~closeFailed /\ disposed' = TRUE
  /\ \E disk \in BOOLEAN :
       /\ m' = FlushAudio(closeFragment(m, TRUE, disk), disk)
       /\ diskFailed' = (diskFailed \/ ~disk)
  /\ UNCHANGED <<now, fed, closeFailed>>

Dispose ==
  /\ ~disposed /\ ~closeFailed /\ disposed' = TRUE
  /\ \E disk \in BOOLEAN :
       /\ m' = closeFragment(FlushAudio(m, disk), TRUE, disk)
       /\ diskFailed' = (diskFailed \/ ~disk)
  /\ UNCHANGED <<now, fed, closeFailed>>

\* The last fragment cannot be closed, or one that the flush would have closed.
DisposeLost ==
  /\ ~disposed /\ disposed' = TRUE
  /\ \/ /\ closeFailed \/ (m.audioCache # <<>> /\ splits(m, keptAudio(m)))
        /\ m' = dropAudio(m)
     \/ /\ ~closeFailed
        /\ \E disk \in BOOLEAN : m' = FlushAudio(m, disk)
        /\ m'.opened
  /\ diskFailed' = TRUE /\ closeFailed' = TRUE
  /\ UNCHANGED <<now, fed>>

Next ==
  \/ \E key \in BOOLEAN : FeedVideo(key) \/ FeedVideoLost(key)
  \/ FeedAudio \/ FeedAudioLost \/ FeedHeader \/ Dispose \/ DisposeLost

Spec == Init /\ [][Next]_vars
----------------------------------------------------------------------------
Fragment == [id : Int, duration : Nat, discont : BOOLEAN]

TypeOK ==
  /\ m.nfrags \in 0..FragmentNum /\ m.frag \in Nat
  /\ m.frags \in [Slots -> Fragment]
  /\ {m.opened, m.spspps, m.adts, disposed, closeFailed} \subseteq BOOLEAN
  /\ Range(m.audioCache) \subseteq DOMAIN fed /\ now \in Nat

\* The live playlist lists at most FragmentNum fragments without a gap from
\* EXT-X-MEDIA-SEQUENCE on, also when files could not be created at times; if
\* they always could, it is the end of the record playlist (the ring of
\* 2 * FragmentNum + 1 slots, written by openFragment and read by both).
PlaylistWindow ==
  LET p == m.playlist.entries
      r == m.record.entries
  IN
  /\ Len(p) <= FragmentNum
  /\ \A i \in DOMAIN p : p[i].id = m.playlist.seq + i - 1
  /\ ~diskFailed => p = SubSeq(r, Len(r) - Len(p) + 1, Len(r))
  /\ ~diskFailed /\ Len(p) < FragmentNum => Len(p) = Len(r)

\* The record playlist lists every closed fragment once, in order.
RecordComplete ==
  ~diskFailed =>
    LET closed == IF m.opened THEN Front(m.segments) ELSE m.segments
    IN [i \in DOMAIN m.record.entries |-> m.record.entries[i].id] = [i \in DOMAIN closed |-> closed[i].id]

\* Both playlists say what the ring and the files hold.
PlaylistsTrue == PlaylistWindow /\ RecordComplete

KeyFrame(k) == fed[k].kind = "video" /\ fed[k].key

\* Unless its beginning was forced by a jump of the timestamps, a fragment of a
\* stream with video can be decoded from its first video frame.
BeginsWithKeyFrame ==
  \A i \in DOMAIN m.segments :
    LET s == m.segments[i] IN
    s.video /\ ~s.discont =>
      \A k \in DOMAIN s.msgs : fed[s.msgs[k]].kind = "video" => \E j \in 1..k : KeyFrame(s.msgs[j])

\* Once a fragment is open, no message is lost: it is in a file or in the
\* streamer's cache, which Dispose flushes.
Written == (UNION {Range(m.segments[i].msgs) : i \in DOMAIN m.segments}) \cup Range(m.audioCache)

Usable(msg) == IF msg.kind = "audio" THEN m.adts ELSE msg.key => m.spspps

NothingLost ==
  [][m.segments # <<>> /\ ~diskFailed' =>
       /\ Written \subseteq Written'
       /\ fed' # fed /\ Usable(Last(fed')) => Len(fed') \in Written']_vars

\* A jump of the timestamps begins a new fragment: in a stream without audio, two
\* messages of one file are no further apart than a forced split tolerates.
NoJumpInside ==
  ~m.adts => \A i \in DOMAIN m.segments : \A a, b \in Range(m.segments[i].msgs) :
    fed[b].ts - fed[a].ts <= FragmentDuration * ForceFactor + negMaxfraglen

\* "A fragment that has not reached its configured duration is not followed by a
\* new one", unless a jump of the timestamps forces it.
SplitOnlyWhenLong ==
  \A i \in DOMAIN m.record.entries :
    i < Len(m.segments) /\ ~m.segments[i + 1].discont
      => m.record.entries[i].duration >= FragmentDuration

\* FlushAudio's three occasions are alternatives: no message is written twice.
WrittenOnce == \A i \in DOMAIN m.segments : IsInjective(m.segments[i].msgs)

\* Nor is it in a fragment that began with a key frame: only a cached audio frame
\* that itself opens a fragment, for want of video or by a jump, is doubled.
WrittenOnceAfterKeyFrame ==
  \A i \in DOMAIN m.segments :
    m.segments[i].video /\ ~m.segments[i].discont => IsInjective(m.segments[i].msgs)

\* A fragment of a stream with video, but for a forced one, stands alone.
StandsAlone == BeginsWithKeyFrame /\ WrittenOnceAfterKeyFrame

\* EXT-X-TARGETDURATION is "the longest duration of all TS files": no listed
\* fragment, rounded to seconds, exceeds it.
TargetCovers ==
  \A i \in DOMAIN m.playlist.entries :
    (m.playlist.entries[i].duration + (Second \div 2)) \div Second <= m.playlist.target
=============================================================================
