----------------------------- MODULE HlsProofs -----------------------------
(***************************************************************************)
(* Proofs about the HLS output: HlsMuxer, for any durations, any number of *)
(* fragments and any stream, with files that cannot be created or closed   *)
(* at any time; and TsPacket, for frames of any size.                      *)
(*                                                                         *)
(* Muxer and streamer call each other, so a handler is a composition of    *)
(* operators from state to state.  Sound is what each of them preserves of *)
(* the state x it is given, after n messages, of which bad says that the   *)
(* disk failed; Carries is what a flush does to the files.  The lemmas go  *)
(* up the calls: closeFragment, opening, a flush that is given, the flush  *)
(* itself, the feeds, and HlsStep for the actions.                         *)
(*                                                                         *)
(* Of TsPacket: what the headers hold (IsFront), what a packet holds that  *)
(* is full or stuffed (Carried), and what the parsers make of that (Reads).*)
(***************************************************************************)
EXTENDS HlsMuxer, TsPacket, SequenceTheorems, TLAPS

----------------------------------------------------------------------------
(* The ring of fragments: at most FragmentNum + 1 fragments in a row are    *)
(* looked at, so no two of them share a slot.                               *)

LEMMA RingSizeFacts ==
  /\ FragmentNum \in Nat \ {0} /\ FragmentDuration \in Nat \ {0} /\ ForceFactor \in Nat \ {0}
  /\ Second \in Nat \ {0}
  /\ RingSize \in Nat /\ RingSize > FragmentNum + 1
  /\ negMaxfraglen \in Nat /\ FragmentDuration * ForceFactor \in Nat \ {0}
  /\ maxAudioCacheDelayByAudio \in Nat /\ maxAudioCacheDelayByVideo \in Nat
  /\ maxAudioCacheDelayByVideo <= negMaxfraglen
<1>1. {Second, FragmentDuration, FragmentNum, ForceFactor} \subseteq Nat \ {0}
  BY MuxerConstants
<1>2. FragmentNum \in Nat \ {0} /\ FragmentDuration \in Nat \ {0} /\ ForceFactor \in Nat \ {0}
      /\ Second \in Nat \ {0}
  BY <1>1
<1>3. /\ negMaxfraglen \in Nat
      /\ maxAudioCacheDelayByAudio \in Nat /\ maxAudioCacheDelayByVideo \in Nat
      /\ maxAudioCacheDelayByVideo <= negMaxfraglen
  BY MuxerConstants
<1>4. FragmentDuration * ForceFactor \in Nat \ {0}
  BY <1>2
<1>5. QED
  BY <1>2, <1>3, <1>4 DEF RingSize

LEMMA SlotOf ==
  ASSUME NEW a \in Nat
  PROVE  a % RingSize \in Slots
<1>1. RingSize \in Nat /\ RingSize > 0
  BY RingSizeFacts
<1>2. QED
  BY <1>1 DEF Slots

LEMMA DivMod ==
  ASSUME NEW M \in Nat, M > 0, NEW n \in Int
  PROVE  n = M * (n \div M) + (n % M)
BY Z3

LEMMA SlotsApart ==
  ASSUME NEW a \in Nat, NEW b \in Nat, a < b, b - a < RingSize
  PROVE  a % RingSize # b % RingSize
<1> DEFINE r == RingSize
           p == a \div r
           q == b \div r
<1>1. r \in Nat /\ r > 0
  BY RingSizeFacts
<1>2. p \in Int /\ q \in Int
  BY <1>1
<1>a. a = r * p + (a % r)
  BY <1>1, DivMod
<1>b. b = r * q + (b % r)
  BY <1>1, DivMod
<1>c. a % r \in Int
  BY <1>1
<1>3. SUFFICES ASSUME a % r = b % r PROVE FALSE
  OBVIOUS
<1>4. b - a = r * q - r * p
  BY <1>1, <1>2, <1>3, <1>a, <1>b, <1>c
<1> HIDE DEF r, p, q
<1>5. r * q - r * p = r * (q - p)
  BY <1>1, <1>2
<1>6. CASE q - p <= 0
  <2>1. r * (q - p) <= 0
    BY <1>1, <1>2, <1>6
  <2>2. QED
    BY <2>1, <1>4, <1>5, <1>1, <1>2
<1>7. CASE q - p >= 1
  <2>1. r * (q - p) >= r
    BY <1>1, <1>2, <1>7
  <2>2. QED
    BY <2>1, <1>4, <1>5, <1>1, <1>2 DEF r
<1>8. QED
  BY <1>6, <1>7, <1>2

----------------------------------------------------------------------------
(* What the handlers are made of, field by field.                           *)

Fields == {"frag", "nfrags", "frags", "opened", "fragTS", "spspps", "adts", "audioCache",
           "audioCacheTS", "recordMax", "segments", "playlist", "record"}

File(n) == [id : Nat, msgs : Seq(1..n), discont : BOOLEAN, video : BOOLEAN]

\* A state of muxer and streamer after n messages.
Typed(x, n) ==
  /\ DOMAIN x = Fields
  /\ x.frag \in Nat /\ x.nfrags \in 0..FragmentNum
  /\ x.frags \in [Slots -> Fragment]
  /\ x.opened \in BOOLEAN /\ x.spspps \in BOOLEAN /\ x.adts \in BOOLEAN
  /\ x.fragTS \in Nat /\ x.audioCacheTS \in Nat
  /\ x.audioCache \in Seq(1..n)
  /\ x.segments \in Seq(File(n))
  /\ x.playlist.seq \in Nat /\ x.playlist.entries \in Seq(Fragment)
  /\ x.record.entries \in Seq(Fragment)

\* What the streamer knows and keeps.
SameStreamer(x, y) ==
  /\ y.spspps = x.spspps /\ y.adts = x.adts
  /\ y.audioCache = x.audioCache /\ y.audioCacheTS = x.audioCacheTS

SameLists(x, y) ==
  /\ y.playlist = x.playlist /\ y.record = x.record

SameRing(x, y) ==
  /\ y.frag = x.frag /\ y.nfrags = x.nfrags /\ y.frags = x.frags

\* What a step makes of x, field by field.
Opens(x, ts, discont, y) ==
  /\ DOMAIN y = Fields
  /\ y.opened = TRUE /\ y.fragTS = ts
  /\ y.frag = x.frag /\ y.nfrags = x.nfrags
  /\ y.frags = [x.frags EXCEPT ![getCurrFrag(x)] =
                  [id |-> getFragmentID(x), duration |-> 0, discont |-> discont]]
  /\ y.segments = Append(x.segments, [id |-> getFragmentID(x), msgs |-> <<>>,
                                      discont |-> discont, video |-> x.spspps])
  /\ SameStreamer(x, y) /\ SameLists(x, y)

Writes(x, msgs, y) ==
  /\ DOMAIN y = Fields
  /\ y.opened = x.opened /\ y.fragTS = x.fragTS
  /\ y.segments = [x.segments EXCEPT ![Len(x.segments)].msgs = @ \o msgs]
  /\ SameRing(x, y) /\ SameStreamer(x, y) /\ SameLists(x, y)

Empties(x, y) ==
  /\ DOMAIN y = Fields
  /\ y.opened = x.opened /\ y.fragTS = x.fragTS /\ y.segments = x.segments
  /\ y.spspps = x.spspps /\ y.adts = x.adts
  /\ y.audioCache = <<>> /\ y.audioCacheTS = x.audioCacheTS
  /\ SameRing(x, y) /\ SameLists(x, y)

Lengthens(x, f, ts, y) ==
  /\ DOMAIN y = Fields
  /\ y.opened = x.opened /\ y.fragTS = x.fragTS /\ y.segments = x.segments
  /\ y.frag = x.frag /\ y.nfrags = x.nfrags
  /\ y.frags = [x.frags EXCEPT ![f].duration = ts - x.fragTS]
  /\ SameStreamer(x, y) /\ SameLists(x, y)

\* The window moves, and if the files can be written both playlists follow.
Closes(x, disk, y) ==
  /\ DOMAIN y = Fields
  /\ y.opened = FALSE /\ y.fragTS = x.fragTS /\ y.segments = x.segments
  /\ y.frags = x.frags
  /\ x.nfrags = FragmentNum => y.frag = x.frag + 1 /\ y.nfrags = x.nfrags
  /\ x.nfrags # FragmentNum => y.frag = x.frag /\ y.nfrags = x.nfrags + 1
  /\ SameStreamer(x, y)
  /\ disk =>
       /\ y.playlist.seq = y.frag
       /\ y.playlist.entries = [i \in 1..y.nfrags |-> y.frags[getFrag(y, i - 1)]]
       /\ y.record.entries = Append(x.record.entries, y.frags[getFrag(y, y.nfrags - 1)])
  /\ ~disk => SameLists(x, y)

\* OnFrame's write, the flush's emptying of the cache, and a longer duration.
write(x, msgs) == [x EXCEPT !.segments[Len(x.segments)].msgs = @ \o msgs]
emptied(x) == [x EXCEPT !.audioCache = <<>>]
lengthen(x, f, ts) == [x EXCEPT !.frags[f].duration = ts - x.fragTS]

LEMMA OpeningFields ==
  ASSUME NEW x, DOMAIN x = Fields, NEW ts, NEW discont
  PROVE  Opens(x, ts, discont, opening(x, ts, discont))
BY DEF Opens, opening, Fields, SameStreamer, SameLists

LEMMA WriteFields ==
  ASSUME NEW x, DOMAIN x = Fields, NEW msgs
  PROVE  Writes(x, msgs, write(x, msgs))
BY DEF Writes, write, Fields, SameStreamer, SameLists, SameRing

LEMMA EmptiedFields ==
  ASSUME NEW x, DOMAIN x = Fields
  PROVE  Empties(x, emptied(x))
BY DEF Empties, emptied, Fields, SameLists, SameRing

LEMMA LengthenFields ==
  ASSUME NEW x, DOMAIN x = Fields, NEW f, NEW ts
  PROVE  Lengthens(x, f, ts, lengthen(x, f, ts))
BY DEF Lengthens, lengthen, Fields, SameStreamer, SameLists

LEMMA CloseFields ==
  ASSUME NEW x, DOMAIN x = Fields, NEW isLast, NEW disk \in BOOLEAN, x.opened
  PROVE  Closes(x, disk, closeFragment(x, isLast, disk))
<1> DEFINE y == closeFragment(x, isLast, disk)
           z == [x EXCEPT !.opened = FALSE]
           c == incrFrag(z)
<1> SUFFICES Closes(x, disk, y)
  OBVIOUS
<1>1. /\ DOMAIN c = Fields
      /\ c.opened = FALSE /\ c.fragTS = x.fragTS /\ c.segments = x.segments
      /\ c.frags = x.frags /\ c.recordMax = x.recordMax
      /\ x.nfrags = FragmentNum => c.frag = x.frag + 1 /\ c.nfrags = x.nfrags
      /\ x.nfrags # FragmentNum => c.frag = x.frag /\ c.nfrags = x.nfrags + 1
      /\ SameStreamer(x, c) /\ SameLists(x, c)
  BY DEF incrFrag, Fields, SameStreamer, SameLists
<1>2. CASE disk
  <2> DEFINE p == writePlaylist(c, isLast)
  <2>1. y = writeRecordPlaylist(p)
    BY <1>2 DEF closeFragment
  <2> HIDE DEF c, y
  <2>2. /\ DOMAIN p = Fields
        /\ p.opened = FALSE /\ p.fragTS = c.fragTS /\ p.segments = c.segments
        /\ SameRing(c, p) /\ SameStreamer(c, p) /\ p.record = c.record
        /\ p.playlist = [seq |-> c.frag, target |-> maxFrag(c) \div Second,
                         entries |-> [i \in 1..c.nfrags |-> c.frags[getFrag(c, i - 1)]],
                         ended |-> isLast]
    BY <1>1 DEF writePlaylist, Fields, SameRing, SameStreamer
  <2> HIDE DEF p
  <2>3. p.playlist.seq = c.frag
        /\ p.playlist.entries = [i \in 1..c.nfrags |-> c.frags[getFrag(c, i - 1)]]
    BY <2>2
  <2>4. /\ DOMAIN y = Fields
        /\ y.opened = FALSE /\ y.fragTS = p.fragTS /\ y.segments = p.segments
        /\ SameRing(p, y) /\ SameStreamer(p, y) /\ y.playlist = p.playlist
        /\ y.record.entries = Append(p.record.entries, newest(p))
    BY <2>1, <2>2 DEF writeRecordPlaylist, Fields, SameRing, SameStreamer
  <2>5. newest(p) = y.frags[getFrag(y, y.nfrags - 1)]
    BY <2>4 DEF newest, getFrag, SameRing
  <2>6. \A i : getFrag(c, i) = getFrag(y, i)
    BY <2>2, <2>4 DEF getFrag, SameRing
  <2>7. y.playlist.entries = [i \in 1..y.nfrags |-> y.frags[getFrag(y, i - 1)]]
    BY <2>3, <2>4, <2>2, <2>6 DEF SameRing
  <2>8. y.opened = FALSE /\ y.fragTS = x.fragTS /\ y.segments = x.segments /\ y.frags = x.frags
        /\ y.frag = c.frag /\ y.nfrags = c.nfrags /\ SameStreamer(x, y)
    BY <1>1, <2>2, <2>4 DEF SameRing, SameStreamer
  <2>9. /\ y.playlist.seq = y.frag
        /\ y.record.entries = Append(x.record.entries, y.frags[getFrag(y, y.nfrags - 1)])
    <3>1. p.record = x.record
      BY <1>1, <2>2 DEF SameLists
    <3>2. QED
      BY <3>1, <2>2, <2>3, <2>4, <2>5 DEF SameRing
  <2>10. QED
    BY <1>1, <1>2, <2>4, <2>7, <2>8, <2>9 DEF Closes
<1>3. CASE ~disk
  <2> DEFINE e == IF newest(c).duration > c.recordMax
                  THEN newest(c).duration + (Second \div 2) ELSE c.recordMax
  <2>1. y = [c EXCEPT !.recordMax = e]
    BY <1>3, <1>1 DEF closeFragment, Fields
  <2> HIDE DEF c, e, y
  <2>2. /\ DOMAIN y = Fields
        /\ y.opened = FALSE /\ y.fragTS = c.fragTS /\ y.segments = c.segments
        /\ SameRing(c, y) /\ SameStreamer(c, y) /\ SameLists(c, y)
    BY <1>1, <2>1 DEF Fields, SameRing, SameStreamer, SameLists
  <2>3. QED
    BY <1>1, <1>3, <2>2 DEF Closes, SameRing, SameStreamer, SameLists
<1>4. QED
  BY <1>2, <1>3
----------------------------------------------------------------------------
(* The types.                                                              *)

LEMMA CurrentSlot ==
  ASSUME NEW x, x.frag \in Nat, x.nfrags \in 0..FragmentNum
  PROVE  /\ getFragmentID(x) \in Nat
         /\ getCurrFrag(x) = getFragmentID(x) % RingSize
         /\ getCurrFrag(x) \in Slots
<1>1. x.nfrags \in Nat
  BY RingSizeFacts
<1>2. x.frag + x.nfrags \in Nat
  BY <1>1
<1>3. QED
  BY <1>2, SlotOf DEF getFragmentID, getCurrFrag, getFrag

LEMMA OpeningTyped ==
  ASSUME NEW n \in Nat, NEW x, Typed(x, n), NEW ts \in Nat, NEW discont \in BOOLEAN,
         NEW y, Opens(x, ts, discont, y)
  PROVE  Typed(y, n)
<1> DEFINE id == getFragmentID(x)
           new == [id |-> id, duration |-> 0, discont |-> discont]
           file == [id |-> id, msgs |-> <<>>, discont |-> discont, video |-> x.spspps]
<1>1. DOMAIN x = Fields
  BY DEF Typed
<1>2. /\ DOMAIN y = Fields
      /\ y.opened = TRUE /\ y.fragTS = ts
      /\ y.frag = x.frag /\ y.nfrags = x.nfrags
      /\ y.frags = [x.frags EXCEPT ![getCurrFrag(x)] = new]
      /\ y.segments = Append(x.segments, file)
      /\ SameStreamer(x, y) /\ SameLists(x, y)
  BY DEF Opens
<1>3. id \in Nat /\ getCurrFrag(x) \in Slots
  BY CurrentSlot DEF Typed
<1> HIDE DEF id
<1>4. new \in Fragment
  BY <1>3 DEF Fragment
<1>5. <<>> \in Seq(1..n)
  OBVIOUS
<1>6. file \in File(n)
  BY <1>3, <1>5 DEF File, Typed
<1> HIDE DEF new, file
<1>7. y.segments \in Seq(File(n))
  BY <1>2, <1>6 DEF Typed
<1>8. y.frags \in [Slots -> Fragment]
  BY <1>2, <1>3, <1>4 DEF Typed
<1>9. QED
  BY <1>2, <1>7, <1>8 DEF Typed, SameStreamer, SameLists

LEMMA WriteTyped ==
  ASSUME NEW n \in Nat, NEW x, Typed(x, n), NEW msgs \in Seq(1..n), x.segments # <<>>,
         NEW y, Writes(x, msgs, y)
  PROVE  Typed(y, n)
<1> DEFINE last == Len(x.segments)
<1>1. DOMAIN x = Fields
  BY DEF Typed
<1>2. /\ DOMAIN y = Fields
      /\ y.opened = x.opened /\ y.fragTS = x.fragTS
      /\ y.segments = [x.segments EXCEPT ![last].msgs = @ \o msgs]
      /\ SameRing(x, y) /\ SameStreamer(x, y) /\ SameLists(x, y)
  BY DEF Writes
<1>3. x.segments \in Seq(File(n)) /\ last \in DOMAIN x.segments
  BY DEF Typed
<1>4. x.segments[last] \in File(n)
  BY <1>3
<1>5. x.segments[last].msgs \o msgs \in Seq(1..n)
  BY <1>4 DEF File
<1>6. [x.segments[last] EXCEPT !.msgs = @ \o msgs] \in File(n)
  BY <1>4, <1>5 DEF File
<1>7. y.segments \in Seq(File(n))
  BY <1>2, <1>3, <1>6
<1>8. QED
  BY <1>2, <1>7 DEF Typed, SameStreamer, SameLists, SameRing

LEMMA EmptiedTyped ==
  ASSUME NEW n \in Nat, NEW x, Typed(x, n),
         NEW y, Empties(x, y)
  PROVE  Typed(y, n)
<1>1. <<>> \in Seq(1..n)
  OBVIOUS
<1>2. QED
  BY DEF Empties, Typed, SameLists, SameRing

LEMMA LengthenTyped ==
  ASSUME NEW n \in Nat, NEW x, Typed(x, n), NEW f \in Slots, NEW ts \in Int, ts >= x.fragTS,
         NEW y, Lengthens(x, f, ts, y)
  PROVE  Typed(y, n)
<1>1. DOMAIN x = Fields /\ x.fragTS \in Nat /\ x.frags \in [Slots -> Fragment]
  BY DEF Typed
<1>2. /\ DOMAIN y = Fields
      /\ y.opened = x.opened /\ y.fragTS = x.fragTS /\ y.segments = x.segments
      /\ y.frag = x.frag /\ y.nfrags = x.nfrags
      /\ y.frags = [x.frags EXCEPT ![f].duration = ts - x.fragTS]
      /\ SameStreamer(x, y) /\ SameLists(x, y)
  BY DEF Lengthens
<1>3. [x.frags[f] EXCEPT !.duration = ts - x.fragTS] \in Fragment
  BY <1>1 DEF Fragment
<1>4. y.frags \in [Slots -> Fragment]
  BY <1>1, <1>2, <1>3
<1>5. QED
  BY <1>2, <1>4 DEF Typed, SameStreamer, SameLists

LEMMA CloseTyped ==
  ASSUME NEW n \in Nat, NEW x, Typed(x, n), NEW disk \in BOOLEAN, x.opened,
         NEW y, Closes(x, disk, y)
  PROVE  Typed(y, n)
<1>1. DOMAIN x = Fields
  BY DEF Typed
<1>2. /\ DOMAIN y = Fields
      /\ y.opened = FALSE /\ y.fragTS = x.fragTS /\ y.segments = x.segments
      /\ y.frags = x.frags
      /\ x.nfrags = FragmentNum => y.frag = x.frag + 1 /\ y.nfrags = x.nfrags
      /\ x.nfrags # FragmentNum => y.frag = x.frag /\ y.nfrags = x.nfrags + 1
      /\ SameStreamer(x, y)
      /\ disk =>
           /\ y.playlist.seq = y.frag
           /\ y.playlist.entries = [i \in 1..y.nfrags |-> y.frags[getFrag(y, i - 1)]]
           /\ y.record.entries = Append(x.record.entries, y.frags[getFrag(y, y.nfrags - 1)])
      /\ ~disk => SameLists(x, y)
  BY DEF Closes
<1>3. y.frag \in Nat /\ y.nfrags \in 1..FragmentNum
  <2>1. x.frag \in Nat /\ x.nfrags \in 0..FragmentNum
    BY DEF Typed
  <2>2. /\ x.nfrags = FragmentNum => y.frag = x.frag + 1 /\ y.nfrags = x.nfrags
        /\ x.nfrags # FragmentNum => y.frag = x.frag /\ y.nfrags = x.nfrags + 1
    BY <1>2
  <2>3. QED
    BY <2>1, <2>2, RingSizeFacts
<1>4. \A i \in 1..y.nfrags : getFrag(y, i - 1) \in Slots
  <2>1. TAKE i \in 1..y.nfrags
  <2>2. y.frag + (i - 1) \in Nat
    BY <1>3
  <2>3. QED
    BY <2>2, SlotOf DEF getFrag
<1>5. \A i \in 1..y.nfrags : y.frags[getFrag(y, i - 1)] \in Fragment
  BY <1>4, <1>2 DEF Typed
<1>6. [i \in 1..y.nfrags |-> y.frags[getFrag(y, i - 1)]] \in Seq(Fragment)
  <2>1. y.nfrags \in Nat
    BY <1>3
  <2>2. QED
    BY <1>5, <2>1
<1>7. y.frags[getFrag(y, y.nfrags - 1)] \in Fragment
  BY <1>5, <1>3
<1>8. /\ y.playlist.seq \in Nat /\ y.playlist.entries \in Seq(Fragment)
      /\ y.record.entries \in Seq(Fragment)
  <2>1. CASE disk
    <3>1. x.record.entries \in Seq(Fragment)
      BY DEF Typed
    <3>2. Append(x.record.entries, y.frags[getFrag(y, y.nfrags - 1)]) \in Seq(Fragment)
      BY <3>1, <1>7
    <3>3. QED
      BY <2>1, <1>2, <1>3, <1>6, <3>2
  <2>2. CASE ~disk
    BY <2>2, <1>2 DEF Typed, SameLists
  <2>3. QED
    BY <2>1, <2>2
<1>9. /\ y.spspps \in BOOLEAN /\ y.adts \in BOOLEAN /\ y.opened \in BOOLEAN
      /\ y.audioCache \in Seq(1..n) /\ y.audioCacheTS \in Nat /\ y.fragTS \in Nat
      /\ y.frags \in [Slots -> Fragment] /\ y.segments \in Seq(File(n)) /\ DOMAIN y = Fields
  BY <1>2 DEF Typed, SameStreamer
<1>10. y.nfrags \in 0..FragmentNum
  BY <1>3
<1>11. QED
  BY <1>3, <1>8, <1>9, <1>10 DEF Typed
----------------------------------------------------------------------------
(* The playlists.                                                          *)

\* How many fragments were begun, and how many of them are closed.
Begun(x) == x.frag + x.nfrags + (IF x.opened THEN 1 ELSE 0)
Closed(x) == x.frag + x.nfrags

\* The slots of the window, and of the open fragment, hold their fragments.
RingHolds(x) ==
  \A j \in Nat : x.frag <= j /\ j < Begun(x) => x.frags[j % RingSize].id = j

\* With the disk in order: files and record playlist are numbered through, and the
\* window is the end of the record playlist.
Recorded(x) ==
  /\ Len(x.segments) = Begun(x) /\ Len(x.record.entries) = Closed(x)
  /\ x.nfrags < FragmentNum => x.frag = 0
  /\ \A i \in 1..Len(x.segments) : x.segments[i].id = i - 1
  /\ \A i \in 1..Len(x.record.entries) : x.record.entries[i].id = i - 1
  /\ \A j \in Nat : x.frag <= j /\ j < Closed(x)
       => x.frags[j % RingSize] = x.record.entries[j + 1]

\* PlaylistWindow, of any state.
Listed(x, bad) ==
  LET p == x.playlist.entries
      r == x.record.entries
  IN
  /\ Len(p) <= FragmentNum
  /\ \A i \in DOMAIN p : p[i].id = x.playlist.seq + i - 1
  /\ ~bad => p = SubSeq(r, Len(r) - Len(p) + 1, Len(r))
  /\ ~bad /\ Len(p) < FragmentNum => Len(p) = Len(r)

Named(x, bad) ==
  /\ RingHolds(x)
  /\ x.opened => x.segments # <<>>
  /\ ~bad => Recorded(x)
  /\ Listed(x, bad)

LEMMA IndexFacts ==
  ASSUME NEW n, NEW x, Typed(x, n)
  PROVE  /\ x.frag \in Nat /\ x.nfrags \in Nat /\ x.nfrags <= FragmentNum /\ FragmentNum \in Nat
         /\ Closed(x) \in Nat /\ Begun(x) \in Nat
         /\ x.opened => Begun(x) = Closed(x) + 1
         /\ ~x.opened => Begun(x) = Closed(x)
         /\ Closed(x) = getFragmentID(x) /\ Begun(x) - x.frag <= FragmentNum + 1
<1>1. x.frag \in Nat /\ x.nfrags \in Nat /\ x.nfrags <= FragmentNum /\ FragmentNum \in Nat
      /\ x.opened \in BOOLEAN
  <2>1. x.frag \in Nat /\ x.nfrags \in 0..FragmentNum /\ x.opened \in BOOLEAN
    BY DEF Typed
  <2>2. FragmentNum \in Nat
    BY RingSizeFacts
  <2>3. QED
    BY <2>1, <2>2
<1>2. QED
  BY <1>1 DEF Closed, Begun, getFragmentID

\* Fragments of the window have slots of their own.
LEMMA OtherSlot ==
  ASSUME NEW n, NEW x, Typed(x, n), NEW j \in Nat, x.frag <= j, j < Closed(x)
  PROVE  /\ j % RingSize # getCurrFrag(x) /\ j % RingSize \in Slots
         /\ getCurrFrag(x) \in Slots /\ getCurrFrag(x) = Closed(x) % RingSize
<1>1. Closed(x) \in Nat /\ Closed(x) - j < RingSize
  BY IndexFacts, RingSizeFacts DEF Closed
<1>2. j % RingSize # Closed(x) % RingSize
  BY <1>1, SlotsApart
<1>3. QED
  BY <1>2, SlotOf, CurrentSlot, IndexFacts DEF Typed

LEMMA OpeningNamed ==
  ASSUME NEW n \in Nat, NEW x, Typed(x, n), NEW ts \in Nat, NEW discont \in BOOLEAN,
         NEW bad \in BOOLEAN, Named(x, bad), ~x.opened,
         NEW y, Opens(x, ts, discont, y)
  PROVE  Named(y, bad)
<1> DEFINE id == getFragmentID(x)
           new == [id |-> id, duration |-> 0, discont |-> discont]
           file == [id |-> id, msgs |-> <<>>, discont |-> discont, video |-> x.spspps]
<1>1. /\ y.opened = TRUE
      /\ y.frag = x.frag /\ y.nfrags = x.nfrags
      /\ y.frags = [x.frags EXCEPT ![getCurrFrag(x)] = new]
      /\ y.segments = Append(x.segments, file)
      /\ y.playlist = x.playlist /\ y.record = x.record
  <2>1. DOMAIN x = Fields
    BY DEF Typed
  <2>2. /\ DOMAIN y = Fields
        /\ y.opened = TRUE /\ y.fragTS = ts
        /\ y.frag = x.frag /\ y.nfrags = x.nfrags
        /\ y.frags = [x.frags EXCEPT ![getCurrFrag(x)] = new]
        /\ y.segments = Append(x.segments, file)
        /\ SameStreamer(x, y) /\ SameLists(x, y)
    BY DEF Opens
  <2>3. QED
    BY <2>2 DEF SameLists
<1>2. Typed(y, n)
  BY OpeningTyped
<1>3. new.id = id /\ file.id = id
  OBVIOUS
<1> HIDE DEF new, file, id
<1>4. x.frags \in [Slots -> Fragment] /\ x.segments \in Seq(File(n))
  BY DEF Typed
<1>5. id = Closed(x) /\ Closed(y) = Closed(x) /\ Begun(y) = Closed(x) + 1
      /\ Begun(x) = Closed(x) /\ Closed(x) \in Nat
  <2>1. id = Closed(x) /\ Begun(x) = Closed(x) /\ Closed(x) \in Nat
    BY IndexFacts DEF id
  <2>2. Closed(y) = Closed(x)
    BY <1>1 DEF Closed
  <2>3. Begun(y) = Closed(y) + 1
    BY <1>1, <1>2, IndexFacts
  <2>4. QED
    BY <2>1, <2>2, <2>3
<1>6. ASSUME NEW j \in Nat, x.frag <= j, j < Closed(x)
      PROVE  y.frags[j % RingSize] = x.frags[j % RingSize]
  BY <1>1, <1>4, <1>6, OtherSlot
<1>7. y.frags[Closed(x) % RingSize] = new
  BY <1>1, <1>4, <1>5, CurrentSlot DEF Typed, id
<1>8. RingHolds(y)
  <2>1. SUFFICES ASSUME NEW j \in Nat, y.frag <= j, j < Begun(y)
                 PROVE  y.frags[j % RingSize].id = j
    BY DEF RingHolds
  <2>2. CASE j < Closed(x)
    BY <2>1, <2>2, <1>1, <1>5, <1>6 DEF Named, RingHolds
  <2>3. CASE j = Closed(x)
    BY <2>3, <1>3, <1>5, <1>7
  <2>4. QED
    BY <2>1, <2>2, <2>3, <1>5
<1>9. y.segments # <<>>
  BY <1>1, <1>4
<1>10. ASSUME ~bad PROVE Recorded(y)
  <2>1. Recorded(x)
    BY <1>10 DEF Named
  <2>2. Len(x.segments) = Closed(x)
    BY <2>1, <1>5 DEF Recorded
  <2>3. Len(y.segments) = Closed(x) + 1
    BY <2>2, <1>1, <1>4
  <2>4. \A i \in 1..Len(y.segments) : y.segments[i].id = i - 1
    <3>1. SUFFICES ASSUME NEW i \in 1..Len(y.segments) PROVE y.segments[i].id = i - 1
      OBVIOUS
    <3>2. CASE i <= Len(x.segments)
      BY <3>2, <2>1, <1>1, <1>4 DEF Recorded
    <3>3. CASE i = Len(x.segments) + 1
      BY <3>3, <2>2, <1>1, <1>3, <1>4, <1>5
    <3>4. QED
      BY <3>2, <3>3, <2>2, <2>3, <1>5
  <2>5. \A j \in Nat : y.frag <= j /\ j < Closed(y)
          => y.frags[j % RingSize] = y.record.entries[j + 1]
    BY <2>1, <1>1, <1>5, <1>6 DEF Recorded
  <2>6. Len(y.record.entries) = Closed(y) /\ (y.nfrags < FragmentNum => y.frag = 0)
        /\ \A i \in 1..Len(y.record.entries) : y.record.entries[i].id = i - 1
    BY <2>1, <1>1, <1>5 DEF Recorded
  <2>7. QED
    BY <2>3, <2>4, <2>5, <2>6, <1>5 DEF Recorded
<1>11. Listed(y, bad)
  BY <1>1 DEF Named, Listed
<1>12. QED
  BY <1>8, <1>9, <1>10, <1>11 DEF Named

\* Writing into a file and emptying the cache is nothing to the playlists.
LEMMA SameNames ==
  ASSUME NEW x, NEW y, NEW bad \in BOOLEAN, Named(x, bad), SameRing(x, y), SameLists(x, y),
         y.opened = x.opened, Len(y.segments) = Len(x.segments),
         x.segments # <<>> => y.segments # <<>>,
         \A i \in 1..Len(x.segments) : y.segments[i].id = x.segments[i].id
  PROVE  Named(y, bad)
<1>1. Begun(y) = Begun(x) /\ Closed(y) = Closed(x)
  BY DEF Begun, Closed, SameRing
<1>2. RingHolds(y)
  BY <1>1 DEF Named, RingHolds, SameRing
<1>3. Listed(y, bad)
  BY DEF Named, Listed, SameLists
<1>4. ~bad => Recorded(y)
  BY <1>1 DEF Named, Recorded, SameRing, SameLists
<1>5. QED
  BY <1>2, <1>3, <1>4 DEF Named

LEMMA WriteNamed ==
  ASSUME NEW n \in Nat, NEW x, Typed(x, n), NEW msgs \in Seq(1..n), x.segments # <<>>,
         NEW bad \in BOOLEAN, Named(x, bad),
         NEW y, Writes(x, msgs, y)
  PROVE  Named(y, bad)
<1> DEFINE last == Len(x.segments)
<1>1. /\ y.opened = x.opened
      /\ y.segments = [x.segments EXCEPT ![last].msgs = @ \o msgs]
      /\ SameRing(x, y) /\ SameLists(x, y)
  BY DEF Writes, Typed
<1>2. x.segments \in Seq(File(n)) /\ last \in DOMAIN x.segments
  BY DEF Typed
<1>3. x.segments[last] \in File(n)
  BY <1>2
<1>4. [x.segments[last] EXCEPT !.msgs = @ \o msgs].id = x.segments[last].id
  BY <1>3 DEF File
<1>5. Len(y.segments) = Len(x.segments)
      /\ \A i \in 1..Len(x.segments) : y.segments[i].id = x.segments[i].id
  BY <1>1, <1>2, <1>4
<1>6. x.segments # <<>> => y.segments # <<>>
  BY <1>2, <1>5
<1>7. QED
  BY <1>1, <1>5, <1>6, SameNames

LEMMA EmptiedNamed ==
  ASSUME NEW x, DOMAIN x = Fields, NEW bad \in BOOLEAN, Named(x, bad),
         NEW y, Empties(x, y)
  PROVE  Named(y, bad)
BY SameNames DEF Empties

\* Only the fragment that is open is made longer.
LEMMA LengthenNamed ==
  ASSUME NEW n \in Nat, NEW x, Typed(x, n), NEW ts \in Int,
         NEW bad \in BOOLEAN, Named(x, bad), x.opened,
         NEW y, Lengthens(x, getCurrFrag(x), ts, y)
  PROVE  Named(y, bad)
<1> DEFINE f == getCurrFrag(x)
<1>1. /\ y.opened = x.opened /\ y.segments = x.segments
      /\ y.frag = x.frag /\ y.nfrags = x.nfrags
      /\ y.frags = [x.frags EXCEPT ![f].duration = ts - x.fragTS]
      /\ y.playlist = x.playlist /\ y.record = x.record
  <2>1. DOMAIN x = Fields
    BY DEF Typed
  <2>2. /\ DOMAIN y = Fields
        /\ y.opened = x.opened /\ y.fragTS = x.fragTS /\ y.segments = x.segments
        /\ y.frag = x.frag /\ y.nfrags = x.nfrags
        /\ y.frags = [x.frags EXCEPT ![f].duration = ts - x.fragTS]
        /\ SameStreamer(x, y) /\ SameLists(x, y)
    BY DEF Lengthens
  <2>3. QED
    BY <2>2 DEF SameLists
<1>2. x.frags \in [Slots -> Fragment]
  BY DEF Typed
<1>3. Begun(y) = Begun(x) /\ Closed(y) = Closed(x) /\ Begun(x) = Closed(x) + 1
      /\ Closed(x) \in Nat /\ x.frag \in Nat
  <2>1. Begun(y) = Begun(x) /\ Closed(y) = Closed(x)
    BY <1>1 DEF Begun, Closed
  <2>2. QED
    BY <2>1, IndexFacts
<1>4. ASSUME NEW j \in Nat, x.frag <= j, j < Closed(x)
      PROVE  y.frags[j % RingSize] = x.frags[j % RingSize]
  BY <1>1, <1>2, <1>4, OtherSlot
<1>5. f \in Slots /\ f = Closed(x) % RingSize
  BY CurrentSlot, IndexFacts DEF Typed
<1>6. y.frags[f].id = x.frags[f].id
  <2> HIDE DEF f
  <2>1. x.frags[f] \in Fragment
    BY <1>2, <1>5
  <2>2. QED
    BY <2>1, <1>1, <1>2, <1>5 DEF Fragment
<1>7. RingHolds(y)
  <2>1. SUFFICES ASSUME NEW j \in Nat, y.frag <= j, j < Begun(y)
                 PROVE  y.frags[j % RingSize].id = j
    BY DEF RingHolds
  <2>2. x.frags[j % RingSize].id = j
    BY <2>1, <1>1, <1>3 DEF Named, RingHolds
  <2>3. CASE j < Closed(x)
    BY <2>1, <2>2, <2>3, <1>1, <1>4
  <2>4. CASE j = Closed(x)
    BY <2>2, <2>4, <1>5, <1>6
  <2>5. QED
    BY <2>1, <2>3, <2>4, <1>3
<1>8. ASSUME ~bad PROVE Recorded(y)
  <2>1. Recorded(x)
    BY <1>8 DEF Named
  <2>2. \A j \in Nat : x.frag <= j /\ j < Closed(x)
          => x.frags[j % RingSize] = x.record.entries[j + 1]
    BY <2>1 DEF Recorded
  <2>3. \A j \in Nat : y.frag <= j /\ j < Closed(y)
          => y.frags[j % RingSize] = y.record.entries[j + 1]
    <3>1. SUFFICES ASSUME NEW j \in Nat, y.frag <= j, j < Closed(y)
                   PROVE  y.frags[j % RingSize] = y.record.entries[j + 1]
      OBVIOUS
    <3>2. x.frag <= j /\ j < Closed(x)
      BY <3>1, <1>1, <1>3
    <3>3. y.frags[j % RingSize] = x.frags[j % RingSize]
      BY <3>2, <1>4
    <3>4. x.frags[j % RingSize] = x.record.entries[j + 1]
      BY <2>2, <3>2
    <3>5. y.record = x.record
      BY <1>1
    <3>6. QED
      BY <3>3, <3>4, <3>5
  <2>4. /\ y.segments = x.segments /\ y.record = x.record /\ y.frag = x.frag
        /\ y.nfrags = x.nfrags /\ Begun(y) = Begun(x) /\ Closed(y) = Closed(x)
    BY <1>1, <1>3
  <2>5. /\ Len(x.segments) = Begun(x) /\ Len(x.record.entries) = Closed(x)
        /\ x.nfrags < FragmentNum => x.frag = 0
        /\ \A i \in 1..Len(x.segments) : x.segments[i].id = i - 1
        /\ \A i \in 1..Len(x.record.entries) : x.record.entries[i].id = i - 1
    BY <2>1 DEF Recorded
  <2>6. /\ Len(y.segments) = Begun(y) /\ Len(y.record.entries) = Closed(y)
        /\ y.nfrags < FragmentNum => y.frag = 0
        /\ \A i \in 1..Len(y.segments) : y.segments[i].id = i - 1
        /\ \A i \in 1..Len(y.record.entries) : y.record.entries[i].id = i - 1
    BY <2>4, <2>5
  <2>7. QED
    BY <2>3, <2>6 DEF Recorded
<1>9. Listed(y, bad)
  BY <1>1 DEF Named, Listed
<1>10. QED
  BY <1>1, <1>7, <1>8, <1>9 DEF Named, f

\* Closing a fragment: the window that the live playlist shows ends in it.
LEMMA CloseNamed ==
  ASSUME NEW n \in Nat, NEW x, Typed(x, n), NEW disk \in BOOLEAN, x.opened,
         NEW bad \in BOOLEAN, Named(x, bad), disk \/ bad,
         NEW y, Closes(x, disk, y)
  PROVE  Named(y, bad)
<1> DEFINE new == y.frags[getFrag(y, y.nfrags - 1)]
<1>1. DOMAIN x = Fields
  BY DEF Typed
<1>2. /\ DOMAIN y = Fields
      /\ y.opened = FALSE /\ y.fragTS = x.fragTS /\ y.segments = x.segments
      /\ y.frags = x.frags
      /\ x.nfrags = FragmentNum => y.frag = x.frag + 1 /\ y.nfrags = x.nfrags
      /\ x.nfrags # FragmentNum => y.frag = x.frag /\ y.nfrags = x.nfrags + 1
      /\ SameStreamer(x, y)
      /\ disk =>
           /\ y.playlist.seq = y.frag
           /\ y.playlist.entries = [i \in 1..y.nfrags |-> y.frags[getFrag(y, i - 1)]]
           /\ y.record.entries = Append(x.record.entries, new)
      /\ ~disk => SameLists(x, y)
  BY DEF Closes
<1>3. Typed(y, n)
  BY CloseTyped
<1> HIDE DEF new
<1>4. /\ x.frag \in Nat /\ x.nfrags \in Nat /\ x.nfrags <= FragmentNum /\ FragmentNum \in Nat
      /\ Closed(x) \in Nat /\ Begun(x) = Closed(x) + 1 /\ Closed(x) = x.frag + x.nfrags
  BY IndexFacts DEF Closed
<1>5. /\ y.frag \in Nat /\ y.nfrags \in Nat /\ y.nfrags <= FragmentNum /\ y.nfrags > 0
      /\ y.frag >= x.frag /\ Closed(y) = Closed(x) + 1 /\ Begun(y) = Closed(x) + 1
      /\ y.nfrags < FragmentNum => y.frag = x.frag /\ x.nfrags < FragmentNum
      /\ Closed(y) = y.frag + y.nfrags
  <2>1. /\ x.nfrags = FragmentNum => y.frag = x.frag + 1 /\ y.nfrags = x.nfrags
        /\ x.nfrags # FragmentNum => y.frag = x.frag /\ y.nfrags = x.nfrags + 1
    BY <1>2
  <2>2. Closed(y) = y.frag + y.nfrags
    BY DEF Closed
  <2>3. Begun(y) = Closed(y)
    BY <1>2, <1>3, IndexFacts
  <2>4. FragmentNum > 0
    BY RingSizeFacts
  <2>5. QED
    BY <2>1, <2>2, <2>3, <2>4, <1>4
<1>6. RingHolds(y)
  <2>1. \A j \in Nat : x.frag <= j /\ j < Begun(x) => x.frags[j % RingSize].id = j
    BY DEF Named, RingHolds
  <2>2. Begun(y) = Begun(x) /\ y.frags = x.frags
    BY <1>2, <1>4, <1>5
  <2>3. ASSUME NEW j \in Nat, y.frag <= j, j < Begun(y) PROVE y.frags[j % RingSize].id = j
    <3>1. x.frag <= j
      BY <1>4, <1>5, <2>3
    <3>2. QED
      BY <2>1, <2>2, <2>3, <3>1
  <2>4. QED
    BY <2>3 DEF RingHolds
<1>7. new = y.frags[Closed(x) % RingSize] /\ new.id = Closed(x)
  <2>1. y.frag + (y.nfrags - 1) = Closed(x)
    BY <1>4, <1>5
  <2>2. new = y.frags[Closed(x) % RingSize]
    BY <2>1 DEF new, getFrag
  <2>3. y.frags[Closed(x) % RingSize].id = Closed(x)
    BY <1>4, <1>5, <1>6 DEF RingHolds
  <2>4. QED
    BY <2>2, <2>3
<1>8. ASSUME ~bad PROVE Recorded(y)
  <2>1. disk /\ Recorded(x) /\ x.record.entries \in Seq(Fragment)
    BY <1>8 DEF Named, Typed
  <2>2. y.record.entries = Append(x.record.entries, new)
    BY <2>1, <1>2
  <2>3. Len(x.record.entries) = Closed(x)
    BY <2>1 DEF Recorded
  <2>4. Len(y.record.entries) = Closed(x) + 1
    BY <2>1, <2>2, <2>3
  <2>5. /\ \A i \in 1..Closed(x) : y.record.entries[i] = x.record.entries[i]
        /\ y.record.entries[Closed(x) + 1] = new
    BY <2>1, <2>2, <2>3, <1>4
  <2>6. \A i \in 1..Len(y.record.entries) : y.record.entries[i].id = i - 1
    <3>1. SUFFICES ASSUME NEW i \in 1..Closed(x) + 1 PROVE y.record.entries[i].id = i - 1
      BY <2>4
    <3>2. CASE i = Closed(x) + 1
      BY <3>2, <2>5, <1>4, <1>7
    <3>3. CASE i <= Closed(x)
      <4>1. \A k \in 1..Closed(x) : x.record.entries[k].id = k - 1
        BY <2>1, <2>3 DEF Recorded
      <4>2. i \in 1..Closed(x)
        BY <3>1, <3>3, <1>4
      <4>3. QED
        BY <4>1, <4>2, <2>5
    <3>4. QED
      BY <3>2, <3>3, <1>4
  <2>7. \A j \in Nat : y.frag <= j /\ j < Closed(y)
          => y.frags[j % RingSize] = y.record.entries[j + 1]
    <3>1. SUFFICES ASSUME NEW j \in Nat, y.frag <= j, j < Closed(x) + 1
                   PROVE  y.frags[j % RingSize] = y.record.entries[j + 1]
      BY <1>5
    <3>2. CASE j = Closed(x)
      BY <3>2, <2>5, <1>7
    <3>3. CASE j < Closed(x)
      <4>1. x.frags[j % RingSize] = x.record.entries[j + 1]
        BY <3>1, <3>3, <2>1, <1>4, <1>5 DEF Recorded
      <4>2. QED
        BY <4>1, <3>3, <2>5, <1>2, <1>4
    <3>4. QED
      BY <3>1, <3>2, <3>3, <1>4
  <2>8. /\ Len(y.segments) = Begun(y) /\ Len(y.record.entries) = Closed(y)
        /\ y.nfrags < FragmentNum => y.frag = 0
        /\ \A i \in 1..Len(y.segments) : y.segments[i].id = i - 1
    BY <2>1, <2>4, <1>2, <1>4, <1>5 DEF Recorded
  <2>9. QED
    BY <2>6, <2>7, <2>8 DEF Recorded
<1>9. ASSUME disk
      PROVE  /\ y.playlist.seq = y.frag
             /\ Len(y.playlist.entries) = y.nfrags
             /\ DOMAIN y.playlist.entries = 1..y.nfrags
             /\ \A i \in 1..y.nfrags :
                  y.playlist.entries[i] = y.frags[(y.frag + i - 1) % RingSize]
  <2>1. y.playlist.entries = [i \in 1..y.nfrags |-> y.frags[getFrag(y, i - 1)]]
    BY <1>2, <1>9
  <2>2. \A i \in 1..y.nfrags : getFrag(y, i - 1) = (y.frag + i - 1) % RingSize
    <3>1. TAKE i \in 1..y.nfrags
    <3>2. y.frag + (i - 1) = y.frag + i - 1
      BY <1>5
    <3>3. QED
      BY <3>2 DEF getFrag
  <2>3. y.playlist.seq = y.frag
    BY <1>2, <1>9
  <2>4. Len(y.playlist.entries) = y.nfrags /\ DOMAIN y.playlist.entries = 1..y.nfrags
    BY <2>1, <1>5
  <2>5. \A i \in 1..y.nfrags : y.playlist.entries[i] = y.frags[(y.frag + i - 1) % RingSize]
    BY <2>1, <2>2
  <2>6. QED
    BY <2>3, <2>4, <2>5
<1>10. Listed(y, bad)
  <2>1. CASE ~disk
    <3>1. bad /\ y.playlist = x.playlist
      BY <2>1, <1>2 DEF SameLists
    <3>2. QED
      BY <3>1 DEF Named, Listed
  <2>2. CASE disk
    <3> DEFINE p == y.playlist.entries
               r == y.record.entries
    <3>1. Len(p) <= FragmentNum
      BY <2>2, <1>5, <1>9
    <3>2. \A i \in DOMAIN p : p[i].id = y.playlist.seq + i - 1
      <4>1. SUFFICES ASSUME NEW i \in 1..y.nfrags PROVE p[i].id = y.frag + i - 1
        BY <2>2, <1>9
      <4>2. y.frag + i - 1 \in Nat /\ y.frag <= y.frag + i - 1 /\ y.frag + i - 1 < Begun(y)
        BY <1>5
      <4>3. y.frags[(y.frag + i - 1) % RingSize].id = y.frag + i - 1
        BY <4>2, <1>6 DEF RingHolds
      <4>4. QED
        BY <4>3, <2>2, <1>9
    <3>3. ASSUME ~bad PROVE p = SubSeq(r, Len(r) - Len(p) + 1, Len(r))
      <4>1. Recorded(y) /\ Len(r) = y.frag + y.nfrags
        BY <1>5, <1>8, <3>3 DEF Recorded
      <4>2. r \in Seq(Fragment) /\ p \in Seq(Fragment)
        BY <1>3 DEF Typed
      <4> DEFINE s == SubSeq(r, y.frag + 1, y.frag + y.nfrags)
      <4>3. /\ Len(s) = y.nfrags /\ s \in Seq(Fragment)
            /\ \A i \in 1..y.nfrags : s[i] = r[y.frag + i]
        <5> HIDE DEF r
        <5> DEFINE from == y.frag + 1
                   to == y.frag + y.nfrags
        <5>5. /\ from \in 1..(Len(r) + 1) /\ to \in 0..Len(r) /\ from <= to + 1
              /\ to - from + 1 = y.nfrags /\ \A i \in 1..y.nfrags : from + i - 1 = y.frag + i
          BY <4>1, <1>5
        <5>6. s = SubSeq(r, from, to) /\ r \in Seq(Fragment)
          BY <4>2
        <5> HIDE DEF from, to, s
        <5>1. s \in Seq(Fragment)
          BY <5>5, <5>6
        <5>2. Len(s) = y.nfrags
          BY <5>5, <5>6
        <5>3. \A i \in 1..y.nfrags : s[i] = r[y.frag + i]
          BY <5>5, <5>6
        <5>4. QED
          BY <5>1, <5>2, <5>3
      <4>4. \A i \in 1..y.nfrags : p[i] = r[y.frag + i]
        <5>1. TAKE i \in 1..y.nfrags
        <5>2. y.frag + i - 1 \in Nat /\ y.frag <= y.frag + i - 1 /\ y.frag + i - 1 < Closed(y)
              /\ (y.frag + i - 1) + 1 = y.frag + i
          BY <1>5
        <5>3. y.frags[(y.frag + i - 1) % RingSize] = r[(y.frag + i - 1) + 1]
          BY <5>2, <4>1 DEF Recorded
        <5>4. QED
          BY <5>2, <5>3, <2>2, <1>9
      <4>5. Len(p) = y.nfrags
        BY <2>2, <1>9
      <4>6. p = s
        <5> HIDE DEF p, s, r
        <5>1. Len(p) = Len(s) /\ \A i \in 1..Len(p) : p[i] = s[i]
          BY <4>3, <4>4, <4>5
        <5>2. QED
          BY <5>1, <4>2, <4>3, SeqEqual
      <4>7. Len(r) - Len(p) + 1 = y.frag + 1
        BY <4>1, <4>5, <1>5
      <4>8. QED
        BY <4>1, <4>6, <4>7
    <3>4. ASSUME ~bad, Len(p) < FragmentNum PROVE Len(p) = Len(r)
      <4>1. Recorded(y) /\ Len(p) = y.nfrags
        BY <3>4, <2>2, <1>8, <1>9
      <4>2. y.frag = 0 /\ Len(r) = Closed(y)
        BY <4>1, <3>4 DEF Recorded
      <4>3. QED
        BY <4>1, <4>2, <1>5
    <3>5. QED
      BY <3>1, <3>2, <3>3, <3>4 DEF Listed
  <2>3. QED
    BY <2>1, <2>2
<1>11. QED
  BY <1>2, <1>6, <1>8, <1>10 DEF Named
----------------------------------------------------------------------------
(* The files.                                                              *)

Files(x) == UNION {Range(x.segments[i].msgs) : i \in DOMAIN x.segments}

\* What the streamer keeps is in no file yet.
Unwritten(x) == IsInjective(x.audioCache) /\ Range(x.audioCache) \cap Files(x) = {}

\* A fragment that began with a key frame; its messages are written once.
Strict(s) == s.video /\ ~s.discont
Strictly(x) == \A i \in DOMAIN x.segments :
                 Strict(x.segments[i]) => IsInjective(x.segments[i].msgs)

Sound(x, n, bad) == Typed(x, n) /\ Named(x, bad) /\ Unwritten(x) /\ Strictly(x)

\* From x to y the streamer's cache stayed as it was or went into the files, if ok.
Carries(x, y, ok) ==
  /\ y.spspps = x.spspps /\ y.adts = x.adts /\ y.audioCacheTS = x.audioCacheTS
  /\ Files(x) \subseteq Files(y)
  /\ \/ y.audioCache = x.audioCache
     \/ y.audioCache = <<>> /\ (ok => Range(x.audioCache) \subseteq Files(y))

LEMMA CarriesOn ==
  ASSUME NEW x, NEW y, NEW z, NEW ok \in BOOLEAN, NEW ok2 \in BOOLEAN, Carries(x, y, ok), Carries(y, z, ok2),
         ok => ok2
  PROVE  Carries(x, z, ok)
BY DEF Carries

LEMMA RangeOfConcat ==
  ASSUME NEW S, NEW s \in Seq(S), NEW t \in Seq(S)
  PROVE  Range(s \o t) = Range(s) \cup Range(t)
<1>1. /\ Len(s \o t) = Len(s) + Len(t) /\ s \o t \in Seq(S)
      /\ Len(s) \in Nat /\ Len(t) \in Nat
      /\ DOMAIN s = 1..Len(s) /\ DOMAIN t = 1..Len(t) /\ DOMAIN (s \o t) = 1..Len(s \o t)
  OBVIOUS
<1>2. \A i \in 1..Len(s) : (s \o t)[i] = s[i]
  OBVIOUS
<1>3. \A i \in 1..Len(t) : (s \o t)[Len(s) + i] = t[i]
  OBVIOUS
<1> DEFINE c == s \o t
<1>4. DOMAIN c = 1..(Len(s) + Len(t))
  BY <1>1
<1>5. \A i \in 1..Len(s) : c[i] = s[i]
  BY <1>2
<1>6. \A i \in 1..Len(t) : c[Len(s) + i] = t[i]
  BY <1>3
<1> HIDE DEF c
<1>7. ASSUME NEW i \in DOMAIN c PROVE c[i] \in Range(s) \cup Range(t)
  <2>1. CASE i \in 1..Len(s)
    BY <2>1, <1>1, <1>5 DEF Range
  <2>2. CASE i - Len(s) \in 1..Len(t)
    <3>1. i = Len(s) + (i - Len(s))
      BY <1>1, <1>4
    <3>2. c[i] = t[i - Len(s)]
      BY <3>1, <2>2, <1>6
    <3>3. QED
      BY <3>2, <2>2, <1>1 DEF Range
  <2>3. QED
    BY <2>1, <2>2, <1>1, <1>4
<1>8. ASSUME NEW i \in 1..Len(s) PROVE s[i] \in Range(c)
  <2>1. i \in DOMAIN c
    BY <1>1, <1>4
  <2>2. QED
    BY <2>1, <1>5 DEF Range
<1>9. ASSUME NEW i \in 1..Len(t) PROVE t[i] \in Range(c)
  <2>1. Len(s) + i \in DOMAIN c
    BY <1>1, <1>4
  <2>2. QED
    BY <2>1, <1>6 DEF Range
<1>10. QED
  BY <1>1, <1>7, <1>8, <1>9 DEF c, Range

LEMMA InjectiveConcat ==
  ASSUME NEW S, NEW s \in Seq(S), NEW t \in Seq(S), IsInjective(s), IsInjective(t),
         Range(s) \cap Range(t) = {}
  PROVE  IsInjective(s \o t)
<1> DEFINE c == s \o t
<1>1. /\ Len(s) \in Nat /\ Len(t) \in Nat
      /\ DOMAIN s = 1..Len(s) /\ DOMAIN t = 1..Len(t) /\ DOMAIN c = 1..(Len(s) + Len(t))
      /\ \A i \in 1..Len(s) : c[i] = s[i]
      /\ \A i \in 1..Len(t) : c[Len(s) + i] = t[i]
  <2>1. /\ Len(s \o t) = Len(s) + Len(t) /\ s \o t \in Seq(S)
        /\ Len(s) \in Nat /\ Len(t) \in Nat
        /\ DOMAIN s = 1..Len(s) /\ DOMAIN t = 1..Len(t) /\ DOMAIN (s \o t) = 1..Len(s \o t)
    OBVIOUS
  <2>2. \A i \in 1..Len(s) : (s \o t)[i] = s[i]
    OBVIOUS
  <2>3. \A i \in 1..Len(t) : (s \o t)[Len(s) + i] = t[i]
    OBVIOUS
  <2>4. QED
    BY <2>1, <2>2, <2>3
<1> HIDE DEF c
<1>2. \A i \in DOMAIN c :
        \/ i \in 1..Len(s) /\ c[i] = s[i] /\ c[i] \in Range(s)
        \/ i - Len(s) \in 1..Len(t) /\ c[i] = t[i - Len(s)] /\ c[i] \in Range(t)
  <2>1. TAKE i \in DOMAIN c
  <2>2. CASE i \in 1..Len(s)
    BY <2>2, <1>1 DEF Range
  <2>3. CASE i - Len(s) \in 1..Len(t)
    <3>1. i = Len(s) + (i - Len(s))
      BY <1>1
    <3>2. c[i] = t[i - Len(s)]
      BY <3>1, <2>3, <1>1
    <3>3. QED
      BY <3>2, <2>3, <1>1 DEF Range
  <2>4. QED
    BY <2>2, <2>3, <1>1
<1>3. SUFFICES ASSUME NEW i \in DOMAIN c, NEW j \in DOMAIN c, c[i] = c[j] PROVE i = j
  BY DEF IsInjective, c
<1>4. i \in Nat /\ j \in Nat
  BY <1>1
<1>5. CASE i \in 1..Len(s) /\ c[i] = s[i] /\ j \in 1..Len(s) /\ c[j] = s[j]
  BY <1>1, <1>3, <1>5 DEF IsInjective
<1>6. CASE i - Len(s) \in 1..Len(t) /\ c[i] = t[i - Len(s)] /\ j - Len(s) \in 1..Len(t) /\ c[j] = t[j - Len(s)]
  <2>1. i - Len(s) = j - Len(s)
    BY <1>1, <1>3, <1>6 DEF IsInjective
  <2>2. QED
    BY <2>1, <1>1, <1>4
<1>7. QED
  BY <1>2, <1>3, <1>5, <1>6

\* What a write does to the files, of which there are some.
Fills(x, msgs, last, y) ==
  /\ last \in Nat /\ last >= 1 /\ Len(y.segments) = last /\ y.segments # <<>>
  /\ \A i \in 1..last : i # last => y.segments[i] = x.segments[i]
  /\ y.segments[last].msgs = x.segments[last].msgs \o msgs
  /\ y.segments[last].video = x.segments[last].video
  /\ y.segments[last].discont = x.segments[last].discont
  /\ Files(y) = Files(x) \cup Range(msgs)

LEMMA WriteFiles ==
  ASSUME NEW n \in Nat, NEW x, Typed(x, n), NEW msgs \in Seq(1..n), x.segments # <<>>,
         NEW y, Writes(x, msgs, y)
  PROVE  Fills(x, msgs, Len(x.segments), y)
<1> DEFINE last == Len(x.segments)
<1>1. y.segments = [x.segments EXCEPT ![last].msgs = @ \o msgs]
  <2>1. DOMAIN x = Fields
    BY DEF Typed
  <2>2. QED
    BY DEF Writes
<1>2. x.segments \in Seq(File(n)) /\ last \in Nat /\ last >= 1
  BY DEF Typed
<1>3. x.segments[last] \in File(n)
  BY <1>2
<1>4. x.segments[last].msgs \in Seq(1..n)
  BY <1>3 DEF File
<1>5. /\ DOMAIN y.segments = 1..last /\ Len(y.segments) = last /\ y.segments # <<>>
      /\ DOMAIN x.segments = 1..last
  BY <1>1, <1>2
<1>6. \A i \in 1..last : i # last => y.segments[i] = x.segments[i]
  BY <1>1, <1>2
<1>7. y.segments[last] = [x.segments[last] EXCEPT !.msgs = @ \o msgs]
  BY <1>1, <1>2
<1>8. /\ y.segments[last].msgs = x.segments[last].msgs \o msgs
      /\ y.segments[last].video = x.segments[last].video
      /\ y.segments[last].discont = x.segments[last].discont
  <2> DEFINE old == x.segments[last]
  <2>1. DOMAIN old = {"id", "msgs", "discont", "video"}
    BY <1>3 DEF File
  <2> HIDE DEF old
  <2>2. /\ [old EXCEPT !.msgs = @ \o msgs].msgs = old.msgs \o msgs
        /\ [old EXCEPT !.msgs = @ \o msgs].video = old.video
        /\ [old EXCEPT !.msgs = @ \o msgs].discont = old.discont
    BY <2>1
  <2>3. y.segments[last] = [old EXCEPT !.msgs = @ \o msgs]
    BY <1>7 DEF old
  <2>4. QED
    BY <2>2, <2>3 DEF old
<1>9. Range(y.segments[last].msgs) = Range(x.segments[last].msgs) \cup Range(msgs)
  BY <1>4, <1>8, RangeOfConcat
<1>10. last \in DOMAIN x.segments /\ last \in DOMAIN y.segments
  BY <1>2, <1>5
<1>11. Files(y) \subseteq Files(x) \cup Range(msgs)
  <2>1. SUFFICES ASSUME NEW i \in 1..last, NEW k \in Range(y.segments[i].msgs)
                 PROVE  k \in Files(x) \cup Range(msgs)
    BY <1>5 DEF Files
  <2>2. CASE i = last
    BY <2>1, <2>2, <1>9, <1>10 DEF Files
  <2>3. CASE i # last
    BY <2>1, <2>3, <1>5, <1>6 DEF Files
  <2>4. QED
    BY <2>2, <2>3
<1>12. Files(x) \subseteq Files(y)
  <2>1. SUFFICES ASSUME NEW i \in 1..last, NEW k \in Range(x.segments[i].msgs)
                 PROVE  k \in Files(y)
    BY <1>5 DEF Files
  <2>2. CASE i = last
    BY <2>1, <2>2, <1>9, <1>10 DEF Files
  <2>3. CASE i # last
    BY <2>1, <2>3, <1>5, <1>6 DEF Files
  <2>4. QED
    BY <2>2, <2>3
<1>13. Range(msgs) \subseteq Files(y)
  BY <1>9, <1>10 DEF Files
<1>14. Files(y) = Files(x) \cup Range(msgs)
  BY <1>11, <1>12, <1>13
<1>15. QED
  BY <1>2, <1>5, <1>6, <1>8, <1>14 DEF Fills

LastFile(x) == x.segments[Len(x.segments)]
Fresh(x, msgs) ==
  Strict(LastFile(x)) => IsInjective(msgs) /\ Range(msgs) \cap Range(LastFile(x).msgs) = {}
SameEnd(x, y) == y.segments # <<>> /\ (Strict(LastFile(y)) <=> Strict(LastFile(x)))

\* A message goes into the open file: it must be new to it, if the file is a strict one.
LEMMA WriteSound ==
  ASSUME NEW n \in Nat, NEW x, NEW bad \in BOOLEAN, Typed(x, n), Named(x, bad), Strictly(x),
         NEW msgs \in Seq(1..n), x.opened, Fresh(x, msgs),
         NEW y, Writes(x, msgs, y)
  PROVE  /\ Typed(y, n) /\ Named(y, bad) /\ Strictly(y)
         /\ Files(y) = Files(x) \cup Range(msgs) /\ SameEnd(x, y)
<1> DEFINE last == Len(x.segments)
<1>1. x.segments # <<>>
  BY DEF Named
<1>2. Typed(y, n) /\ Named(y, bad)
  BY <1>1, WriteTyped, WriteNamed
<1>a. Fills(x, msgs, last, y)
  BY <1>1, WriteFiles
<1>3. /\ last \in Nat /\ last >= 1 /\ Len(y.segments) = last /\ y.segments # <<>>
      /\ \A i \in 1..last : i # last => y.segments[i] = x.segments[i]
      /\ y.segments[last].msgs = x.segments[last].msgs \o msgs
      /\ y.segments[last].video = x.segments[last].video
      /\ y.segments[last].discont = x.segments[last].discont
      /\ Files(y) = Files(x) \cup Range(msgs)
  BY <1>a DEF Fills
<1>5. /\ x.segments \in Seq(File(n)) /\ y.segments \in Seq(File(n))
      /\ DOMAIN x.segments = 1..last /\ DOMAIN y.segments = 1..last /\ last \in 1..last
  <2>1. x.segments \in Seq(File(n)) /\ y.segments \in Seq(File(n))
    BY <1>2 DEF Typed
  <2>2. DOMAIN x.segments = 1..last
    BY <2>1
  <2> HIDE DEF last
  <2>3. QED
    BY <2>1, <2>2, <1>3
<1>6. x.segments[last].msgs \in Seq(1..n)
  <2> HIDE DEF last
  <2>1. x.segments[last] \in File(n)
    BY <1>5
  <2>2. QED
    BY <2>1 DEF File
<1>7. Strict(y.segments[last]) <=> Strict(x.segments[last])
  BY <1>3 DEF Strict
<1>8. Strictly(y)
  <2>1. SUFFICES ASSUME NEW i \in 1..last, Strict(y.segments[i])
                 PROVE  IsInjective(y.segments[i].msgs)
    BY <1>5 DEF Strictly
  <2>2. CASE i # last
    BY <2>1, <2>2, <1>3, <1>5 DEF Strictly
  <2>3. CASE i = last
    <3>1. IsInjective(x.segments[last].msgs) /\ Strict(x.segments[last])
      BY <2>1, <2>3, <1>5, <1>7 DEF Strictly
    <3>2. IsInjective(x.segments[last].msgs \o msgs)
      BY <3>1, <1>6, InjectiveConcat DEF Fresh, LastFile
    <3>3. QED
      BY <3>2, <2>3, <1>3
  <2>4. QED
    BY <2>2, <2>3
<1>9. SameEnd(x, y)
  BY <1>3, <1>7 DEF SameEnd, LastFile
<1>10. QED
  BY <1>2, <1>3, <1>8, <1>9

LEMMA EmptiedSound ==
  ASSUME NEW n \in Nat, NEW x, NEW bad \in BOOLEAN, Typed(x, n), Named(x, bad), Strictly(x),
         NEW y, Empties(x, y)
  PROVE  Sound(y, n, bad) /\ Files(y) = Files(x)
<1>1. Typed(y, n) /\ Named(y, bad)
  BY EmptiedTyped, EmptiedNamed DEF Typed
<1>2. Files(y) = Files(x) /\ Strictly(y)
  BY DEF Files, Strictly, Empties
<1>3. Unwritten(y)
  BY DEF Unwritten, IsInjective, Range, Empties
<1>4. QED
  BY <1>1, <1>2, <1>3 DEF Sound

LEMMA LengthenSound ==
  ASSUME NEW n \in Nat, NEW x, NEW bad \in BOOLEAN, Sound(x, n, bad), x.opened,
         NEW ts \in Int, ts >= x.fragTS,
         NEW y, Lengthens(x, getCurrFrag(x), ts, y)
  PROVE  Sound(y, n, bad) /\ Carries(x, y, TRUE)
<1>1. Typed(x, n) /\ Named(x, bad)
  BY DEF Sound
<1>2. getCurrFrag(x) \in Slots
  BY <1>1, CurrentSlot DEF Typed
<1>3. Typed(y, n) /\ Named(y, bad)
  BY <1>1, <1>2, LengthenTyped, LengthenNamed
<1>4. Files(y) = Files(x) /\ Strictly(y) /\ Unwritten(y)
  BY DEF Sound, Files, Strictly, Unwritten, SameStreamer, Lengthens
<1>5. Carries(x, y, TRUE)
  BY <1>4 DEF Carries, SameStreamer, Lengthens
<1>6. QED
  BY <1>3, <1>4, <1>5 DEF Sound

LEMMA CloseSound ==
  ASSUME NEW n \in Nat, NEW x, NEW bad \in BOOLEAN, Sound(x, n, bad), x.opened,
         NEW disk \in BOOLEAN, disk \/ bad, NEW y, Closes(x, disk, y)
  PROVE  Sound(y, n, bad) /\ Carries(x, y, TRUE)
<1>1. Typed(x, n) /\ Named(x, bad)
  BY DEF Sound
<1>2. Typed(y, n) /\ Named(y, bad)
  BY <1>1, CloseTyped, CloseNamed
<1>3. Files(y) = Files(x) /\ Strictly(y) /\ Unwritten(y)
  BY DEF Sound, Files, Strictly, Unwritten, SameStreamer, Closes
<1>4. Carries(x, y, TRUE)
  BY <1>3 DEF Carries, SameStreamer, Closes
<1>5. QED
  BY <1>2, <1>3, <1>4 DEF Sound

\* A fragment has begun; it is a strict one if there is video and no jump forced it.
Begins(x, discont, y) ==
  /\ Carries(x, y, TRUE) /\ y.audioCache = x.audioCache
  /\ y.frags[getCurrFrag(y)].duration = 0
  /\ y.segments # <<>> /\ (Strict(LastFile(y)) <=> x.spspps /\ ~discont)

LEMMA OpeningSound ==
  ASSUME NEW n \in Nat, NEW x, NEW bad \in BOOLEAN, Sound(x, n, bad), ~x.opened,
         NEW ts \in Nat, NEW discont \in BOOLEAN,
         NEW y, Opens(x, ts, discont, y)
  PROVE  Sound(y, n, bad) /\ Begins(x, discont, y)
<1> DEFINE id == getFragmentID(x)
           new == [id |-> id, duration |-> 0, discont |-> discont]
           file == [id |-> id, msgs |-> <<>>, discont |-> discont, video |-> x.spspps]
<1>1. Typed(x, n) /\ Named(x, bad) /\ DOMAIN x = Fields
  BY DEF Sound, Typed
<1>2. Typed(y, n) /\ Named(y, bad)
  BY <1>1, OpeningTyped, OpeningNamed
<1>3. /\ DOMAIN y = Fields
      /\ y.opened = TRUE /\ y.fragTS = ts
      /\ y.frag = x.frag /\ y.nfrags = x.nfrags
      /\ y.frags = [x.frags EXCEPT ![getCurrFrag(x)] = new]
      /\ y.segments = Append(x.segments, file)
      /\ SameStreamer(x, y) /\ SameLists(x, y)
  BY DEF Opens
<1>4. new.duration = 0 /\ file.msgs = <<>> /\ (Strict(file) <=> x.spspps /\ ~discont)
  BY DEF Strict
<1> HIDE DEF file, new
<1>5. getCurrFrag(y) = getCurrFrag(x) /\ getCurrFrag(x) \in Slots /\ x.frags \in [Slots -> Fragment]
  BY <1>1, <1>3, CurrentSlot DEF getCurrFrag, getFrag, Typed
<1>6. y.frags[getCurrFrag(y)].duration = 0
  BY <1>3, <1>4, <1>5
<1>7. x.segments \in Seq(File(n))
  BY <1>1 DEF Typed
<1>8. /\ Len(y.segments) = Len(x.segments) + 1 /\ Len(x.segments) \in Nat
      /\ DOMAIN x.segments = 1..Len(x.segments)
      /\ DOMAIN y.segments = 1..(Len(x.segments) + 1)
      /\ \A i \in 1..Len(x.segments) : y.segments[i] = x.segments[i]
      /\ y.segments[Len(x.segments) + 1] = file
      /\ y.segments # <<>>
  BY <1>3, <1>7
<1>9. Range(file.msgs) = {} /\ IsInjective(file.msgs)
  BY <1>4 DEF Range, IsInjective
<1>10. Files(y) = Files(x)
  <2>1. ASSUME NEW k \in Files(y) PROVE k \in Files(x)
    <3>1. PICK i \in DOMAIN y.segments : k \in Range(y.segments[i].msgs)
      BY DEF Files
    <3>2. i \in 1..Len(x.segments)
      BY <3>1, <1>8, <1>9
    <3>3. QED
      BY <3>1, <3>2, <1>8 DEF Files
  <2>2. ASSUME NEW k \in Files(x) PROVE k \in Files(y)
    <3>1. PICK i \in DOMAIN x.segments : k \in Range(x.segments[i].msgs)
      BY DEF Files
    <3>2. i \in DOMAIN y.segments /\ y.segments[i] = x.segments[i]
      BY <3>1, <1>8
    <3>3. QED
      BY <3>1, <3>2 DEF Files
  <2>3. QED
    BY <2>1, <2>2
<1>11. Strictly(y)
  <2>1. SUFFICES ASSUME NEW i \in DOMAIN y.segments, Strict(y.segments[i])
                 PROVE  IsInjective(y.segments[i].msgs)
    BY DEF Strictly
  <2>2. CASE i = Len(x.segments) + 1
    BY <2>2, <1>8, <1>9
  <2>3. CASE i \in 1..Len(x.segments)
    BY <2>1, <2>3, <1>8 DEF Sound, Strictly
  <2>4. QED
    BY <2>2, <2>3, <1>8
<1>12. Unwritten(y)
  BY <1>3, <1>10 DEF Sound, Unwritten, SameStreamer
<1>13. Carries(x, y, TRUE)
  BY <1>3, <1>10 DEF Carries, SameStreamer
<1>14. LastFile(y) = file
  BY <1>8 DEF LastFile
<1>15. Begins(x, discont, y)
  BY <1>3, <1>4, <1>6, <1>8, <1>13, <1>14 DEF Begins, SameStreamer
<1>16. QED
  BY <1>2, <1>11, <1>12, <1>15 DEF Sound

\* A flush that opens nothing.
kept(x) == IF x.audioCache = <<>> THEN x ELSE emptied(write(x, x.audioCache))

Keeps(x, y) ==
  /\ Carries(x, y, TRUE) /\ y.audioCache = <<>>
  /\ y.opened /\ y.fragTS = x.fragTS /\ SameEnd(x, y)

LEMMA KeptSound ==
  ASSUME NEW n \in Nat, NEW x, NEW bad \in BOOLEAN, Sound(x, n, bad), x.opened
  PROVE  Sound(kept(x), n, bad) /\ Keeps(x, kept(x))
<1>1. /\ Typed(x, n) /\ Named(x, bad) /\ Strictly(x) /\ Unwritten(x)
      /\ x.audioCache \in Seq(1..n) /\ DOMAIN x = Fields
      /\ x.segments # <<>> /\ x.segments \in Seq(File(n))
  BY DEF Sound, Typed, Named
<1>2. CASE x.audioCache = <<>>
  <2>1. kept(x) = x
    BY <1>2 DEF kept
  <2>2. Keeps(x, x)
    BY <1>1, <1>2 DEF Keeps, Carries, SameEnd
  <2>3. QED
    BY <2>1, <2>2
<1>3. CASE x.audioCache # <<>>
  <2> DEFINE w == write(x, x.audioCache)
             y == emptied(w)
  <2>1. kept(x) = y
    BY <1>3 DEF kept
  <2>2. Writes(x, x.audioCache, w)
    BY <1>1, WriteFields
  <2>3. DOMAIN w = Fields
    BY <2>2 DEF Writes
  <2>4. Empties(w, y)
    BY <2>3, EmptiedFields
  <2> HIDE DEF w, y
  <2>5. Range(LastFile(x).msgs) \subseteq Files(x)
    BY <1>1 DEF Files, LastFile
  <2>6. Fresh(x, x.audioCache)
    BY <2>5, <1>1 DEF Unwritten, Fresh
  <2>7. Typed(w, n) /\ Named(w, bad) /\ Strictly(w)
        /\ Files(w) = Files(x) \cup Range(x.audioCache) /\ SameEnd(x, w)
    BY <2>2, <2>6, <1>1, WriteSound
  <2>8. Sound(y, n, bad) /\ Files(y) = Files(w)
    BY <2>4, <2>7, EmptiedSound
  <2>9. Carries(x, y, TRUE) /\ y.audioCache = <<>> /\ y.opened /\ y.fragTS = x.fragTS
    BY <2>2, <2>4, <2>7, <2>8 DEF Carries, SameStreamer, Writes, Empties
  <2>10. SameEnd(x, y)
    BY <2>4, <2>7 DEF SameEnd, LastFile, Empties
  <2>11. QED
    BY <2>1, <2>8, <2>9, <2>10 DEF Keeps
<1>4. QED
  BY <1>2, <1>3
----------------------------------------------------------------------------
(* The flush inside a flush finds a fragment that has just begun with the   *)
(* frame's own time: it writes and splits nothing.                          *)

LEMMA NoUpdate ==
  ASSUME NEW x, NEW disk \in BOOLEAN, NEW b, x.opened, x.audioCacheTS \in Int,
         x.fragTS = x.audioCacheTS, x.frags[getCurrFrag(x)].duration = 0
  PROVE  /\ updateFragment(flushNever, x, x.audioCacheTS, b, disk) = x
         /\ updateFragment(flushInside, x, x.audioCacheTS, b, disk) = x
<1>1. ~forced(x, x.audioCacheTS)
  BY RingSizeFacts DEF forced
<1>2. ~(x.audioCacheTS - x.fragTS > x.frags[getCurrFrag(x)].duration)
  OBVIOUS
<1>3. x.frags[getCurrFrag(x)].duration < FragmentDuration
  BY RingSizeFacts
<1>4. updateFragment(flushNever, x, x.audioCacheTS, b, disk) = x
  BY <1>1, <1>2, <1>3 DEF updateFragment, openFragment
<1>5. updateFragment(flushInside, x, x.audioCacheTS, b, disk) = x
  BY <1>1, <1>2, <1>3 DEF updateFragment, openFragment
<1>6. QED
  BY <1>4, <1>5

LEMMA InsideEnds ==
  ASSUME NEW x, NEW disk \in BOOLEAN, x.opened, x.audioCacheTS \in Int,
         x.fragTS = x.audioCacheTS, x.frags[getCurrFrag(x)].duration = 0
  PROVE  flushInside(x, disk) = kept(x) /\ FlushAudio(x, disk) = kept(x)
<1> DEFINE av == keptAudio(x)
           b == isBoundary(x, av)
<1>1. av.ts = x.audioCacheTS /\ av.msgs = x.audioCache
  BY DEF keptAudio
<1> HIDE DEF av
<1>2. updateFragment(flushNever, x, av.ts, b, disk) = x
  BY <1>1, NoUpdate
<1>3. updateFragment(flushInside, x, av.ts, b, disk) = x
  BY <1>1, NoUpdate
<1>4. OnFrame(flushNever, x, av, disk) = write(x, x.audioCache)
  BY <1>1, <1>2 DEF OnFrame, write
<1>5. OnFrame(flushInside, x, av, disk) = write(x, x.audioCache)
  BY <1>1, <1>3 DEF OnFrame, write
<1>6. flush(flushNever, x, disk) = kept(x)
  BY <1>4 DEF flush, kept, emptied, av
<1>7. flush(flushInside, x, disk) = kept(x)
  BY <1>5 DEF flush, kept, emptied, av
<1>8. QED
  BY <1>6, <1>7 DEF flushInside, FlushAudio
----------------------------------------------------------------------------
(* updateFragment, whatever flushes: what the closed state c becomes when   *)
(* openFragment begins a fragment with time ts.                             *)

Reopens(c, o, ts, n, bad, disk) ==
  /\ Sound(o, n, bad) /\ Carries(c, o, TRUE)
  /\ ~disk => o = c
  /\ disk => o.opened /\ o.fragTS >= ts /\ o.audioCache = <<>>

\* What updateFragment makes of x.
Updates(x, u, ts, n, bad, disk) ==
  /\ Sound(u, n, bad) /\ Carries(x, u, TRUE)
  /\ disk /\ x.opened => u.opened
  /\ disk => u.opened \/ u.segments = x.segments
  /\ x.opened /\ u.opened /\ x.frags[getCurrFrag(x)].duration = 0
       => \/ u.fragTS = x.fragTS
          \/ u.fragTS >= ts /\ (ts >= x.fragTS \/ x.fragTS - ts > negMaxfraglen)

LEMMA SoundTypes ==
  ASSUME NEW n, NEW bad, NEW x, Sound(x, n, bad)
  PROVE  /\ Typed(x, n) /\ Named(x, bad) /\ Strictly(x) /\ Unwritten(x) /\ DOMAIN x = Fields
         /\ x.fragTS \in Nat /\ x.audioCacheTS \in Nat /\ x.opened \in BOOLEAN
         /\ x.spspps \in BOOLEAN /\ x.audioCache \in Seq(1..n) /\ x.segments \in Seq(File(n))
         /\ getCurrFrag(x) \in Slots /\ x.frags \in [Slots -> Fragment]
         /\ x.opened => x.segments # <<>>
<1>1. Typed(x, n) /\ Named(x, bad) /\ Strictly(x) /\ Unwritten(x)
  BY DEF Sound
<1>2. getCurrFrag(x) \in Slots
  BY <1>1, CurrentSlot DEF Typed
<1>3. QED
  BY <1>1, <1>2 DEF Typed, Named

LEMMA SameCarries ==
  ASSUME NEW x
  PROVE  Carries(x, x, TRUE)
BY DEF Carries

\* z is x with the duration of the fragment that is open brought up to date.
Longer(x, ts) ==
  IF ts - x.fragTS > x.frags[getCurrFrag(x)].duration THEN lengthen(x, getCurrFrag(x), ts) ELSE x

Grows(x, z, ts) ==
  /\ Carries(x, z, TRUE)
  /\ z.opened /\ z.fragTS = x.fragTS /\ z.audioCache = x.audioCache /\ z.segments = x.segments
  /\ z = x \/ ts > x.fragTS

LEMMA LongerSound ==
  ASSUME NEW n \in Nat, NEW x, NEW bad \in BOOLEAN, Sound(x, n, bad), x.opened, NEW ts \in Nat
  PROVE  Sound(Longer(x, ts), n, bad) /\ Grows(x, Longer(x, ts), ts)
<1> DEFINE f == getCurrFrag(x)
           z == Longer(x, ts)
           y == lengthen(x, f, ts)
<1>1. DOMAIN x = Fields /\ x.fragTS \in Nat /\ f \in Slots /\ x.frags \in [Slots -> Fragment]
  BY SoundTypes
<1>2. x.frags[f].duration \in Nat
  BY <1>1 DEF Fragment
<1>3. Lengthens(x, f, ts, y)
  BY <1>1, LengthenFields
<1>4. z = x \/ (z = y /\ ts > x.fragTS)
  BY <1>1, <1>2 DEF Longer
<1> HIDE DEF y, z
<1>5. CASE z = x
  <2>1. Grows(x, x, ts)
    BY SameCarries DEF Grows
  <2>2. QED
    BY <1>5, <2>1 DEF z
<1>6. CASE z = y /\ ts > x.fragTS
  <2>1. Sound(y, n, bad) /\ Carries(x, y, TRUE)
    <3>1. ts \in Int /\ ts >= x.fragTS
      BY <1>1, <1>6
    <3>2. QED
      BY <1>3, <3>1, LengthenSound
  <2>2. y.opened /\ y.fragTS = x.fragTS /\ y.audioCache = x.audioCache /\ y.segments = x.segments
    BY <1>3 DEF Lengthens, SameStreamer
  <2>3. QED
    BY <2>1, <2>2, <1>6 DEF Grows, z
<1>7. QED
  BY <1>4, <1>5, <1>6 DEF z

\* Where updateFragment begins a fragment, and what then becomes of the state: none was
\* open (a), a jump forces a split (s), the fragment is long enough (l), both (t).
Reopened(x, ts, n, bad, disk, a, s, l, t) ==
  /\ ~x.opened => Reopens(x, a, ts, n, bad, disk)
  /\ x.opened /\ forced(x, ts) => Reopens(closeFragment(x, FALSE, disk), s, ts, n, bad, disk)
  /\ x.opened /\ ~forced(x, ts)
       => Reopens(closeFragment(Longer(x, ts), FALSE, disk), l, ts, n, bad, disk)
  /\ x.opened /\ forced(x, ts) /\ s.opened
       => Reopens(closeFragment(s, FALSE, disk), t, ts, n, bad, disk)

\* The fragment is long enough: if it had no length yet, time has passed.
Overdue(x, ts) == x.frags[getCurrFrag(x)].duration = 0 => ts > x.fragTS

Outcome(x, ts, b, u, a, s, l, t) ==
  \/ ~x.opened /\ (u = x \/ (u = a /\ b))
  \/ x.opened /\ ~forced(x, ts) /\ (u = Longer(x, ts) \/ (u = l /\ b /\ Overdue(x, ts)))
  \/ x.opened /\ forced(x, ts) /\ (u = s \/ (u = t /\ s.opened /\ b))

\* A fragment that is closed and begun again.
Again(x, o, ts, disk) ==
  /\ Carries(x, o, TRUE)
  /\ disk => o.opened /\ o.fragTS >= ts
  /\ ~disk => ~o.opened

LEMMA ReopenedSound ==
  ASSUME NEW n \in Nat, NEW bad \in BOOLEAN, NEW disk \in BOOLEAN, disk \/ bad,
         NEW x, Sound(x, n, bad), x.opened, NEW ts \in Nat,
         NEW o, Reopens(closeFragment(x, FALSE, disk), o, ts, n, bad, disk)
  PROVE  Sound(o, n, bad) /\ Again(x, o, ts, disk)
<1> DEFINE c == closeFragment(x, FALSE, disk)
<1>1. Closes(x, disk, c)
  BY SoundTypes, CloseFields
<1> HIDE DEF c
<1>2. Sound(c, n, bad) /\ Carries(x, c, TRUE)
  BY <1>1, CloseSound
<1>3. Reopens(c, o, ts, n, bad, disk)
  BY DEF c
<1>4. Carries(x, o, TRUE)
  BY <1>2, <1>3, CarriesOn DEF Reopens
<1>5. ~c.opened
  BY <1>1 DEF Closes
<1>6. QED
  BY <1>3, <1>4, <1>5 DEF Reopens, Again

LEMMA UpdateSound ==
  ASSUME NEW n \in Nat, NEW bad \in BOOLEAN, NEW disk \in BOOLEAN, disk \/ bad,
         NEW x, Sound(x, n, bad), NEW ts \in Nat, NEW b \in BOOLEAN,
         NEW a, NEW s, NEW l, NEW t, Reopened(x, ts, n, bad, disk, a, s, l, t),
         NEW u, Outcome(x, ts, b, u, a, s, l, t)
  PROVE  Updates(x, u, ts, n, bad, disk)
<1>1. CASE ~x.opened /\ u = x
  BY <1>1, SameCarries DEF Updates
<1>2. CASE ~x.opened /\ u = a
  <2>1. Reopens(x, u, ts, n, bad, disk)
    BY <1>2 DEF Reopened
  <2>2. Sound(u, n, bad) /\ Carries(x, u, TRUE) /\ (disk => u.opened)
    BY <2>1 DEF Reopens
  <2>3. ~x.opened
    BY <1>2
  <2>4. QED
    BY <2>2, <2>3 DEF Updates
<1>3. CASE x.opened /\ ~forced(x, ts) /\ u = Longer(x, ts)
  <2> DEFINE z == Longer(x, ts)
  <2>1. Sound(z, n, bad) /\ Grows(x, z, ts)
    BY <1>3, LongerSound
  <2> HIDE DEF z
  <2>2. /\ Sound(z, n, bad) /\ Carries(x, z, TRUE) /\ z.opened /\ z.fragTS = x.fragTS
        /\ z.segments = x.segments
    BY <2>1 DEF Grows
  <2>3. Updates(x, z, ts, n, bad, disk)
    BY <2>2 DEF Updates
  <2>4. QED
    BY <1>3, <2>3 DEF z
<1>4. CASE x.opened /\ ~forced(x, ts) /\ u = l /\ Overdue(x, ts)
  <2> DEFINE z == Longer(x, ts)
  <2>1. Sound(z, n, bad) /\ Grows(x, z, ts)
    BY <1>4, LongerSound
  <2>2. Reopens(closeFragment(z, FALSE, disk), l, ts, n, bad, disk)
    BY <1>4 DEF Reopened
  <2> HIDE DEF z
  <2>3. z.opened /\ Carries(x, z, TRUE)
    BY <2>1 DEF Grows
  <2>4. Sound(l, n, bad) /\ Again(z, l, ts, disk)
    BY <2>1, <2>2, <2>3, ReopenedSound
  <2>5. Carries(x, l, TRUE)
    BY <2>3, <2>4, CarriesOn DEF Again
  <2>6. x.frags[getCurrFrag(x)].duration = 0 => ts >= x.fragTS
    <3>1. x.fragTS \in Nat
      BY SoundTypes
    <3>2. QED
      BY <3>1, <1>4 DEF Overdue
  <2>7. QED
    BY <2>4, <2>5, <2>6, <1>4 DEF Updates, Again
<1>5. CASE x.opened /\ forced(x, ts)
  <2>1. ts >= x.fragTS \/ x.fragTS - ts > negMaxfraglen
    <3> DEFINE far == FragmentDuration * ForceFactor
    <3>1. far \in Nat /\ x.fragTS \in Nat
      BY RingSizeFacts, SoundTypes
    <3>2. ts - x.fragTS > far \/ x.fragTS - ts > negMaxfraglen
      BY <1>5 DEF forced
    <3> HIDE DEF far
    <3>3. QED
      BY <3>1, <3>2
  <2>2. Sound(s, n, bad) /\ Again(x, s, ts, disk)
    <3>1. Reopens(closeFragment(x, FALSE, disk), s, ts, n, bad, disk)
      BY <1>5 DEF Reopened
    <3>2. QED
      BY <3>1, <1>5, ReopenedSound
  <2>3. CASE u = s
    BY <2>1, <2>2, <2>3, <1>5 DEF Updates, Again
  <2>4. CASE u = t /\ s.opened
    <3>1. Reopens(closeFragment(s, FALSE, disk), t, ts, n, bad, disk)
      BY <2>4, <1>5 DEF Reopened
    <3>a. Sound(s, n, bad)
      BY <2>2
    <3>2. Sound(t, n, bad) /\ Again(s, t, ts, disk)
      BY <2>2, <2>4, <3>1, ReopenedSound
    <3>3. Carries(x, t, TRUE)
      BY <2>2, <3>2, CarriesOn DEF Again
    <3>4. QED
      BY <2>1, <2>2, <2>4, <3>2, <3>3, <1>5 DEF Updates, Again
  <2>5. QED
    BY <2>3, <2>4, <1>5 DEF Outcome
<1>6. QED
  BY <1>1, <1>2, <1>3, <1>4, <1>5 DEF Outcome

\* openFragment with flushInside, and updateFragment with it.
reopenInside(c, ts, d, disk) == IF c.opened \/ ~disk THEN c ELSE flushInside(opening(c, ts, d), disk)

fragmentsInside(x, ts, disk, a, s, l, t) ==
  /\ a = reopenInside(x, ts, TRUE, disk)
  /\ s = reopenInside(closeFragment(x, FALSE, disk), ts, TRUE, disk)
  /\ l = reopenInside(closeFragment(Longer(x, ts), FALSE, disk), ts, FALSE, disk)
  /\ t = reopenInside(closeFragment(s, FALSE, disk), ts, FALSE, disk)

updateInside(x, ts, b, disk) == updateFragment(flushInside, x, ts, b, disk)

LEMMA UpdateInside ==
  ASSUME NEW n \in Nat, NEW bad \in BOOLEAN, NEW disk \in BOOLEAN, disk \/ bad,
         NEW x, Sound(x, n, bad), NEW ts \in Nat, NEW b \in BOOLEAN,
         NEW a, NEW s, NEW l, NEW t, fragmentsInside(x, ts, disk, a, s, l, t),
         Reopened(x, ts, n, bad, disk, a, s, l, t)
  PROVE  Outcome(x, ts, b, updateInside(x, ts, b, disk), a, s, l, t)
<1> DEFINE f == getCurrFrag(x)
           z == Longer(x, ts)
           u == updateInside(x, ts, b, disk)
<1> SUFFICES Outcome(x, ts, b, u, a, s, l, t)
  OBVIOUS
<1> HIDE DEF u
<1>1. CASE ~x.opened
  <2>1. u = IF b THEN a ELSE x
    BY <1>1 DEF u, updateInside, updateFragment, openFragment, reopenInside, fragmentsInside
  <2>2. QED
    BY <1>1, <2>1 DEF Outcome
<1>2. CASE x.opened /\ ~forced(x, ts)
  <2>1. u
          = IF z.frags[f].duration < FragmentDuration \/ ~b THEN z ELSE l
    BY <1>2 DEF u, updateInside, updateFragment, openFragment, reopenInside, fragmentsInside, Longer, lengthen
  <2>2. ASSUME ~(z.frags[f].duration < FragmentDuration) PROVE Overdue(x, ts)
    <3>1. CASE z = x
      <4>1. x.frags[f].duration # 0
        BY <2>2, <3>1, RingSizeFacts
      <4>2. QED
        BY <4>1 DEF Overdue
    <3>2. CASE z # x
      <4>1. Grows(x, z, ts)
        BY <1>2, LongerSound
      <4>2. ts > x.fragTS
        BY <3>2, <4>1 DEF Grows
      <4>3. QED
        BY <4>2 DEF Overdue
    <3>3. QED
      BY <3>1, <3>2
  <2>3. QED
    BY <1>2, <2>1, <2>2 DEF Outcome
<1>3. CASE x.opened /\ forced(x, ts)
  <2>1. CASE ~s.opened
    <3>1. u = s
      BY <1>3, <2>1 DEF u, updateInside, updateFragment, openFragment, reopenInside, fragmentsInside
    <3>2. QED
      BY <1>3, <3>1 DEF Outcome
  <2>2. CASE s.opened
    <3>1. Reopens(closeFragment(x, FALSE, disk), s, ts, n, bad, disk)
      BY <1>3 DEF Reopened
    <3>2. Sound(s, n, bad) /\ disk /\ s.fragTS >= ts
      <4>1. Sound(s, n, bad) /\ Again(x, s, ts, disk)
        BY <1>3, <3>1, ReopenedSound
      <4>2. QED
        BY <2>2, <4>1 DEF Again
    <3>a. f \in Slots /\ s.frags \in [Slots -> Fragment] /\ s.fragTS \in Nat
      BY <3>2, SoundTypes
    <3>3. s.frags[f].duration \in Nat /\ s.fragTS \in Nat
      BY <3>a DEF Fragment
    <3>4. ~(ts - s.fragTS > s.frags[f].duration)
      <4> DEFINE len == s.frags[f].duration
                 from == s.fragTS
      <4>1. len \in Nat /\ from \in Nat /\ from >= ts
        BY <3>2, <3>3
      <4> HIDE DEF len, from
      <4>2. ~(ts - from > len)
        BY <4>1
      <4>3. QED
        BY <4>2 DEF len, from
    <3>5. u
            = IF s.frags[f].duration < FragmentDuration \/ ~b THEN s ELSE t
      BY <1>3, <2>2, <3>4 DEF u, updateInside, updateFragment, openFragment, reopenInside, fragmentsInside
    <3>6. QED
      BY <1>3, <2>2, <3>5 DEF Outcome
  <2>3. QED
    BY <2>1, <2>2
<1>4. QED
  BY <1>1, <1>2, <1>3, SoundTypes
----------------------------------------------------------------------------
(* FlushAudio.                                                             *)

\* A fragment begun for the audio that is kept: it is flushed into it.
LEMMA OpenedInside ==
  ASSUME NEW n \in Nat, NEW bad \in BOOLEAN, NEW disk \in BOOLEAN,
         NEW c, Sound(c, n, bad), ~c.opened, NEW ts, ts = c.audioCacheTS, NEW d \in BOOLEAN,
         NEW o, o = reopenInside(c, ts, d, disk)
  PROVE  /\ Reopens(c, o, ts, n, bad, disk)
         /\ o.opened => (Strict(LastFile(o)) => c.spspps /\ ~d)
<1>1. CASE ~disk
  <2>1. o = c
    BY <1>1 DEF reopenInside
  <2>2. Carries(c, c, TRUE)
    BY SameCarries
  <2>3. QED
    BY <1>1, <2>1, <2>2 DEF Reopens
<1>2. CASE disk
  <2> DEFINE y == opening(c, ts, d)
  <2>1. DOMAIN c = Fields /\ ts \in Nat
    BY SoundTypes
  <2>2. Opens(c, ts, d, y)
    BY <2>1, OpeningFields
  <2>3. o = flushInside(y, disk)
    BY <1>2 DEF reopenInside
  <2> HIDE DEF y
  <2>4. Sound(y, n, bad) /\ Begins(c, d, y)
    BY <2>1, <2>2, OpeningSound
  <2>5. y.opened /\ y.fragTS = ts /\ y.audioCacheTS = ts /\ y.frags[getCurrFrag(y)].duration = 0
    BY <2>2, <2>4 DEF Opens, Begins, SameStreamer
  <2>6. o = kept(y)
    BY <2>1, <2>3, <2>5, InsideEnds
  <2>7. Sound(o, n, bad) /\ Keeps(y, o)
    BY <2>4, <2>5, <2>6, KeptSound
  <2>8. Carries(c, o, TRUE)
    BY <2>4, <2>7, CarriesOn DEF Begins, Keeps
  <2>9. o.opened /\ o.fragTS >= ts /\ o.audioCache = <<>>
    BY <2>1, <2>5, <2>7 DEF Keeps
  <2>10. Strict(LastFile(o)) => c.spspps /\ ~d
    BY <2>4, <2>7 DEF Keeps, SameEnd, Begins
  <2>11. QED
    BY <1>2, <2>7, <2>8, <2>9, <2>10 DEF Reopens
<1>3. QED
  BY <1>1, <1>2

\* A fragment is closed, for another to begin.
Shut(x, c) == Carries(x, c, TRUE) /\ ~c.opened /\ SameStreamer(x, c)

LEMMA ClosedSound ==
  ASSUME NEW n \in Nat, NEW bad \in BOOLEAN, NEW disk \in BOOLEAN, disk \/ bad,
         NEW x, Sound(x, n, bad), x.opened
  PROVE  Sound(closeFragment(x, FALSE, disk), n, bad) /\ Shut(x, closeFragment(x, FALSE, disk))
<1> DEFINE c == closeFragment(x, FALSE, disk)
<1>1. Closes(x, disk, c)
  BY SoundTypes, CloseFields
<1> HIDE DEF c
<1>2. Sound(c, n, bad) /\ Carries(x, c, TRUE)
  BY <1>1, CloseSound
<1>3. Shut(x, c)
  BY <1>1, <1>2 DEF Closes, Shut
<1>4. QED
  BY <1>2, <1>3 DEF c

\* If the audio that was kept is in a strict file already, nothing is kept any more.
Plain(x, u, b) ==
  u.opened => u.audioCache = x.audioCache \/ (Strict(LastFile(u)) => x.spspps /\ b)

AllPlain(x, ts, b, a, s, l, t) ==
  \A u : Outcome(x, ts, b, u, a, s, l, t) => Plain(x, u, b)

LEMMA ReopenedInside ==
  ASSUME NEW n \in Nat, NEW bad \in BOOLEAN, NEW disk \in BOOLEAN, disk \/ bad,
         NEW x, Sound(x, n, bad), NEW ts, ts = x.audioCacheTS, NEW b \in BOOLEAN,
         NEW a, NEW s, NEW l, NEW t, fragmentsInside(x, ts, disk, a, s, l, t)
  PROVE  /\ Reopened(x, ts, n, bad, disk, a, s, l, t)
         /\ AllPlain(x, ts, b, a, s, l, t)
<1>1. ts \in Nat
  BY SoundTypes
<1>2. ASSUME ~x.opened
      PROVE  Reopens(x, a, ts, n, bad, disk) /\ (a.opened => ~Strict(LastFile(a)))
  BY <1>2, OpenedInside DEF fragmentsInside
<1>3. ASSUME x.opened
      PROVE  /\ Reopens(closeFragment(x, FALSE, disk), s, ts, n, bad, disk)
             /\ s.opened => ~Strict(LastFile(s))
  <2> DEFINE c == closeFragment(x, FALSE, disk)
  <2>1. Sound(c, n, bad) /\ Shut(x, c)
    BY <1>3, ClosedSound
  <2>2. s = reopenInside(c, ts, TRUE, disk)
    BY DEF fragmentsInside
  <2> HIDE DEF c
  <2>a. ~c.opened /\ c.audioCacheTS = ts
    BY <2>1 DEF Shut, SameStreamer
  <2>3. Reopens(c, s, ts, n, bad, disk) /\ (s.opened => ~Strict(LastFile(s)))
    BY <2>1, <2>2, <2>a, OpenedInside
  <2>4. QED
    BY <2>3 DEF c
<1>4. ASSUME x.opened
      PROVE  /\ Reopens(closeFragment(Longer(x, ts), FALSE, disk), l, ts, n, bad, disk)
             /\ l.opened => (Strict(LastFile(l)) => x.spspps)
  <2> DEFINE z == Longer(x, ts)
             c == closeFragment(z, FALSE, disk)
  <2>1. Sound(z, n, bad) /\ Grows(x, z, ts)
    BY <1>1, <1>4, LongerSound
  <2> HIDE DEF z
  <2>2. z.opened /\ z.audioCacheTS = ts /\ z.spspps = x.spspps
    BY <2>1 DEF Grows, Carries
  <2>3. Sound(c, n, bad) /\ Shut(z, c)
    BY <2>1, <2>2, ClosedSound
  <2>4. l = reopenInside(c, ts, FALSE, disk)
    BY DEF z, fragmentsInside
  <2> HIDE DEF c
  <2>a. ~c.opened /\ c.audioCacheTS = ts /\ c.spspps = x.spspps
    BY <2>2, <2>3 DEF Shut, SameStreamer
  <2>5. Reopens(c, l, ts, n, bad, disk) /\ (l.opened => (Strict(LastFile(l)) => x.spspps))
    BY <2>3, <2>4, <2>a, OpenedInside
  <2>6. QED
    BY <2>5 DEF c, z
<1>5. ASSUME x.opened, s.opened
      PROVE  /\ Reopens(closeFragment(s, FALSE, disk), t, ts, n, bad, disk)
             /\ t.opened => (Strict(LastFile(t)) => x.spspps)
  <2> DEFINE c == closeFragment(s, FALSE, disk)
  <2>1. Sound(s, n, bad) /\ Again(x, s, ts, disk)
    <3>1. Reopens(closeFragment(x, FALSE, disk), s, ts, n, bad, disk)
      BY <1>3, <1>5
    <3>2. QED
      BY <3>1, <1>1, <1>5, ReopenedSound
  <2>2. s.audioCacheTS = ts /\ s.spspps = x.spspps
    BY <2>1 DEF Again, Carries
  <2>3. Sound(c, n, bad) /\ Shut(s, c)
    BY <1>5, <2>1, ClosedSound
  <2>4. t = reopenInside(c, ts, FALSE, disk)
    BY DEF fragmentsInside
  <2> HIDE DEF c
  <2>a. ~c.opened /\ c.audioCacheTS = ts /\ c.spspps = x.spspps
    BY <2>2, <2>3 DEF Shut, SameStreamer
  <2>5. Reopens(c, t, ts, n, bad, disk) /\ (t.opened => (Strict(LastFile(t)) => x.spspps))
    BY <2>3, <2>4, <2>a, OpenedInside
  <2>6. QED
    BY <2>5 DEF c
<1>6. Reopened(x, ts, n, bad, disk, a, s, l, t)
  BY <1>2, <1>3, <1>4, <1>5 DEF Reopened
<1>7. ASSUME NEW u, Outcome(x, ts, b, u, a, s, l, t) PROVE Plain(x, u, b)
  <2>1. CASE ~x.opened /\ u = a /\ b
    BY <2>1, <1>2 DEF Plain
  <2>2. CASE u = x
    BY <2>2 DEF Plain
  <2>3. CASE x.opened /\ u = Longer(x, ts)
    <3>1. Grows(x, Longer(x, ts), ts)
      BY <2>3, <1>1, LongerSound
    <3>2. QED
      BY <2>3, <3>1 DEF Plain, Grows
  <2>4. CASE x.opened /\ u = l /\ b
    BY <2>4, <1>4 DEF Plain
  <2>5. CASE x.opened /\ u = s
    BY <2>5, <1>3 DEF Plain
  <2>6. CASE x.opened /\ s.opened /\ u = t /\ b
    BY <2>6, <1>5 DEF Plain
  <2>7. QED
    BY <1>7, <2>1, <2>2, <2>3, <2>4, <2>5, <2>6 DEF Outcome
<1>8. QED
  BY <1>6, <1>7 DEF AllPlain

\* The audio that is kept goes into the files, if they can be written.
Flushes(x, y, n, bad, disk) ==
  /\ Sound(y, n, bad) /\ Carries(x, y, disk /\ x.opened) /\ y.audioCache = <<>>
  /\ disk /\ x.opened => y.opened
  /\ disk => y.opened \/ y.segments = x.segments
  /\ x.opened /\ y.opened /\ x.frags[getCurrFrag(x)].duration = 0
       => \/ y.fragTS = x.fragTS
          \/ /\ y.fragTS >= x.audioCacheTS
             /\ x.audioCacheTS >= x.fragTS \/ x.fragTS - x.audioCacheTS > negMaxfraglen

LEMMA FlushSound ==
  ASSUME NEW n \in Nat, NEW bad \in BOOLEAN, NEW disk \in BOOLEAN, disk \/ bad,
         NEW x, Sound(x, n, bad)
  PROVE  /\ Flushes(x, FlushAudio(x, disk), n, bad, disk)
         /\ x.audioCache = <<>> => FlushAudio(x, disk) = x
<1> DEFINE ts == x.audioCacheTS
           av == keptAudio(x)
           b == isBoundary(x, av)
           u == updateInside(x, ts, b, disk)
           y == FlushAudio(x, disk)
           ok == disk /\ x.opened
<1>1. CASE x.audioCache = <<>>
  <2>1. y = x
    BY <1>1 DEF FlushAudio, flush
  <2>2. Carries(x, x, ok)
    BY DEF Carries
  <2>3. Flushes(x, x, n, bad, disk)
    BY <1>1, <2>2 DEF Flushes
  <2>4. QED
    BY <2>1, <2>3
<1>2. CASE x.audioCache # <<>>
  <2>1. av.ts = ts /\ av.msgs = x.audioCache /\ b = ~x.spspps /\ b \in BOOLEAN
    <3>1. av.kind = "audio"
      BY DEF keptAudio
    <3>2. QED
      BY <3>1, SoundTypes DEF keptAudio, isBoundary
  <2> HIDE DEF av, b
  <2>2. y = emptied(IF u.opened THEN write(u, x.audioCache) ELSE u)
    BY <1>2, <2>1 DEF FlushAudio, flush, OnFrame, updateInside, write, emptied, av, b
  <2>3. PICK a, s, l, t :
          /\ Reopened(x, ts, n, bad, disk, a, s, l, t) /\ Outcome(x, ts, b, u, a, s, l, t)
          /\ Plain(x, u, b)
    <3> DEFINE a == reopenInside(x, ts, TRUE, disk)
               s == reopenInside(closeFragment(x, FALSE, disk), ts, TRUE, disk)
               l == reopenInside(closeFragment(Longer(x, ts), FALSE, disk), ts, FALSE, disk)
               t == reopenInside(closeFragment(s, FALSE, disk), ts, FALSE, disk)
    <3>0. fragmentsInside(x, ts, disk, a, s, l, t)
      BY DEF fragmentsInside
    <3>6. b \in BOOLEAN
      BY <2>1
    <3> HIDE DEF a, s, l, t, ts, u
    <3>2. ts \in Nat /\ ts = x.audioCacheTS
      BY SoundTypes DEF ts
    <3>1. /\ Reopened(x, ts, n, bad, disk, a, s, l, t)
          /\ AllPlain(x, ts, b, a, s, l, t)
      BY <3>0, <3>2, <3>6, ReopenedInside
    <3>3. Outcome(x, ts, b, u, a, s, l, t)
      BY <3>0, <3>1, <3>2, <3>6, UpdateInside DEF u
    <3>4. Plain(x, u, b)
      BY <3>1, <3>3 DEF AllPlain
    <3>5. QED
      BY <3>1, <3>3, <3>4
  <2> HIDE DEF u, y
  <2>4. ts \in Nat
    BY SoundTypes
  <2>5. Updates(x, u, ts, n, bad, disk)
    BY <2>1, <2>3, <2>4, UpdateSound
  <2>6. Sound(u, n, bad) /\ Carries(x, u, TRUE)
    BY <2>5 DEF Updates
  <2>7. /\ Typed(u, n) /\ Named(u, bad) /\ Strictly(u) /\ Unwritten(u) /\ DOMAIN u = Fields
        /\ x.audioCache \in Seq(1..n)
        /\ u.opened => u.segments # <<>>
    BY <2>6, SoundTypes
  <2>8. CASE ~u.opened
    <3>1. y = emptied(u)
      BY <2>2, <2>8
    <3>2. Empties(u, y)
      BY <2>7, <3>1, EmptiedFields
    <3>3. Sound(y, n, bad) /\ Files(y) = Files(u)
      BY <2>7, <3>2, EmptiedSound
    <3>4. ~ok
      BY <2>5, <2>8 DEF Updates
    <3>5. y.audioCache = <<>> /\ ~y.opened /\ Carries(x, y, ok)
      BY <2>6, <2>8, <3>2, <3>3, <3>4 DEF Carries, Empties
    <3>6. disk => y.segments = x.segments
      BY <2>5, <2>8, <3>2 DEF Updates, Empties
    <3>7. QED
      BY <1>2, <3>3, <3>4, <3>5, <3>6 DEF Flushes, y
  <2>9. CASE u.opened
    <3> DEFINE w == write(u, x.audioCache)
    <3>1. y = emptied(w)
      BY <2>2, <2>9
    <3>2. Writes(u, x.audioCache, w)
      BY <2>7, WriteFields
    <3> HIDE DEF w
    <3>3. DOMAIN w = Fields
      BY <3>2 DEF Writes
    <3>4. Empties(w, y)
      BY <3>1, <3>3, EmptiedFields
    <3>5. Fresh(u, x.audioCache)
      <4>1. CASE Strict(LastFile(u))
        <5>1. u.audioCache = x.audioCache
          BY <2>1, <2>3, <2>9, <4>1 DEF Plain
        <5>2. u.segments \in Seq(File(n)) /\ u.segments # <<>>
          BY <2>7, <2>9 DEF Typed
        <5>3. Range(LastFile(u).msgs) \subseteq Files(u)
          BY <5>2 DEF Files, LastFile
        <5>4. QED
          BY <2>7, <5>1, <5>3 DEF Unwritten, Fresh
      <4>2. CASE ~Strict(LastFile(u))
        BY <4>2 DEF Fresh
      <4>3. QED
        BY <4>1, <4>2
    <3>6. Typed(w, n) /\ Named(w, bad) /\ Strictly(w)
          /\ Files(w) = Files(u) \cup Range(x.audioCache) /\ SameEnd(u, w)
      BY <2>7, <2>9, <3>2, <3>5, WriteSound
    <3>7. Sound(y, n, bad) /\ Files(y) = Files(w)
      BY <3>4, <3>6, EmptiedSound
    <3>8. y.opened /\ y.fragTS = u.fragTS /\ y.audioCache = <<>>
      BY <2>9, <3>2, <3>4 DEF Writes, Empties
    <3>9. Carries(x, y, ok)
      BY <2>6, <3>2, <3>4, <3>6, <3>7 DEF Carries, Writes, Empties, SameStreamer
    <3>10. QED
      BY <1>2, <2>5, <2>9, <3>7, <3>8, <3>9 DEF Flushes, Updates, y
  <2>10. QED
    BY <2>8, <2>9
<1>3. QED
  BY <1>1, <1>2

\* openFragment with FlushAudio, and updateFragment with it.
reopenAudio(c, ts, d, disk) == IF c.opened \/ ~disk THEN c ELSE FlushAudio(opening(c, ts, d), disk)

fragmentsAudio(x, ts, disk, a, s, l, t) ==
  /\ a = reopenAudio(x, ts, TRUE, disk)
  /\ s = reopenAudio(closeFragment(x, FALSE, disk), ts, TRUE, disk)
  /\ l = reopenAudio(closeFragment(Longer(x, ts), FALSE, disk), ts, FALSE, disk)
  /\ t = reopenAudio(closeFragment(s, FALSE, disk), ts, FALSE, disk)

updateAudio(x, ts, b, disk) == updateFragment(FlushAudio, x, ts, b, disk)

LEMMA UpdateAudio ==
  ASSUME NEW n \in Nat, NEW bad \in BOOLEAN, NEW disk \in BOOLEAN, disk \/ bad,
         NEW x, Sound(x, n, bad), NEW ts \in Nat, NEW b \in BOOLEAN,
         NEW a, NEW s, NEW l, NEW t, fragmentsAudio(x, ts, disk, a, s, l, t),
         Reopened(x, ts, n, bad, disk, a, s, l, t)
  PROVE  Outcome(x, ts, b, updateAudio(x, ts, b, disk), a, s, l, t)
<1> DEFINE f == getCurrFrag(x)
           z == Longer(x, ts)
           u == updateAudio(x, ts, b, disk)
<1> SUFFICES Outcome(x, ts, b, u, a, s, l, t)
  OBVIOUS
<1> HIDE DEF u
<1>1. CASE ~x.opened
  <2>1. u = IF b THEN a ELSE x
    BY <1>1 DEF u, updateAudio, updateFragment, openFragment, reopenAudio, fragmentsAudio
  <2>2. QED
    BY <1>1, <2>1 DEF Outcome
<1>2. CASE x.opened /\ ~forced(x, ts)
  <2>1. u
          = IF z.frags[f].duration < FragmentDuration \/ ~b THEN z ELSE l
    BY <1>2 DEF u, updateAudio, updateFragment, openFragment, reopenAudio, fragmentsAudio, Longer, lengthen
  <2>2. ASSUME ~(z.frags[f].duration < FragmentDuration) PROVE Overdue(x, ts)
    <3>1. CASE z = x
      <4>1. x.frags[f].duration # 0
        BY <2>2, <3>1, RingSizeFacts
      <4>2. QED
        BY <4>1 DEF Overdue
    <3>2. CASE z # x
      <4>1. Grows(x, z, ts)
        BY <1>2, LongerSound
      <4>2. ts > x.fragTS
        BY <3>2, <4>1 DEF Grows
      <4>3. QED
        BY <4>2 DEF Overdue
    <3>3. QED
      BY <3>1, <3>2
  <2>3. QED
    BY <1>2, <2>1, <2>2 DEF Outcome
<1>3. CASE x.opened /\ forced(x, ts)
  <2>1. CASE ~s.opened
    <3>1. u = s
      BY <1>3, <2>1 DEF u, updateAudio, updateFragment, openFragment, reopenAudio, fragmentsAudio
    <3>2. QED
      BY <1>3, <3>1 DEF Outcome
  <2>2. CASE s.opened
    <3>1. Reopens(closeFragment(x, FALSE, disk), s, ts, n, bad, disk)
      BY <1>3 DEF Reopened
    <3>2. Sound(s, n, bad) /\ disk /\ s.fragTS >= ts
      <4>1. Sound(s, n, bad) /\ Again(x, s, ts, disk)
        BY <1>3, <3>1, ReopenedSound
      <4>2. QED
        BY <2>2, <4>1 DEF Again
    <3>a. f \in Slots /\ s.frags \in [Slots -> Fragment] /\ s.fragTS \in Nat
      BY <3>2, SoundTypes
    <3>3. s.frags[f].duration \in Nat /\ s.fragTS \in Nat
      BY <3>a DEF Fragment
    <3>4. ~(ts - s.fragTS > s.frags[f].duration)
      <4> DEFINE len == s.frags[f].duration
                 from == s.fragTS
      <4>1. len \in Nat /\ from \in Nat /\ from >= ts
        BY <3>2, <3>3
      <4> HIDE DEF len, from
      <4>2. ~(ts - from > len)
        BY <4>1
      <4>3. QED
        BY <4>2 DEF len, from
    <3>5. u
            = IF s.frags[f].duration < FragmentDuration \/ ~b THEN s ELSE t
      BY <1>3, <2>2, <3>4 DEF u, updateAudio, updateFragment, openFragment, reopenAudio, fragmentsAudio
    <3>6. QED
      BY <1>3, <2>2, <3>5 DEF Outcome
  <2>3. QED
    BY <2>1, <2>2
<1>4. QED
  BY <1>1, <1>2, <1>3, SoundTypes
----------------------------------------------------------------------------
(* A video frame flushes the audio wherever it begins a fragment.          *)

\* The audio that is kept, if any, is not long past: flushOld sees to it.
OnTime(x, ts) == x.audioCache = <<>> \/ ts - x.audioCacheTS <= negMaxfraglen

LEMMA OpenedAudio ==
  ASSUME NEW n \in Nat, NEW bad \in BOOLEAN, NEW disk \in BOOLEAN, disk \/ bad,
         NEW c, Sound(c, n, bad), ~c.opened, NEW ts \in Nat, OnTime(c, ts), NEW d \in BOOLEAN,
         NEW o, o = reopenAudio(c, ts, d, disk)
  PROVE  Reopens(c, o, ts, n, bad, disk)
<1>1. CASE ~disk
  <2>1. o = c
    BY <1>1 DEF reopenAudio
  <2>2. Carries(c, c, TRUE)
    BY SameCarries
  <2>3. QED
    BY <1>1, <2>1, <2>2 DEF Reopens
<1>2. CASE disk
  <2> DEFINE y == opening(c, ts, d)
  <2>1. DOMAIN c = Fields
    BY SoundTypes
  <2>2. Opens(c, ts, d, y)
    BY <2>1, OpeningFields
  <2>3. o = FlushAudio(y, disk)
    BY <1>2 DEF reopenAudio
  <2> HIDE DEF y
  <2>4. Sound(y, n, bad) /\ Begins(c, d, y)
    BY <2>2, OpeningSound
  <2>5. /\ y.opened = TRUE /\ y.fragTS = ts /\ y.frags[getCurrFrag(y)].duration = 0
        /\ y.audioCache = c.audioCache /\ y.audioCacheTS = c.audioCacheTS
    BY <2>2, <2>4 DEF Opens, Begins, SameStreamer
  <2>6. Flushes(y, o, n, bad, disk) /\ (y.audioCache = <<>> => o = y)
    BY <2>3, <2>4, FlushSound
  <2>7. Sound(o, n, bad) /\ Carries(y, o, TRUE) /\ o.opened /\ o.audioCache = <<>>
    BY <1>2, <2>5, <2>6 DEF Flushes
  <2>8. Carries(c, o, TRUE)
    BY <2>4, <2>7, CarriesOn DEF Begins
  <2>9. o.fragTS >= ts
    <3>1. CASE y.audioCache = <<>>
      BY <2>5, <2>6, <3>1
    <3>2. CASE y.audioCache # <<>>
      <4>1. y.audioCacheTS \in Nat /\ o.fragTS \in Nat
        BY <2>4, <2>7, SoundTypes
      <4>2. ts - y.audioCacheTS <= negMaxfraglen
        BY <2>5, <3>2 DEF OnTime
      <4>3. \/ o.fragTS = ts
            \/ /\ o.fragTS >= y.audioCacheTS
               /\ y.audioCacheTS >= ts \/ ts - y.audioCacheTS > negMaxfraglen
        BY <2>5, <2>6, <2>7 DEF Flushes
      <4>4. QED
        BY <4>1, <4>2, <4>3, RingSizeFacts
    <3>3. QED
      BY <3>1, <3>2
  <2>10. QED
    BY <1>2, <2>7, <2>8, <2>9 DEF Reopens
<1>3. QED
  BY <1>1, <1>2

LEMMA ReopenedAudio ==
  ASSUME NEW n \in Nat, NEW bad \in BOOLEAN, NEW disk \in BOOLEAN, disk \/ bad,
         NEW x, Sound(x, n, bad), NEW ts \in Nat, OnTime(x, ts),
         NEW a, NEW s, NEW l, NEW t, fragmentsAudio(x, ts, disk, a, s, l, t)
  PROVE  Reopened(x, ts, n, bad, disk, a, s, l, t)
<1>2. ASSUME ~x.opened
      PROVE  Reopens(x, a, ts, n, bad, disk)
  BY <1>2, OpenedAudio DEF fragmentsAudio
<1>3. ASSUME x.opened
      PROVE  Reopens(closeFragment(x, FALSE, disk), s, ts, n, bad, disk)
  <2> DEFINE c == closeFragment(x, FALSE, disk)
  <2>1. Sound(c, n, bad) /\ Shut(x, c)
    BY <1>3, ClosedSound
  <2>2. s = reopenAudio(c, ts, TRUE, disk)
    BY DEF fragmentsAudio
  <2> HIDE DEF c
  <2>3. ~c.opened /\ OnTime(c, ts)
    BY <2>1 DEF Shut, SameStreamer, OnTime
  <2>4. Reopens(c, s, ts, n, bad, disk)
    BY <2>1, <2>2, <2>3, OpenedAudio
  <2>5. QED
    BY <2>4 DEF c
<1>4. ASSUME x.opened
      PROVE  Reopens(closeFragment(Longer(x, ts), FALSE, disk), l, ts, n, bad, disk)
  <2> DEFINE z == Longer(x, ts)
             c == closeFragment(z, FALSE, disk)
  <2>1. Sound(z, n, bad) /\ Grows(x, z, ts)
    BY <1>4, LongerSound
  <2> HIDE DEF z
  <2>2. z.opened /\ OnTime(z, ts)
    BY <2>1 DEF Grows, Carries, OnTime
  <2>3. Sound(c, n, bad) /\ Shut(z, c)
    BY <2>1, <2>2, ClosedSound
  <2>4. l = reopenAudio(c, ts, FALSE, disk)
    BY DEF z, fragmentsAudio
  <2> HIDE DEF c
  <2>5. ~c.opened /\ OnTime(c, ts)
    BY <2>2, <2>3 DEF Shut, SameStreamer, OnTime
  <2>6. Reopens(c, l, ts, n, bad, disk)
    BY <2>3, <2>4, <2>5, OpenedAudio
  <2>7. QED
    BY <2>6 DEF c, z
<1>5. ASSUME x.opened, s.opened
      PROVE  Reopens(closeFragment(s, FALSE, disk), t, ts, n, bad, disk)
  <2> DEFINE c == closeFragment(s, FALSE, disk)
  <2>1. Sound(s, n, bad) /\ Again(x, s, ts, disk)
    <3>1. Reopens(closeFragment(x, FALSE, disk), s, ts, n, bad, disk)
      BY <1>3, <1>5
    <3>2. QED
      BY <3>1, <1>5, ReopenedSound
  <2>2. OnTime(s, ts)
    BY <2>1 DEF Again, Carries, OnTime
  <2>3. Sound(c, n, bad) /\ Shut(s, c)
    BY <1>5, <2>1, ClosedSound
  <2>4. t = reopenAudio(c, ts, FALSE, disk)
    BY DEF fragmentsAudio
  <2> HIDE DEF c
  <2>5. ~c.opened /\ OnTime(c, ts)
    BY <2>2, <2>3 DEF Shut, SameStreamer, OnTime
  <2>6. Reopens(c, t, ts, n, bad, disk)
    BY <2>3, <2>4, <2>5, OpenedAudio
  <2>7. QED
    BY <2>6 DEF c
<1>6. QED
  BY <1>2, <1>3, <1>4, <1>5 DEF Reopened

LEMMA UpdateAudioSound ==
  ASSUME NEW n \in Nat, NEW bad \in BOOLEAN, NEW disk \in BOOLEAN, disk \/ bad,
         NEW x, Sound(x, n, bad), NEW ts \in Nat, OnTime(x, ts), NEW b \in BOOLEAN
  PROVE  Updates(x, updateAudio(x, ts, b, disk), ts, n, bad, disk)
<1> DEFINE u == updateAudio(x, ts, b, disk)
           a == reopenAudio(x, ts, TRUE, disk)
           s == reopenAudio(closeFragment(x, FALSE, disk), ts, TRUE, disk)
           l == reopenAudio(closeFragment(Longer(x, ts), FALSE, disk), ts, FALSE, disk)
           t == reopenAudio(closeFragment(s, FALSE, disk), ts, FALSE, disk)
<1>1. fragmentsAudio(x, ts, disk, a, s, l, t)
  BY DEF fragmentsAudio
<1> HIDE DEF a, s, l, t
<1>2. Reopened(x, ts, n, bad, disk, a, s, l, t)
  BY <1>1, ReopenedAudio
<1>3. Outcome(x, ts, b, u, a, s, l, t)
  BY <1>1, <1>2, UpdateAudio
<1> HIDE DEF u
<1>4. Updates(x, u, ts, n, bad, disk)
  BY <1>2, <1>3, UpdateSound
<1>5. QED
  BY <1>4 DEF u
----------------------------------------------------------------------------
(* The handlers.                                                           *)

\* What Written stands for, of any state.
Kept(x) == Files(x) \cup Range(x.audioCache)

LEMMA CarriesKept ==
  ASSUME NEW x, NEW y, Carries(x, y, TRUE)
  PROVE  Kept(x) \subseteq Kept(y)
BY DEF Carries, Kept

\* One message more has been fed.
LEMMA TypedMore ==
  ASSUME NEW n \in Nat, NEW x, Typed(x, n)
  PROVE  Typed(x, n + 1)
<1>1. 1..n \subseteq 1..(n + 1)
  OBVIOUS
<1>2. \A q \in Seq(1..n) : q \in Seq(1..(n + 1))
  <2>1. TAKE q \in Seq(1..n)
  <2>2. \A i \in 1..Len(q) : q[i] \in 1..(n + 1)
    BY <1>1
  <2>3. QED
    BY <2>2
<1>3. File(n) \subseteq File(n + 1)
  <2>1. SUFFICES ASSUME NEW s \in File(n) PROVE s \in File(n + 1)
    OBVIOUS
  <2>2. s.msgs \in Seq(1..(n + 1))
    BY <1>2 DEF File
  <2>3. QED
    BY <2>2 DEF File
<1>4. x.segments \in Seq(File(n + 1))
  <2> DEFINE q == x.segments
  <2>1. q \in Seq(File(n))
    BY DEF Typed
  <2> HIDE DEF q
  <2>2. \A i \in 1..Len(q) : q[i] \in File(n + 1)
    BY <1>3, <2>1
  <2>3. q \in Seq(File(n + 1))
    BY <2>1, <2>2
  <2>4. QED
    BY <2>3 DEF q
<1>5. x.audioCache \in Seq(1..(n + 1))
  BY <1>2 DEF Typed
<1>6. QED
  BY <1>4, <1>5 DEF Typed

\* A file may have failed since.
LEMMA SoundWorse ==
  ASSUME NEW n, NEW bad \in BOOLEAN, NEW bad2 \in BOOLEAN, bad => bad2, NEW x, Sound(x, n, bad)
  PROVE  Sound(x, n, bad2)
BY DEF Sound, Named, Listed

LEMMA FilesBelow ==
  ASSUME NEW n \in Nat, NEW x, Typed(x, n)
  PROVE  Files(x) \subseteq 1..n /\ Range(x.audioCache) \subseteq 1..n
<1>1. SUFFICES ASSUME NEW i \in DOMAIN x.segments, NEW k \in Range(x.segments[i].msgs)
               PROVE  k \in 1..n
  <2>3. x.audioCache \in Seq(1..n)
    BY DEF Typed
  <2>1. Range(x.audioCache) \subseteq 1..n
    BY <2>3 DEF Range
  <2>2. QED
    BY <2>1 DEF Files
<1>2. x.segments[i] \in File(n)
  BY DEF Typed
<1>3. x.segments[i].msgs \in Seq(1..n)
  BY <1>2 DEF File
<1>4. QED
  BY <1>1, <1>3 DEF Range

\* From x to y message i was fed.
Feeds(x, y, i, bad, disk) ==
  /\ Sound(y, i, bad) /\ y.spspps = x.spspps /\ y.adts = x.adts
  /\ disk => y.opened \/ y.segments = x.segments
  /\ disk /\ x.opened => y.opened /\ Kept(x) \subseteq Kept(y)

LEMMA FeedsOn ==
  ASSUME NEW x, NEW y, NEW z, NEW i, NEW j, NEW bad, NEW disk \in BOOLEAN,
         Feeds(x, y, i, bad, disk), Feeds(y, z, j, bad, disk)
  PROVE  Feeds(x, z, j, bad, disk)
BY DEF Feeds

LEMMA FlushFeeds ==
  ASSUME NEW n \in Nat, NEW bad \in BOOLEAN, NEW disk \in BOOLEAN, disk \/ bad,
         NEW x, Sound(x, n, bad)
  PROVE  Feeds(x, FlushAudio(x, disk), n, bad, disk) /\ FlushAudio(x, disk).audioCache = <<>>
<1> DEFINE y == FlushAudio(x, disk)
<1>1. Flushes(x, y, n, bad, disk)
  BY FlushSound
<1> HIDE DEF y
<1>2. disk /\ x.opened => Carries(x, y, TRUE)
  BY <1>1 DEF Flushes
<1>3. disk /\ x.opened => Kept(x) \subseteq Kept(y)
  BY <1>2, CarriesKept
<1>4. Feeds(x, y, n, bad, disk)
  BY <1>1, <1>3 DEF Flushes, Feeds, Carries
<1>5. QED
  BY <1>1, <1>4 DEF Flushes, y

LEMMA FlushOldSound ==
  ASSUME NEW n \in Nat, NEW bad \in BOOLEAN, NEW disk \in BOOLEAN, disk \/ bad,
         NEW x, Sound(x, n, bad), NEW ts \in Nat, NEW delay \in Nat
  PROVE  /\ Feeds(x, flushOld(x, ts, delay, disk), n, bad, disk)
         /\ delay <= negMaxfraglen => OnTime(flushOld(x, ts, delay, disk), ts)
<1>1. CASE x.audioCache # <<>> /\ x.audioCacheTS + delay < ts
  <2>1. flushOld(x, ts, delay, disk) = FlushAudio(x, disk)
    BY <1>1 DEF flushOld, keptTooLong
  <2>2. QED
    BY <2>1, FlushFeeds DEF OnTime
<1>2. CASE ~(x.audioCache # <<>> /\ x.audioCacheTS + delay < ts)
  <2>1. flushOld(x, ts, delay, disk) = x
    BY <1>2 DEF flushOld, keptTooLong
  <2>2. Feeds(x, x, n, bad, disk)
    BY DEF Feeds
  <2>3. ASSUME delay <= negMaxfraglen PROVE OnTime(x, ts)
    <3>1. x.audioCacheTS \in Nat
      BY SoundTypes
    <3>2. x.audioCache # <<>> => ts - x.audioCacheTS <= negMaxfraglen
      BY <1>2, <2>3, <3>1, RingSizeFacts
    <3>3. QED
      BY <3>2 DEF OnTime
  <2>4. QED
    BY <2>1, <2>2, <2>3
<1>3. QED
  BY <1>1, <1>2

videoFrame(i, key, ts) == [kind |-> "video", key |-> key, ts |-> ts, msgs |-> <<i>>]
onVideo(x, av, disk) == OnFrame(FlushAudio, x, av, disk)

\* And if a fragment is open, the message is in a file or kept.
Feeding(x, y, i, bad, disk) == Feeds(x, y, i, bad, disk) /\ (y.opened => i \in Kept(y))

LEMMA OnVideoSound ==
  ASSUME NEW n \in Nat, NEW bad \in BOOLEAN, NEW disk \in BOOLEAN, disk \/ bad,
         NEW x, Sound(x, n, bad), NEW ts \in Nat, OnTime(x, ts), NEW key \in BOOLEAN
  PROVE  Feeding(x, onVideo(x, videoFrame(n + 1, key, ts), disk), n + 1, bad, disk)
<1> DEFINE i == n + 1
           av == videoFrame(i, key, ts)
           b == isBoundary(x, av)
           u == updateAudio(x, ts, b, disk)
           y == onVideo(x, av, disk)
<1> SUFFICES Feeds(x, y, i, bad, disk) /\ (y.opened => i \in Kept(y))
  BY DEF Feeding
<1>1. av.ts = ts /\ av.msgs = <<i>> /\ b \in BOOLEAN /\ i \in Nat
  <2>1. av.kind # "audio" /\ av.key \in BOOLEAN /\ av.ts = ts /\ av.msgs = <<i>>
    BY DEF videoFrame
  <2> HIDE DEF av
  <2>2. b \in BOOLEAN
    BY <2>1, SoundTypes DEF isBoundary
  <2>3. QED
    BY <2>1, <2>2
<1> HIDE DEF av, b
<1>2. y = IF u.opened THEN write(u, <<i>>) ELSE u
  BY <1>1 DEF onVideo, OnFrame, updateAudio, write, b
<1>3. Updates(x, u, ts, n, bad, disk)
  BY <1>1, UpdateAudioSound
<1> HIDE DEF u, y
<1>4. Sound(u, n, bad) /\ Carries(x, u, TRUE)
  BY <1>3 DEF Updates
<1>5. /\ Typed(u, i) /\ Named(u, bad) /\ Strictly(u) /\ Unwritten(u) /\ DOMAIN u = Fields
      /\ u.opened => u.segments # <<>>
  BY <1>4, SoundTypes, TypedMore
<1>6. Files(u) \subseteq 1..n /\ Range(u.audioCache) \subseteq 1..n
  BY <1>4, SoundTypes, FilesBelow
<1>7. Kept(x) \subseteq Kept(u)
  BY <1>4, CarriesKept
<1>8. CASE ~u.opened
  <2>1. y = u /\ Sound(u, i, bad)
    BY <1>2, <1>5, <1>8 DEF Sound
  <2>2. QED
    BY <1>3, <1>4, <1>7, <1>8, <2>1 DEF Feeds, Updates, Carries
<1>9. CASE u.opened
  <2>1. y = write(u, <<i>>)
    BY <1>2, <1>9
  <2>2. Writes(u, <<i>>, y)
    BY <1>5, <2>1, WriteFields
  <2>3. <<i>> \in Seq(1..i) /\ Range(<<i>>) = {i} /\ IsInjective(<<i>>)
    <3>1. i \in 1..i
      BY <1>1
    <3>2. QED
      BY <3>1 DEF Range, IsInjective
  <2>4. i \notin 1..n
    OBVIOUS
  <2>5. Fresh(u, <<i>>)
    <3>1. u.segments \in Seq(File(i)) /\ u.segments # <<>>
      BY <1>5, <1>9 DEF Typed
    <3>2. Range(LastFile(u).msgs) \subseteq Files(u)
      BY <3>1 DEF Files, LastFile
    <3>3. QED
      BY <1>6, <2>3, <2>4, <3>2 DEF Fresh
  <2>6. Typed(y, i) /\ Named(y, bad) /\ Strictly(y)
        /\ Files(y) = Files(u) \cup Range(<<i>>) /\ SameEnd(u, y)
    <3> DEFINE q == <<i>>
    <3>1. Typed(u, i) /\ Named(u, bad) /\ Strictly(u) /\ i \in Nat /\ u.opened
      BY <1>1, <1>5, <1>9
    <3>2. q \in Seq(1..i) /\ Fresh(u, q) /\ Writes(u, q, y)
      BY <2>2, <2>3, <2>5
    <3> HIDE DEF i, q
    <3>3. Typed(y, i) /\ Named(y, bad) /\ Strictly(y)
          /\ Files(y) = Files(u) \cup Range(q) /\ SameEnd(u, y)
      BY <3>1, <3>2, WriteSound
    <3>4. QED
      BY <3>3 DEF q
  <2>7. y.audioCache = u.audioCache /\ y.spspps = u.spspps /\ y.adts = u.adts /\ y.opened
    BY <1>9, <2>2 DEF Writes, SameStreamer
  <2>8. Unwritten(y)
    BY <1>5, <1>6, <2>3, <2>4, <2>6, <2>7 DEF Unwritten
  <2>9. Kept(u) \subseteq Kept(y) /\ i \in Kept(y)
    BY <2>3, <2>6, <2>7 DEF Kept
  <2>10. QED
    BY <1>4, <1>7, <2>6, <2>7, <2>8, <2>9 DEF Feeds, Sound, Carries
<1>10. QED
  BY <1>8, <1>9

\* FeedRTMPMessage, of message n + 1.
Usably(x, msg) == IF msg.kind = "audio" THEN x.adts ELSE msg.key => x.spspps

Message == [kind : {"audio", "video"}, key : BOOLEAN, ts : Nat]

LEMMA VideoFeeds ==
  ASSUME NEW n \in Nat, NEW bad \in BOOLEAN, NEW disk \in BOOLEAN, disk \/ bad,
         NEW x, Sound(x, n, bad), NEW ts \in Nat, NEW key \in BOOLEAN
  PROVE  /\ Feeds(x, feedVideo(x, n + 1, key, ts, disk), n + 1, bad, disk)
         /\ (key => x.spspps)
              => Feeding(x, feedVideo(x, n + 1, key, ts, disk), n + 1, bad, disk)
<1> DEFINE i == n + 1
           y == feedVideo(x, i, key, ts, disk)
<1>1. CASE key /\ ~x.spspps
  <2>1. y = x
    BY <1>1 DEF feedVideo
  <2>2. Sound(x, i, bad)
    BY TypedMore DEF Sound
  <2>3. Feeds(x, x, i, bad, disk)
    BY <2>2 DEF Feeds
  <2>4. QED
    BY <1>1, <2>1, <2>3
<1>2. CASE ~(key /\ ~x.spspps)
  <2> DEFINE o == flushOld(x, ts, maxAudioCacheDelayByVideo, disk)
             z == onVideo(o, videoFrame(i, key, ts), disk)
  <2>1. y = z
    BY <1>2 DEF feedVideo, onVideo, OnFrame, videoFrame
  <2>2. Feeds(x, o, n, bad, disk) /\ OnTime(o, ts)
    BY FlushOldSound, RingSizeFacts
  <2> HIDE DEF o, y
  <2>3. Sound(o, n, bad)
    BY <2>2 DEF Feeds
  <2>4. Feeding(o, z, i, bad, disk)
    BY <2>2, <2>3, OnVideoSound
  <2> HIDE DEF z, i
  <2>5. Feeding(x, z, i, bad, disk)
    BY <2>2, <2>4, FeedsOn DEF Feeding
  <2>6. QED
    BY <2>1, <2>5 DEF Feeding, y, i
<1>3. QED
  BY <1>1, <1>2

LEMMA RangeOfAppend ==
  ASSUME NEW S, NEW q \in Seq(S), NEW e \in S
  PROVE  /\ Append(q, e) \in Seq(S) /\ Range(Append(q, e)) = Range(q) \cup {e}
         /\ IsInjective(q) /\ e \notin Range(q) => IsInjective(Append(q, e))
<1>1. /\ Len(q) \in Nat /\ DOMAIN q = 1..Len(q) /\ DOMAIN Append(q, e) = 1..(Len(q) + 1)
      /\ \A i \in 1..Len(q) : Append(q, e)[i] = q[i]
      /\ Append(q, e)[Len(q) + 1] = e /\ Append(q, e) \in Seq(S)
  OBVIOUS
<1> DEFINE r == Append(q, e)
<1> HIDE DEF r
<1>2. /\ DOMAIN r = 1..(Len(q) + 1) /\ r[Len(q) + 1] = e
      /\ \A i \in 1..Len(q) : r[i] = q[i]
  BY <1>1 DEF r
<1>3. \A i \in DOMAIN r : i \in DOMAIN q \/ i = Len(q) + 1
  BY <1>1, <1>2
<1>4. DOMAIN q \subseteq DOMAIN r /\ Len(q) + 1 \in DOMAIN r /\ Len(q) + 1 \notin DOMAIN q
  BY <1>1, <1>2
<1>5. Range(r) = Range(q) \cup {e}
  BY <1>1, <1>2, <1>3, <1>4 DEF Range
<1>6. IsInjective(q) /\ e \notin Range(q) => IsInjective(r)
  BY <1>1, <1>2, <1>3, <1>4 DEF Range, IsInjective
<1>7. QED
  BY <1>1, <1>5, <1>6 DEF r

\* What feedAudio keeps: message i, in no file yet.
CachesNext(o, z, i, bad) ==
  /\ Sound(z, i, bad)
  /\ z.opened = o.opened /\ z.fragTS = o.fragTS /\ z.segments = o.segments
  /\ z.spspps = o.spspps /\ z.adts = o.adts
  /\ z.audioCache = Append(o.audioCache, i)
  /\ Kept(o) \subseteq Kept(z) /\ i \in Kept(z)

LEMMA CachedSound ==
  ASSUME NEW n \in Nat, NEW i, i = n + 1, NEW bad \in BOOLEAN, NEW o, Sound(o, n, bad),
         NEW ts \in Nat, NEW z, z = cached(o, i, ts)
  PROVE  CachesNext(o, z, i, bad)
<1> DEFINE from == IF o.audioCache = <<>> THEN ts ELSE o.audioCacheTS
<1>1. /\ Typed(o, i) /\ Named(o, bad) /\ Strictly(o) /\ Unwritten(o) /\ DOMAIN o = Fields
      /\ Files(o) \subseteq 1..n /\ Range(o.audioCache) \subseteq 1..n
      /\ o.audioCacheTS \in Nat
  BY SoundTypes, TypedMore, FilesBelow
<1>2. from \in Nat
  BY <1>1
<1>3. z = [o EXCEPT !.audioCache = Append(@, i), !.audioCacheTS = from]
  BY <1>1 DEF cached, Fields
<1> HIDE DEF from
<1>4. /\ DOMAIN z = Fields /\ z.audioCache = Append(o.audioCache, i) /\ z.audioCacheTS = from
      /\ z.opened = o.opened /\ z.fragTS = o.fragTS /\ z.segments = o.segments
      /\ z.spspps = o.spspps /\ z.adts = o.adts
      /\ SameRing(o, z) /\ SameLists(o, z)
  BY <1>1, <1>3 DEF Fields, SameRing, SameLists
<1>5. i \in 1..i /\ i \notin 1..n /\ o.audioCache \in Seq(1..i)
  BY <1>1 DEF Typed
<1>6. /\ z.audioCache \in Seq(1..i) /\ Range(z.audioCache) = Range(o.audioCache) \cup {i}
      /\ IsInjective(z.audioCache)
  <2> DEFINE q == o.audioCache
  <2>1. q \in Seq(1..i) /\ IsInjective(q) /\ i \notin Range(q)
    BY <1>1, <1>5 DEF Unwritten
  <2> HIDE DEF q
  <2>2. /\ Append(q, i) \in Seq(1..i) /\ Range(Append(q, i)) = Range(q) \cup {i}
        /\ IsInjective(Append(q, i))
    BY <1>5, <2>1, RangeOfAppend
  <2>3. QED
    BY <1>4, <2>2 DEF q
<1>7. Typed(z, i)
  BY <1>1, <1>2, <1>4, <1>6 DEF Typed, SameRing, SameLists
<1>8. Named(z, bad)
  BY <1>1, <1>4, SameNames
<1>9. Files(z) = Files(o) /\ Strictly(z)
  BY <1>1, <1>4 DEF Files, Strictly
<1>10. Unwritten(z)
  BY <1>1, <1>5, <1>6, <1>9 DEF Unwritten
<1>11. Kept(o) \subseteq Kept(z) /\ i \in Kept(z)
  BY <1>6, <1>9 DEF Kept
<1>12. QED
  BY <1>4, <1>7, <1>8, <1>9, <1>10, <1>11 DEF CachesNext, Sound

LEMMA AudioFeeds ==
  ASSUME NEW n \in Nat, NEW bad \in BOOLEAN, NEW disk \in BOOLEAN, disk \/ bad,
         NEW x, Sound(x, n, bad), NEW ts \in Nat
  PROVE  /\ Feeds(x, feedAudio(x, n + 1, ts, disk), n + 1, bad, disk)
         /\ x.adts => Feeding(x, feedAudio(x, n + 1, ts, disk), n + 1, bad, disk)
<1> DEFINE i == n + 1
           y == feedAudio(x, i, ts, disk)
<1>1. CASE ~x.adts
  <2>1. y = x
    BY <1>1 DEF feedAudio
  <2>2. Sound(x, i, bad)
    BY TypedMore DEF Sound
  <2>3. Feeds(x, x, i, bad, disk)
    BY <2>2 DEF Feeds
  <2>4. QED
    BY <1>1, <2>1, <2>3
<1>2. CASE x.adts
  <2> DEFINE o == flushOld(x, ts, maxAudioCacheDelayByAudio, disk)
             z == cached(o, i, ts)
  <2>1. y = z
    BY <1>2 DEF feedAudio
  <2>2. Feeds(x, o, n, bad, disk)
    BY FlushOldSound, RingSizeFacts
  <2> HIDE DEF o, y
  <2>3. Sound(o, n, bad)
    BY <2>2 DEF Feeds
  <2>4. /\ Sound(z, i, bad) /\ z.opened = o.opened /\ z.segments = o.segments
        /\ z.spspps = o.spspps /\ z.adts = o.adts
        /\ Kept(o) \subseteq Kept(z) /\ i \in Kept(z)
    <3>1. CachesNext(o, z, i, bad)
      BY <2>3, CachedSound
    <3>2. QED
      BY <3>1 DEF CachesNext
  <2> HIDE DEF z, i
  <2>5. Feeds(o, z, i, bad, disk)
    BY <2>4 DEF Feeds
  <2>6. Feeding(x, z, i, bad, disk)
    BY <2>2, <2>4, <2>5, FeedsOn DEF Feeding
  <2>7. QED
    BY <2>1, <2>6 DEF Feeding, y, i
<1>3. QED
  BY <1>1, <1>2, SoundTypes DEF Typed

LEMMA MessageFeeds ==
  ASSUME NEW n \in Nat, NEW bad \in BOOLEAN, NEW disk \in BOOLEAN, disk \/ bad,
         NEW x, Sound(x, n, bad), NEW msg \in Message
  PROVE  /\ Feeds(x, FeedRTMPMessage(x, n + 1, msg, disk), n + 1, bad, disk)
         /\ Usably(x, msg)
              => Feeding(x, FeedRTMPMessage(x, n + 1, msg, disk), n + 1, bad, disk)
<1>1. msg.ts \in Nat /\ msg.key \in BOOLEAN
  BY DEF Message
<1>2. CASE msg.kind = "audio"
  <2>1. FeedRTMPMessage(x, n + 1, msg, disk) = feedAudio(x, n + 1, msg.ts, disk)
    BY <1>2 DEF FeedRTMPMessage
  <2>2. Usably(x, msg) = x.adts
    BY <1>2 DEF Usably
  <2>3. QED
    BY <1>1, <2>1, <2>2, AudioFeeds
<1>3. CASE msg.kind # "audio"
  <2>1. FeedRTMPMessage(x, n + 1, msg, disk) = feedVideo(x, n + 1, msg.key, msg.ts, disk)
    BY <1>3 DEF FeedRTMPMessage
  <2> DEFINE z == feedVideo(x, n + 1, msg.key, msg.ts, disk)
  <2>2. Usably(x, msg) => (msg.key => x.spspps)
    BY <1>3 DEF Usably
  <2>4. /\ Feeds(x, z, n + 1, bad, disk)
        /\ (msg.key => x.spspps) => Feeding(x, z, n + 1, bad, disk)
    BY <1>1, VideoFeeds
  <2> HIDE DEF z
  <2>5. FeedRTMPMessage(x, n + 1, msg, disk) = z
    BY <2>1 DEF z
  <2>3. QED
    BY <2>2, <2>4, <2>5
<1>4. QED
  BY <1>2, <1>3
----------------------------------------------------------------------------
(* The invariant: the state is Sound for what was fed and what failed, and  *)
(* once files are written one is open until the end.                        *)

HlsInv ==
  /\ fed \in Seq(Message) /\ now \in Nat /\ disposed \in BOOLEAN /\ diskFailed \in BOOLEAN
  /\ closeFailed \in BOOLEAN /\ (closeFailed => m.opened /\ diskFailed)
  /\ Sound(m, Len(fed), diskFailed)
  /\ m.segments # <<>> /\ ~diskFailed => m.opened \/ disposed

LEMMA HlsInit ==
  ASSUME Init
  PROVE  HlsInv
<1>1. fed = <<>> /\ now = 0 /\ disposed = FALSE /\ diskFailed = FALSE /\ Len(fed) = 0
      /\ closeFailed = FALSE
  BY DEF Init
<1>2. /\ DOMAIN m = Fields /\ m.frag = 0 /\ m.nfrags = 0 /\ m.opened = FALSE
      /\ m.frags = [i \in Slots |-> NoFragment] /\ m.fragTS = 0 /\ m.spspps = FALSE
      /\ m.adts = FALSE /\ m.audioCache = <<>> /\ m.audioCacheTS = 0 /\ m.segments = <<>>
      /\ m.playlist = [seq |-> 0, target |-> 0, entries |-> <<>>, ended |-> FALSE]
      /\ m.record = [target |-> 0, entries |-> <<>>]
  BY DEF Init, Fields
<1>3. m.playlist.seq = 0 /\ m.playlist.entries = <<>> /\ m.record.entries = <<>>
  BY <1>2
<1>4. Typed(m, 0)
  <2>1. NoFragment \in Fragment
    BY DEF NoFragment, Fragment
  <2>2. 0 \in 0..FragmentNum
    BY RingSizeFacts
  <2>3. <<>> \in Seq(1..0) /\ <<>> \in Seq(File(0)) /\ <<>> \in Seq(Fragment)
    OBVIOUS
  <2>4. m.frags \in [Slots -> Fragment]
    BY <1>2, <2>1
  <2>5. /\ m.audioCache \in Seq(1..0) /\ m.segments \in Seq(File(0))
        /\ m.playlist.entries \in Seq(Fragment) /\ m.record.entries \in Seq(Fragment)
    BY <1>2, <1>3, <2>3
  <2>6. /\ m.frag \in Nat /\ m.fragTS \in Nat /\ m.audioCacheTS \in Nat /\ m.playlist.seq \in Nat
    BY <1>2, <1>3
  <2>8. m.nfrags \in 0..FragmentNum
    BY <1>2, <2>2
  <2>9. m.opened \in BOOLEAN /\ m.spspps \in BOOLEAN /\ m.adts \in BOOLEAN
    BY <1>2
  <2>7. QED
    BY <1>2, <2>4, <2>5, <2>6, <2>8, <2>9 DEF Typed
<1>5. Begun(m) = 0 /\ Closed(m) = 0
  BY <1>2 DEF Begun, Closed
<1>6. RingHolds(m)
  BY <1>2, <1>5 DEF RingHolds
<1>7. Recorded(m)
  BY <1>2, <1>3, <1>5 DEF Recorded
<1>8. Listed(m, FALSE)
  BY <1>3, RingSizeFacts DEF Listed
<1>9. Named(m, FALSE)
  BY <1>2, <1>6, <1>7, <1>8 DEF Named
<1>10. Unwritten(m) /\ Strictly(m)
  BY <1>2 DEF Unwritten, Strictly, IsInjective, Range
<1>11. Sound(m, Len(fed), diskFailed)
  BY <1>1, <1>4, <1>9, <1>10 DEF Sound
<1>12. fed \in Seq(Message) /\ now \in Nat
  BY <1>1
<1>13. QED
  BY <1>1, <1>2, <1>11, <1>12 DEF HlsInv

\* A message is fed.
FedOnce ==
  \E msg \in Message, disk \in BOOLEAN :
    /\ ~disposed /\ disposed' = disposed /\ closeFailed' = FALSE
    /\ now' = msg.ts /\ fed' = Append(fed, msg)
    /\ diskFailed' = (diskFailed \/ ~disk)
    /\ m' = FeedRTMPMessage(m, Len(fed'), msg, disk)

LEMMA FeedIsFedOnce ==
  ASSUME NEW kind \in {"audio", "video"}, NEW key \in BOOLEAN, HlsInv, Feed(kind, key)
  PROVE  FedOnce
<1>1. PICK d \in Deltas, disk \in BOOLEAN :
         LET msg == [kind |-> kind, key |-> key, ts |-> now + d] IN
         /\ msg.ts >= 0 /\ now' = msg.ts
         /\ fed' = Append(fed, msg)
         /\ diskFailed' = (diskFailed \/ ~disk)
         /\ m' = FeedRTMPMessage(m, Len(fed'), msg, disk)
  BY DEF Feed
<1> DEFINE msg == [kind |-> kind, key |-> key, ts |-> now + d]
<1>2. d \in Int /\ now \in Nat
  BY MuxerConstants DEF HlsInv
<1>3. msg.ts = now + d
  OBVIOUS
<1>4. msg \in Message
  BY <1>1, <1>2, <1>3 DEF Message
<1>5. ~disposed /\ disposed' = disposed /\ closeFailed' = FALSE
  BY DEF Feed, HlsInv
<1> HIDE DEF msg
<1>6. QED
  BY <1>1, <1>4, <1>5 DEF FedOnce, msg

\* What a step of the muxer does to its state.
LEMMA FedOnceStep ==
  ASSUME HlsInv, FedOnce
  PROVE  /\ HlsInv'
         /\ m.segments # <<>> /\ ~diskFailed' =>
              /\ Kept(m) \subseteq Kept(m')
              /\ Usably(m, Last(fed')) => Len(fed') \in Kept(m')
<1> DEFINE n == Len(fed)
<1>1. PICK msg \in Message, disk \in BOOLEAN :
        /\ ~disposed /\ disposed' = disposed /\ closeFailed' = FALSE
        /\ now' = msg.ts /\ fed' = Append(fed, msg)
        /\ diskFailed' = (diskFailed \/ ~disk)
        /\ m' = FeedRTMPMessage(m, Len(fed'), msg, disk)
  BY DEF FedOnce
<1>2. fed \in Seq(Message) /\ n \in Nat /\ Len(fed') = n + 1 /\ fed' \in Seq(Message)
      /\ Last(fed') = msg
  BY <1>1 DEF HlsInv, Last
<1>3. now' \in Nat /\ disposed' \in BOOLEAN /\ diskFailed' \in BOOLEAN
      /\ (diskFailed => diskFailed') /\ (disk \/ diskFailed')
  BY <1>1 DEF HlsInv, Message
<1> HIDE DEF n
<1>4. Sound(m, n, diskFailed')
  <2>1. Sound(m, n, diskFailed) /\ diskFailed \in BOOLEAN
    BY DEF HlsInv, n
  <2>2. QED
    BY <2>1, <1>3, SoundWorse
<1> DEFINE y == FeedRTMPMessage(m, n + 1, msg, disk)
           bad == diskFailed'
<1>5. m' = y
  BY <1>1, <1>2
<1>6. Feeds(m, y, n + 1, bad, disk) /\ (Usably(m, msg) => Feeding(m, y, n + 1, bad, disk))
  BY <1>2, <1>3, <1>4, MessageFeeds
<1> HIDE DEF y, bad
<1>7. Sound(y, n + 1, bad)
  BY <1>6 DEF Feeds
<1>8. ASSUME m.segments # <<>>, ~bad PROVE m.opened /\ disk
  <2>1. ~diskFailed /\ disk
    BY <1>3, <1>8 DEF bad
  <2>2. QED
    BY <2>1, <1>1, <1>8 DEF HlsInv
<1>9. y.segments # <<>> /\ ~bad => y.opened
  <2>1. SUFFICES ASSUME y.segments # <<>>, ~bad PROVE y.opened
    OBVIOUS
  <2>2. disk
    BY <1>3, <2>1 DEF bad
  <2>3. QED
    BY <2>1, <2>2, <1>6, <1>8 DEF Feeds
<1>a. closeFailed' \in BOOLEAN /\ ~closeFailed'
  BY <1>1
<1>10. HlsInv'
  BY <1>2, <1>3, <1>5, <1>7, <1>9, <1>a DEF HlsInv, bad
<1>11. ASSUME m.segments # <<>>, ~bad
       PROVE  /\ Kept(m) \subseteq Kept(y)
              /\ Usably(m, msg) => n + 1 \in Kept(y)
  BY <1>6, <1>8, <1>11 DEF Feeds, Feeding
<1>12. QED
  BY <1>2, <1>5, <1>10, <1>11 DEF bad

LEMMA DisposeStep ==
  ASSUME HlsInv, Dispose
  PROVE  /\ HlsInv' /\ fed' = fed
         /\ m.segments # <<>> /\ ~diskFailed' => Kept(m) \subseteq Kept(m')
<1> DEFINE n == Len(fed)
           bad == diskFailed'
<1>1. PICK disk \in BOOLEAN :
        /\ m' = closeFragment(FlushAudio(m, disk), TRUE, disk)
        /\ diskFailed' = (diskFailed \/ ~disk)
  BY DEF Dispose
<1>2. ~disposed /\ disposed' = TRUE /\ now' = now /\ fed' = fed /\ closeFailed' = FALSE
  BY DEF Dispose, HlsInv
<1>a. diskFailed \in BOOLEAN /\ fed \in Seq(Message)
  BY DEF HlsInv
<1>b. diskFailed' = (diskFailed \/ ~disk) /\ Len(fed) \in Nat
  BY <1>1, <1>a
<1>3. diskFailed' \in BOOLEAN /\ (diskFailed => diskFailed') /\ (disk \/ diskFailed')
      /\ n \in Nat
  BY <1>a, <1>b
<1>4. Sound(m, n, diskFailed')
  <2>1. Sound(m, n, diskFailed) /\ diskFailed \in BOOLEAN
    BY DEF HlsInv
  <2> HIDE DEF n
  <2>2. QED
    BY <2>1, <1>3, SoundWorse
<1> DEFINE o == FlushAudio(m, disk)
           y == closeFragment(o, TRUE, disk)
<1> HIDE DEF n, bad
<1>5. Feeds(m, o, n, bad, disk)
  BY <1>3, <1>4, FlushFeeds DEF bad
<1> HIDE DEF o
<1>6. Sound(o, n, bad)
  BY <1>5 DEF Feeds
<1>7. Sound(y, n, bad) /\ Kept(o) \subseteq Kept(y)
  <2>1. CASE ~o.opened
    <3>1. y = o
      BY <2>1 DEF closeFragment
    <3>2. QED
      BY <3>1, <1>6
  <2>2. CASE o.opened
    <3>1. DOMAIN o = Fields
      BY <1>6, SoundTypes
    <3>2. Closes(o, disk, y)
      BY <2>2, <3>1, CloseFields
    <3> HIDE DEF y
    <3>3. Sound(y, n, bad) /\ Carries(o, y, TRUE)
      BY <1>3, <1>6, <2>2, <3>2, CloseSound DEF bad
    <3>4. QED
      BY <3>3, CarriesKept
  <2>3. QED
    BY <2>1, <2>2
<1>8. m' = y
  BY <1>1 DEF o
<1> HIDE DEF y
<1>9. HlsInv'
  BY <1>2, <1>3, <1>7, <1>8 DEF HlsInv, n, bad
<1>10. ASSUME m.segments # <<>>, ~bad PROVE Kept(m) \subseteq Kept(y)
  <2>1. ~diskFailed /\ disk
    BY <1>3, <1>10 DEF bad
  <2>2. m.opened
    BY <2>1, <1>2, <1>10 DEF HlsInv
  <2>3. Kept(m) \subseteq Kept(o)
    BY <2>1, <2>2, <1>5 DEF Feeds
  <2>4. QED
    BY <2>3, <1>7
<1>11. QED
  BY <1>2, <1>8, <1>9, <1>10 DEF bad

LEMMA FeedHeaderStep ==
  ASSUME HlsInv, FeedHeader
  PROVE  HlsInv' /\ fed' = fed /\ Kept(m') = Kept(m)
<1> DEFINE n == Len(fed)
<1>1. Sound(m, n, diskFailed)
  BY DEF HlsInv
<1>2. /\ Typed(m, n) /\ Named(m, diskFailed) /\ Strictly(m) /\ Unwritten(m) /\ DOMAIN m = Fields
      /\ diskFailed \in BOOLEAN
  BY <1>1, SoundTypes DEF HlsInv
<1>3. /\ DOMAIN m' = Fields
      /\ m'.opened = m.opened /\ m'.fragTS = m.fragTS /\ m'.segments = m.segments
      /\ m'.audioCache = m.audioCache /\ m'.audioCacheTS = m.audioCacheTS
      /\ m'.spspps \in BOOLEAN /\ m'.adts \in BOOLEAN
      /\ SameRing(m, m') /\ SameLists(m, m')
  <2>1. m.spspps \in BOOLEAN /\ m.adts \in BOOLEAN
    BY <1>2 DEF Typed
  <2>2. CASE m' = [m EXCEPT !.spspps = TRUE]
    BY <2>1, <2>2, <1>2 DEF Fields, SameRing, SameLists
  <2>3. CASE m' = [m EXCEPT !.adts = TRUE]
    BY <2>1, <2>3, <1>2 DEF Fields, SameRing, SameLists
  <2>4. QED
    BY <2>2, <2>3 DEF FeedHeader
<1>4. /\ fed' = fed /\ now' = now /\ disposed' = disposed /\ diskFailed' = diskFailed
      /\ closeFailed' = closeFailed
  BY DEF FeedHeader
<1>5. Typed(m', n)
  BY <1>2, <1>3 DEF Typed, SameRing, SameLists
<1>6. Named(m', diskFailed)
  BY <1>2, <1>3, SameNames
<1>7. Files(m') = Files(m) /\ Strictly(m') /\ Unwritten(m')
  BY <1>2, <1>3 DEF Files, Strictly, Unwritten
<1>8. Sound(m', n, diskFailed)
  BY <1>5, <1>6, <1>7 DEF Sound
<1>9. HlsInv'
  BY <1>3, <1>4, <1>8 DEF HlsInv
<1>10. Kept(m') = Kept(m)
  BY <1>3, <1>7 DEF Kept
<1>11. QED
  BY <1>4, <1>9, <1>10
----------------------------------------------------------------------------
(* A fragment that cannot be closed.  The files stay as they are, and what  *)
(* the streamer kept may be gone.                                           *)

SameFragment(x, y) ==
  /\ y.opened = x.opened /\ y.fragTS = x.fragTS /\ y.segments = x.segments
  /\ y.spspps = x.spspps /\ y.adts = x.adts

Spares(x, y) == SameFragment(x, y) /\ y.audioCache \in {<<>>, x.audioCache}

\* The message, i, may be kept if it is audio.
Drops(x, y, i, msg) ==
  /\ SameFragment(x, y)
  /\ \/ y.audioCache \in {<<>>, x.audioCache}
     \/ /\ x.adts /\ msg.kind = "audio"
        /\ \E s \in {<<>>, x.audioCache} : y.audioCache = Append(s, i)

LEMMA DropFrameSound ==
  ASSUME NEW n \in Nat, NEW bad \in BOOLEAN, NEW x, Sound(x, n, bad), x.opened, NEW ts \in Nat
  PROVE  Sound(dropFrame(x, ts), n, bad) /\ Spares(x, dropFrame(x, ts))
<1>1. Sound(Longer(x, ts), n, bad) /\ Grows(x, Longer(x, ts), ts)
  BY LongerSound
<1>2. Longer(x, ts).opened = x.opened
  BY <1>1, SoundTypes DEF Grows
<1>3. Spares(x, Longer(x, ts)) /\ Spares(x, x)
  BY <1>1, <1>2 DEF Spares, SameFragment, Grows, Carries
<1>4. dropFrame(x, ts) = Longer(x, ts) \/ dropFrame(x, ts) = x
  BY DEF dropFrame, Longer, lengthen
<1>5. QED
  BY <1>1, <1>3, <1>4

LEMMA DropAudioSound ==
  ASSUME NEW n \in Nat, NEW bad \in BOOLEAN, NEW x, Sound(x, n, bad), x.opened
  PROVE  Sound(dropAudio(x), n, bad) /\ Spares(x, dropAudio(x))
<1>1. CASE x.audioCache = <<>>
  BY <1>1 DEF dropAudio, Spares, SameFragment
<1>2. CASE x.audioCache # <<>>
  <2> DEFINE o == dropFrame(x, x.audioCacheTS)
             y == emptied(o)
  <2>1. dropAudio(x) = y
    BY <1>2 DEF dropAudio, emptied
  <2>2. Sound(o, n, bad) /\ Spares(x, o)
    BY SoundTypes, DropFrameSound
  <2> HIDE DEF o
  <2>3. /\ Typed(o, n) /\ Named(o, bad) /\ Strictly(o) /\ DOMAIN o = Fields
    BY <2>2, SoundTypes
  <2>4. Empties(o, y)
    BY <2>3, EmptiedFields
  <2> HIDE DEF y
  <2>5. Sound(y, n, bad)
    BY <2>3, <2>4, EmptiedSound
  <2>6. Spares(x, y)
    BY <2>2, <2>4 DEF Spares, SameFragment, Empties
  <2>7. QED
    BY <2>1, <2>5, <2>6
<1>3. QED
  BY <1>1, <1>2

LEMMA DropOldSound ==
  ASSUME NEW n \in Nat, NEW bad \in BOOLEAN, NEW x, Sound(x, n, bad), x.opened,
         NEW ts, NEW delay
  PROVE  Sound(dropOld(x, ts, delay), n, bad) /\ Spares(x, dropOld(x, ts, delay))
<1>1. Spares(x, x)
  BY DEF Spares, SameFragment
<1>2. Sound(dropAudio(x), n, bad) /\ Spares(x, dropAudio(x))
  BY DropAudioSound
<1>3. QED
  BY <1>1, <1>2 DEF dropOld

LEMMA SparesDrops ==
  ASSUME NEW x, NEW o, NEW y, Spares(x, o), Spares(o, y), NEW i, NEW msg
  PROVE  Drops(x, y, i, msg)
BY DEF Spares, SameFragment, Drops

LEMMA CachedDrops ==
  ASSUME NEW n \in Nat, NEW bad \in BOOLEAN, NEW o, Sound(o, n, bad), NEW ts \in Nat
  PROVE  /\ Sound(cached(o, n + 1, ts), n + 1, bad) /\ SameFragment(o, cached(o, n + 1, ts))
         /\ cached(o, n + 1, ts).audioCache = Append(o.audioCache, n + 1)
<1> DEFINE i == n + 1
           z == cached(o, i, ts)
<1>1. i = n + 1 /\ z = cached(o, i, ts)
  OBVIOUS
<1> HIDE DEF i, z
<1>2. CachesNext(o, z, i, bad)
  BY <1>1, CachedSound
<1>3. QED
  BY <1>2 DEF CachesNext, SameFragment, i, z

LEMMA DropMessageSound ==
  ASSUME NEW n \in Nat, NEW bad \in BOOLEAN, NEW x, Sound(x, n, bad), x.opened,
         NEW msg \in Message
  PROVE  /\ Sound(dropMessage(x, n + 1, msg), n + 1, bad)
         /\ Drops(x, dropMessage(x, n + 1, msg), n + 1, msg)
<1> DEFINE i == n + 1
           y == dropMessage(x, i, msg)
<1>1. msg.ts \in Nat
  BY DEF Message
<1>2. CASE y = x
  <2>1. Sound(x, i, bad)
    BY TypedMore DEF Sound
  <2>2. Drops(x, x, i, msg)
    BY DEF Drops, SameFragment
  <2>3. QED
    BY <1>2, <2>1, <2>2
<1>3. CASE msg.kind = "audio" /\ x.adts
  <2> DEFINE ts == msg.ts
             o == dropOld(x, ts, maxAudioCacheDelayByAudio)
             z == cached(o, i, ts)
  <2>1. y = z
    BY <1>3 DEF dropMessage
  <2>2. Sound(o, n, bad) /\ Spares(x, o)
    BY DropOldSound
  <2> HIDE DEF o, y
  <2>3. /\ Sound(z, i, bad) /\ SameFragment(o, z)
        /\ z.audioCache = Append(o.audioCache, i)
    BY <1>1, <2>2, CachedDrops
  <2> HIDE DEF z, i
  <2>4. Drops(x, z, i, msg)
    BY <1>3, <2>2, <2>3 DEF Drops, Spares, SameFragment
  <2>5. QED
    BY <2>1, <2>3, <2>4 DEF y, i
<1>4. CASE msg.kind # "audio" /\ ~(msg.key /\ ~x.spspps)
  <2> DEFINE o == dropOld(x, msg.ts, maxAudioCacheDelayByVideo)
             z == dropFrame(o, msg.ts)
  <2>1. y = z
    BY <1>4 DEF dropMessage
  <2>2. Sound(o, n, bad) /\ Spares(x, o)
    BY DropOldSound
  <2> HIDE DEF o, y
  <2>3. o.opened
    BY <2>2 DEF Spares, SameFragment
  <2>4. Sound(z, n, bad) /\ Spares(o, z)
    BY <1>1, <2>2, <2>3, DropFrameSound
  <2> HIDE DEF z
  <2>5. Sound(z, i, bad)
    BY <2>4, TypedMore DEF Sound
  <2>6. Drops(x, z, i, msg)
    BY <2>2, <2>4, SparesDrops
  <2>7. QED
    BY <2>1, <2>5, <2>6 DEF y
<1>5. CASE (msg.kind = "audio" /\ ~x.adts) \/ (msg.kind # "audio" /\ msg.key /\ ~x.spspps)
  <2>1. y = x
    BY <1>5 DEF dropMessage
  <2>2. QED
    BY <1>2, <2>1
<1>6. QED
  BY <1>3, <1>4, <1>5

\* A message is lost.
FedLost ==
  \E msg \in Message, disk \in BOOLEAN :
  \E o \in {m, flushOld(m, msg.ts, maxAudioCacheDelayByVideo, disk)} :
    /\ fed' = Append(fed, msg) /\ now' = msg.ts /\ disposed' = disposed
    /\ diskFailed' = TRUE /\ closeFailed' = TRUE
    /\ o.opened /\ Sound(o, Len(fed), TRUE) /\ o.adts = m.adts
    /\ Sound(m', Len(fed) + 1, TRUE) /\ Drops(o, m', Len(fed) + 1, msg)

LEMMA FeedLostIsFedLost ==
  ASSUME NEW kind \in {"audio", "video"}, NEW key \in BOOLEAN, HlsInv, FeedLost(kind, key)
  PROVE  FedLost
<1> DEFINE n == Len(fed)
<1>1. PICK d \in Deltas :
         LET msg == [kind |-> kind, key |-> key, ts |-> now + d] IN
         /\ msg.ts >= 0 /\ now' = msg.ts
         /\ fed' = Append(fed, msg)
         /\ Loses(Len(fed'), msg)
  BY DEF FeedLost
<1> DEFINE msg == [kind |-> kind, key |-> key, ts |-> now + d]
<1>2. d \in Int /\ now \in Nat /\ fed \in Seq(Message) /\ n \in Nat
  BY MuxerConstants DEF HlsInv
<1>3. msg.ts = now + d
  OBVIOUS
<1>4. msg \in Message /\ msg.ts \in Nat
  BY <1>1, <1>2, <1>3 DEF Message
<1>5. disposed' = disposed /\ diskFailed' = TRUE /\ closeFailed' = TRUE
  BY DEF FeedLost
<1> HIDE DEF msg
<1>6. fed' = Append(fed, msg) /\ now' = msg.ts /\ Loses(n + 1, msg)
  <2>1. Len(Append(fed, msg)) = n + 1
    BY <1>2, <1>4
  <2>2. QED
    BY <1>1, <2>1 DEF msg
<1>7. Sound(m, n, TRUE)
  <2>1. Sound(m, n, diskFailed) /\ diskFailed \in BOOLEAN
    BY DEF HlsInv
  <2>2. QED
    BY <2>1, SoundWorse
<1> HIDE DEF n
<1>8. CASE m.opened /\ m' = dropMessage(m, n + 1, msg)
  <2>1. Sound(m', n + 1, TRUE) /\ Drops(m, m', n + 1, msg)
    BY <1>2, <1>4, <1>7, <1>8, DropMessageSound
  <2>2. QED
    BY <1>4, <1>5, <1>6, <1>7, <1>8, <2>1 DEF FedLost, n
<1>9. ASSUME NEW disk \in BOOLEAN,
             LET o == flushOld(m, msg.ts, maxAudioCacheDelayByVideo, disk) IN
             splits(o, msg) /\ m' = dropFrame(o, msg.ts)
      PROVE  FedLost
  <2> DEFINE o == flushOld(m, msg.ts, maxAudioCacheDelayByVideo, disk)
  <2>1. o.opened /\ m' = dropFrame(o, msg.ts)
    BY <1>9 DEF splits
  <2>2. Feeds(m, o, n, TRUE, disk)
    BY <1>2, <1>4, <1>7, FlushOldSound, RingSizeFacts
  <2> HIDE DEF o
  <2>3. Sound(o, n, TRUE) /\ o.adts = m.adts
    BY <2>2 DEF Feeds
  <2>4. Sound(m', n, TRUE) /\ Spares(o, m')
    BY <1>2, <1>4, <2>1, <2>3, DropFrameSound
  <2>5. Sound(m', n + 1, TRUE)
    BY <1>2, <2>4, TypedMore DEF Sound
  <2>6. Drops(o, m', n + 1, msg)
    BY <2>4 DEF Spares, Drops
  <2>7. QED
    BY <1>4, <1>5, <1>6, <2>1, <2>3, <2>5, <2>6 DEF FedLost, n, o
<1>10. m.opened \/ ~(closeFailed \/ splits(m, keptAudio(m)))
  BY DEF HlsInv, splits
<1>11. QED
  BY <1>6, <1>8, <1>9, <1>10 DEF Loses

LEMMA FedLostStep ==
  ASSUME HlsInv, FedLost
  PROVE  HlsInv' /\ diskFailed' = TRUE
<1>1. PICK msg \in Message, disk \in BOOLEAN :
      \E o \in {m, flushOld(m, msg.ts, maxAudioCacheDelayByVideo, disk)} :
        /\ fed' = Append(fed, msg) /\ now' = msg.ts /\ disposed' = disposed
        /\ diskFailed' = TRUE /\ closeFailed' = TRUE
        /\ o.opened
        /\ Sound(m', Len(fed) + 1, TRUE) /\ Drops(o, m', Len(fed) + 1, msg)
  BY DEF FedLost
<1>2. fed \in Seq(Message) /\ disposed \in BOOLEAN
  BY DEF HlsInv
<1>3. fed' \in Seq(Message) /\ Len(fed') = Len(fed) + 1
  BY <1>1, <1>2
<1>4. now' \in Nat
  BY <1>1 DEF Message
<1>5. m'.opened
  BY <1>1 DEF Drops, SameFragment
<1>6. QED
  BY <1>1, <1>2, <1>3, <1>4, <1>5 DEF HlsInv

\* The muxer is disposed and its last fragment cannot be closed.
EndLost ==
  \E disk \in BOOLEAN : \E o \in {m, FlushAudio(m, disk)} :
    /\ fed' = fed /\ now' = now /\ disposed' = TRUE
    /\ diskFailed' = TRUE /\ closeFailed' = TRUE
    /\ o.adts = m.adts
    /\ m'.opened /\ Sound(m', Len(fed), TRUE) /\ Spares(o, m')

LEMMA DisposeLostIsEndLost ==
  ASSUME HlsInv, DisposeLost
  PROVE  EndLost
<1> DEFINE n == Len(fed)
<1>1. fed' = fed /\ now' = now /\ disposed' = TRUE /\ diskFailed' = TRUE /\ closeFailed' = TRUE
  BY DEF DisposeLost
<1>2. fed \in Seq(Message) /\ n \in Nat
  BY DEF HlsInv
<1>3. Sound(m, n, TRUE)
  <2>1. Sound(m, n, diskFailed) /\ diskFailed \in BOOLEAN
    BY DEF HlsInv
  <2>2. QED
    BY <2>1, SoundWorse
<1> HIDE DEF n
<1>4. CASE m.opened /\ m' = dropAudio(m)
  <2>1. Sound(m', n, TRUE) /\ Spares(m, m')
    BY <1>2, <1>3, <1>4, DropAudioSound
  <2>2. m'.opened
    BY <1>4, <2>1 DEF Spares, SameFragment
  <2>3. QED
    BY <1>1, <2>1, <2>2 DEF EndLost, n
<1>5. ASSUME NEW disk \in BOOLEAN, m' = FlushAudio(m, disk), m'.opened
      PROVE  EndLost
  <2>1. Feeds(m, m', n, TRUE, disk)
    BY <1>2, <1>3, <1>5, FlushFeeds
  <2>2. Sound(m', n, TRUE) /\ m'.adts = m.adts
    BY <2>1 DEF Feeds
  <2>3. Spares(m', m')
    BY DEF Spares, SameFragment
  <2>4. QED
    BY <1>1, <1>5, <2>2, <2>3 DEF EndLost, n
<1>6. m.opened \/ ~(closeFailed \/ splits(m, keptAudio(m)))
  BY DEF HlsInv, splits
<1>7. QED
  BY <1>4, <1>5, <1>6 DEF DisposeLost

LEMMA EndLostStep ==
  ASSUME HlsInv, EndLost
  PROVE  HlsInv' /\ diskFailed' = TRUE
BY DEF HlsInv, EndLost
----------------------------------------------------------------------------
(* The theorems.                                                           *)

LEMMA HlsStep ==
  ASSUME HlsInv, [Next]_vars
  PROVE  HlsInv'
<1>1. CASE UNCHANGED vars
  BY <1>1 DEF vars, HlsInv
<1>2. ASSUME NEW key \in BOOLEAN, FeedVideo(key) PROVE HlsInv'
  BY <1>2, FeedIsFedOnce, FedOnceStep DEF FeedVideo
<1>3. CASE FeedAudio
  BY <1>3, FeedIsFedOnce, FedOnceStep DEF FeedAudio
<1>4. CASE FeedHeader
  BY <1>4, FeedHeaderStep
<1>5. CASE Dispose
  BY <1>5, DisposeStep
<1>6. ASSUME NEW key \in BOOLEAN, FeedVideoLost(key) PROVE HlsInv'
  BY <1>6, FeedLostIsFedLost, FedLostStep DEF FeedVideoLost
<1>7. CASE FeedAudioLost
  BY <1>7, FeedLostIsFedLost, FedLostStep DEF FeedAudioLost
<1>8. CASE DisposeLost
  BY <1>8, DisposeLostIsEndLost, EndLostStep
<1>9. QED
  BY <1>1, <1>2, <1>3, <1>4, <1>5, <1>6, <1>7, <1>8 DEF Next

LEMMA HlsAlways == Spec => []HlsInv
<1>1. Init => HlsInv
  BY HlsInit
<1>2. HlsInv /\ [Next]_vars => HlsInv'
  BY HlsStep
<1>3. QED
  BY <1>1, <1>2, PTL DEF Spec

\* The state of muxer and streamer has its types, and what the streamer keeps are
\* messages that were fed.
THEOREM HlsTypeCorrect == Spec => []TypeOK
<1>1. HlsInv => TypeOK
  <2>1. SUFFICES ASSUME HlsInv PROVE TypeOK
    OBVIOUS
  <2>2. Typed(m, Len(fed)) /\ now \in Nat /\ {disposed, closeFailed} \subseteq BOOLEAN
    BY <2>1 DEF HlsInv, Sound
  <2>3. Len(fed) \in Nat /\ DOMAIN fed = 1..Len(fed)
    BY <2>1 DEF HlsInv
  <2>4. Range(m.audioCache) \subseteq DOMAIN fed
    BY <2>2, <2>3, FilesBelow
  <2>5. QED
    BY <2>2, <2>4 DEF Typed, TypeOK
<1>2. QED
  BY <1>1, HlsAlways, PTL

\* The live playlist of muxer.go's writePlaylist lists at most FragmentNum fragments
\* without a gap, and they are the end of the record playlist, which lists every
\* closed file once: the ring of 2 * FragmentNum + 1 slots never shows a fragment
\* that a later one has overwritten, for every configuration and disk failures.
THEOREM PlaylistsAlwaysTrue == Spec => []PlaylistsTrue
<1>1. HlsInv => PlaylistsTrue
  <2>1. SUFFICES ASSUME HlsInv PROVE PlaylistsTrue
    OBVIOUS
  <2>2. Typed(m, Len(fed)) /\ Named(m, diskFailed)
    BY <2>1 DEF HlsInv, Sound
  <2>3. PlaylistWindow
    BY <2>2 DEF Named, Listed, PlaylistWindow
  <2>4. RecordComplete
    <3>1. SUFFICES ASSUME ~diskFailed PROVE
            LET closed == IF m.opened THEN Front(m.segments) ELSE m.segments
            IN [i \in DOMAIN m.record.entries |-> m.record.entries[i].id]
                 = [i \in DOMAIN closed |-> closed[i].id]
      BY DEF RecordComplete
    <3> DEFINE s == m.segments
               r == m.record.entries
               closed == IF m.opened THEN Front(s) ELSE s
    <3>2. /\ Len(s) = Begun(m) /\ Len(r) = Closed(m)
          /\ \A i \in 1..Len(s) : s[i].id = i - 1
          /\ \A i \in 1..Len(r) : r[i].id = i - 1
      BY <2>2, <3>1 DEF Named, Recorded
    <3>3. s \in Seq(File(Len(fed))) /\ r \in Seq(Fragment)
      BY <2>2 DEF Typed
    <3>4. /\ Closed(m) \in Nat
          /\ m.opened => Begun(m) = Closed(m) + 1
          /\ ~m.opened => Begun(m) = Closed(m)
      BY <2>2, IndexFacts
    <3> HIDE DEF s, r
    <3>5. DOMAIN r = 1..Closed(m)
      BY <3>2, <3>3
    <3>6. DOMAIN closed = 1..Closed(m) /\ \A i \in 1..Closed(m) : closed[i] = s[i]
      <4>1. CASE m.opened
        <5>1. Len(s) - 1 = Closed(m)
          BY <3>2, <3>4, <4>1
        <5>2. closed = SubSeq(s, 1, Len(s) - 1)
          BY <4>1 DEF Front
        <5> HIDE DEF closed
        <5>3. QED
          BY <3>3, <3>4, <5>1, <5>2
      <4>2. CASE ~m.opened
        BY <3>2, <3>3, <3>4, <4>2
      <4>3. QED
        BY <4>1, <4>2
    <3> HIDE DEF closed
    <3>7. \A i \in 1..Closed(m) : closed[i].id = i - 1 /\ r[i].id = i - 1
      BY <3>2, <3>4, <3>6
    <3>8. [i \in DOMAIN r |-> r[i].id] = [i \in DOMAIN closed |-> closed[i].id]
      BY <3>5, <3>6, <3>7
    <3>9. QED
      BY <3>8 DEF r, s, closed
  <2>5. QED
    BY <2>3, <2>4 DEF PlaylistsTrue
<1>2. QED
  BY <1>1, HlsAlways, PTL

\* Once a file has been begun and as long as files can be created, a message that the
\* muxer accepts is written or kept, and what is written or kept stays so: also over a
\* forced split, a flush inside a flush and the end of the stream.
THEOREM NoMessageLost == Spec => NothingLost
<1> DEFINE Lossless == m.segments # <<>> /\ ~diskFailed' =>
              /\ Written \subseteq Written'
              /\ fed' # fed /\ Usable(Last(fed')) => Len(fed') \in Written'
<1>1. Written = Kept(m)
  BY DEF Written, Kept, Files
<1>2. Written' = Kept(m')
  BY DEF Written, Kept, Files
<1>3. \A msg : Usable(msg) = Usably(m, msg)
  BY DEF Usable, Usably
<1>4. HlsInv /\ [Next]_vars => Lossless \/ UNCHANGED vars
  <2>1. SUFFICES ASSUME HlsInv, Next PROVE Lossless
    OBVIOUS
  <2>2. ASSUME FedOnce PROVE Lossless
    BY <1>1, <1>2, <1>3, <2>1, <2>2, FedOnceStep
  <2>3. ASSUME NEW key \in BOOLEAN, FeedVideo(key) PROVE Lossless
    BY <2>1, <2>2, <2>3, FeedIsFedOnce DEF FeedVideo
  <2>4. CASE FeedAudio
    BY <2>1, <2>2, <2>4, FeedIsFedOnce DEF FeedAudio
  <2>5. CASE FeedHeader
    BY <1>1, <1>2, <2>1, <2>5, FeedHeaderStep
  <2>6. CASE Dispose
    BY <1>1, <1>2, <2>1, <2>6, DisposeStep
  <2>7. ASSUME NEW key \in BOOLEAN, FeedVideoLost(key) PROVE Lossless
    BY <2>1, <2>7, FeedLostIsFedLost, FedLostStep DEF FeedVideoLost
  <2>8. CASE FeedAudioLost
    BY <2>1, <2>8, FeedLostIsFedLost, FedLostStep DEF FeedAudioLost
  <2>9. CASE DisposeLost
    BY <2>1, <2>9, DisposeLostIsEndLost, EndLostStep
  <2>10. QED
    BY <2>1, <2>3, <2>4, <2>5, <2>6, <2>7, <2>8, <2>9 DEF Next
<1>5. HlsInv /\ [Next]_vars => [Lossless]_vars
  BY <1>4
<1>6. QED
  BY <1>5, HlsAlways, PTL DEF Spec, NothingLost
----------------------------------------------------------------------------
(* Without audio: jumps of the timestamps.                                 *)

\* A forced split would not tell the time ts from T.
Near(T, ts) == ts - T <= FragmentDuration * ForceFactor /\ T - ts <= negMaxfraglen

InWindow(msgs, q, T) == \A k \in Range(msgs) : Near(T, q[k].ts)

\* The messages of a file are near one time, those of the open one near its beginning.
Timely(x, q) ==
  /\ \A i \in DOMAIN x.segments : \E T \in Int : InWindow(x.segments[i].msgs, q, T)
  /\ x.opened => InWindow(LastFile(x).msgs, q, x.fragTS)

\* Files are only added, and those added are empty.
Extends(x, y) ==
  /\ y.audioCache = x.audioCache
  /\ \A i \in DOMAIN y.segments :
       \/ i \in DOMAIN x.segments /\ y.segments[i].msgs = x.segments[i].msgs
       \/ y.segments[i].msgs = <<>>

Anew(x, y, ts) ==
  Extends(x, y) /\ (y.opened => y.fragTS = ts /\ LastFile(y).msgs = <<>>)

LEMMA ExtendsOn ==
  ASSUME NEW x, NEW y, NEW z, Extends(x, y), Extends(y, z)
  PROVE  Extends(x, z)
BY DEF Extends

LEMMA OpenedAnew ==
  ASSUME NEW n \in Nat, NEW bad \in BOOLEAN, NEW disk \in BOOLEAN,
         NEW c, Sound(c, n, bad), ~c.opened, c.audioCache = <<>>, NEW ts \in Nat, NEW d \in BOOLEAN
  PROVE  Anew(c, reopenAudio(c, ts, d, disk), ts)
<1> DEFINE o == reopenAudio(c, ts, d, disk)
<1>1. CASE ~disk
  <2>1. o = c
    BY <1>1 DEF reopenAudio
  <2>2. Anew(c, c, ts)
    BY DEF Anew, Extends
  <2>3. QED
    BY <2>1, <2>2
<1>2. CASE disk
  <2> DEFINE y == opening(c, ts, d)
  <2>1. DOMAIN c = Fields /\ c.segments \in Seq(File(n))
    BY SoundTypes
  <2>2. Opens(c, ts, d, y)
    BY <2>1, OpeningFields
  <2>3. o = FlushAudio(y, disk)
    BY <1>2 DEF reopenAudio
  <2> HIDE DEF y
  <2>4. y.audioCache = <<>> /\ y.fragTS = ts
    BY <2>2 DEF Opens, SameStreamer
  <2>5. o = y
    BY <2>3, <2>4 DEF FlushAudio, flush
  <2> DEFINE file == [id |-> getFragmentID(c), msgs |-> <<>>, discont |-> d, video |-> c.spspps]
  <2>6. y.segments = Append(c.segments, file) /\ file.msgs = <<>>
    BY <2>2 DEF Opens
  <2> HIDE DEF file
  <2>7. /\ Len(y.segments) = Len(c.segments) + 1 /\ Len(c.segments) \in Nat
        /\ DOMAIN c.segments = 1..Len(c.segments) /\ DOMAIN y.segments = 1..(Len(c.segments) + 1)
        /\ \A i \in 1..Len(c.segments) : y.segments[i] = c.segments[i]
        /\ y.segments[Len(c.segments) + 1] = file
    BY <2>1, <2>6
  <2>8. \A i \in DOMAIN y.segments : i \in DOMAIN c.segments \/ i = Len(c.segments) + 1
    BY <2>7
  <2>9. Extends(c, y)
    BY <2>4, <2>6, <2>7, <2>8 DEF Extends
  <2>10. LastFile(y).msgs = <<>>
    BY <2>6, <2>7 DEF LastFile
  <2>11. Anew(c, y, ts)
    BY <2>4, <2>9, <2>10 DEF Anew
  <2>12. QED
    BY <2>5, <2>11
<1>3. QED
  BY <1>1, <1>2

\* The same, of a fragment that is closed first.
LEMMA ClosedAnew ==
  ASSUME NEW n \in Nat, NEW bad \in BOOLEAN, NEW disk \in BOOLEAN, disk \/ bad,
         NEW x, Sound(x, n, bad), x.opened, x.audioCache = <<>>, NEW ts \in Nat, NEW d \in BOOLEAN
  PROVE  Anew(x, reopenAudio(closeFragment(x, FALSE, disk), ts, d, disk), ts)
<1> DEFINE c == closeFragment(x, FALSE, disk)
<1>1. Closes(x, disk, c)
  BY SoundTypes, CloseFields
<1> HIDE DEF c
<1>2. Sound(c, n, bad)
  BY <1>1, CloseSound
<1>3. ~c.opened /\ c.audioCache = <<>> /\ Extends(x, c)
  BY <1>1 DEF Closes, SameStreamer, Extends
<1> DEFINE o == reopenAudio(c, ts, d, disk)
<1>4. Anew(c, o, ts)
  BY <1>2, <1>3, OpenedAnew
<1> HIDE DEF o
<1>5. Anew(x, o, ts)
  BY <1>3, <1>4, ExtendsOn DEF Anew
<1>6. QED
  BY <1>5 DEF o, c

\* A video frame's time ts: the fragment that takes it began with ts, or near it.
LEMMA UpdateAnew ==
  ASSUME NEW n \in Nat, NEW bad \in BOOLEAN, NEW disk \in BOOLEAN, disk \/ bad,
         NEW x, Sound(x, n, bad), x.audioCache = <<>>, NEW ts \in Nat, NEW b \in BOOLEAN
  PROVE  LET u == updateAudio(x, ts, b, disk) IN
         \/ Anew(x, u, ts)
         \/ u.opened /\ x.opened /\ u.segments = x.segments /\ u.fragTS = x.fragTS
            /\ u.audioCache = <<>> /\ ~forced(x, ts)
<1> DEFINE u == updateAudio(x, ts, b, disk)
           a == reopenAudio(x, ts, TRUE, disk)
           s == reopenAudio(closeFragment(x, FALSE, disk), ts, TRUE, disk)
           l == reopenAudio(closeFragment(Longer(x, ts), FALSE, disk), ts, FALSE, disk)
           t == reopenAudio(closeFragment(s, FALSE, disk), ts, FALSE, disk)
           Stays == u.opened /\ x.opened /\ u.segments = x.segments /\ u.fragTS = x.fragTS
                      /\ u.audioCache = <<>> /\ ~forced(x, ts)
<1> SUFFICES Anew(x, u, ts) \/ Stays
  OBVIOUS
<1>1. fragmentsAudio(x, ts, disk, a, s, l, t)
  BY DEF fragmentsAudio
<1>2. OnTime(x, ts)
  BY DEF OnTime
<1>3. ASSUME ~x.opened PROVE Anew(x, a, ts)
  BY <1>3, OpenedAnew
<1>4. ASSUME x.opened PROVE Anew(x, s, ts)
  BY <1>4, ClosedAnew
<1>5. ASSUME x.opened PROVE Anew(x, l, ts)
  <2> DEFINE z == Longer(x, ts)
  <2>1. Sound(z, n, bad) /\ Grows(x, z, ts)
    BY <1>5, LongerSound
  <2> HIDE DEF z
  <2>2. z.opened /\ z.audioCache = <<>> /\ Extends(x, z)
    BY <2>1 DEF Grows, Extends
  <2>3. l = reopenAudio(closeFragment(z, FALSE, disk), ts, FALSE, disk)
    BY DEF z
  <2> HIDE DEF l
  <2>4. Anew(z, l, ts)
    BY <2>1, <2>2, <2>3, ClosedAnew
  <2>5. QED
    BY <2>2, <2>4, ExtendsOn DEF Anew
<1>6. ASSUME x.opened, s.opened, Sound(s, n, bad) PROVE Anew(x, t, ts)
  <2>1. Anew(x, s, ts)
    BY <1>4, <1>6
  <2> HIDE DEF s
  <2>2. s.audioCache = <<>>
    BY <2>1 DEF Anew, Extends
  <2>3. Anew(s, t, ts)
    BY <1>6, <2>2, ClosedAnew
  <2> HIDE DEF t
  <2>4. QED
    BY <2>1, <2>3, ExtendsOn DEF Anew
<1> HIDE DEF a, s, l, t
<1>7. Reopened(x, ts, n, bad, disk, a, s, l, t)
  BY <1>1, <1>2, ReopenedAudio
<1>8. Outcome(x, ts, b, u, a, s, l, t)
  BY <1>1, <1>7, UpdateAudio
<1> HIDE DEF u
<1>9. CASE ~x.opened /\ u = x
  <2>1. Anew(x, x, ts)
    BY <1>9 DEF Anew, Extends
  <2>2. QED
    BY <1>9, <2>1
<1>10. CASE ~x.opened /\ u = a
  BY <1>3, <1>10
<1>11. CASE x.opened /\ ~forced(x, ts) /\ u = Longer(x, ts)
  <2>1. Grows(x, u, ts)
    BY <1>11, LongerSound
  <2>2. QED
    BY <1>11, <2>1 DEF Grows
<1>12. CASE x.opened /\ u = l
  BY <1>5, <1>12
<1>13. CASE x.opened /\ u = s
  BY <1>4, <1>13
<1>14. CASE x.opened /\ forced(x, ts) /\ s.opened /\ u = t
  <2>1. Reopens(closeFragment(x, FALSE, disk), s, ts, n, bad, disk)
    BY <1>7, <1>14 DEF Reopened
  <2>2. Sound(s, n, bad)
    BY <2>1 DEF Reopens
  <2>3. QED
    BY <1>6, <1>14, <2>2
<1>15. QED
  BY <1>8, <1>9, <1>10, <1>11, <1>12, <1>13, <1>14 DEF Outcome

\* The fragment that takes a video frame of time ts, if one is open, began near ts.
Ready(u, q, ts) ==
  u.audioCache = <<>> /\ Timely(u, q) /\ (u.opened => Near(u.fragTS, ts))

LEMMA AnewReady ==
  ASSUME NEW n \in Nat, NEW bad, NEW x, NEW u, Sound(u, n, bad), NEW q, Timely(x, q),
         x.audioCache = <<>>, NEW ts \in Nat, Anew(x, u, ts)
  PROVE  Ready(u, q, ts)
<1>1. ASSUME NEW i \in DOMAIN u.segments
      PROVE  \E T \in Int : InWindow(u.segments[i].msgs, q, T)
  <2>1. CASE i \in DOMAIN x.segments /\ u.segments[i].msgs = x.segments[i].msgs
    BY <2>1 DEF Timely
  <2>2. CASE u.segments[i].msgs = <<>>
    <3>1. InWindow(<<>>, q, 0)
      BY DEF InWindow, Range
    <3>2. QED
      BY <2>2, <3>1
  <2>3. QED
    BY <1>1, <2>1, <2>2 DEF Anew, Extends
<1>2. u.opened => InWindow(LastFile(u).msgs, q, u.fragTS)
  <2>1. InWindow(<<>>, q, u.fragTS)
    BY DEF InWindow, Range
  <2>2. QED
    BY <2>1 DEF Anew
<1>3. Near(ts, ts)
  BY RingSizeFacts DEF Near
<1>4. u.audioCache = <<>>
  BY DEF Anew, Extends
<1>5. u.opened => Near(u.fragTS, ts)
  BY <1>3 DEF Anew
<1>6. QED
  BY <1>1, <1>2, <1>4, <1>5 DEF Ready, Timely

LEMMA VideoReady ==
  ASSUME NEW n \in Nat, NEW bad \in BOOLEAN, NEW disk \in BOOLEAN, disk \/ bad,
         NEW x, Sound(x, n, bad), x.audioCache = <<>>, NEW q, Timely(x, q),
         NEW ts \in Nat, NEW b \in BOOLEAN
  PROVE  Sound(updateAudio(x, ts, b, disk), n, bad) /\ Ready(updateAudio(x, ts, b, disk), q, ts)
<1> DEFINE u == updateAudio(x, ts, b, disk)
<1>1. OnTime(x, ts)
  BY DEF OnTime
<1>2. Updates(x, u, ts, n, bad, disk)
  BY <1>1, UpdateAudioSound
<1>3. \/ Anew(x, u, ts)
      \/ u.opened /\ x.opened /\ u.segments = x.segments /\ u.fragTS = x.fragTS
         /\ u.audioCache = <<>> /\ ~forced(x, ts)
  BY UpdateAnew
<1> HIDE DEF u
<1>4. Sound(u, n, bad)
  BY <1>2 DEF Updates
<1>5. CASE Anew(x, u, ts)
  <2>1. Ready(u, q, ts)
    BY <1>4, <1>5, AnewReady
  <2>2. QED
    BY <1>4, <2>1 DEF u
<1>6. CASE u.opened /\ x.opened /\ u.segments = x.segments /\ u.fragTS = x.fragTS
           /\ u.audioCache = <<>> /\ ~forced(x, ts)
  <2>1. Timely(u, q)
    BY <1>6 DEF Timely, LastFile
  <2>2. x.fragTS \in Nat
    BY SoundTypes
  <2>3. Near(x.fragTS, ts)
    BY <1>6, <2>2, RingSizeFacts DEF Near, forced
  <2>4. Ready(u, q, ts)
    BY <1>6, <2>1, <2>3 DEF Ready
  <2>5. QED
    BY <1>4, <2>4 DEF u
<1>7. QED
  BY <1>3, <1>5, <1>6

\* Message n + 1 is fed: the files do not hold it yet.
LEMMA TimelyMore ==
  ASSUME NEW n \in Nat, NEW bad, NEW x, Sound(x, n, bad),
         NEW q \in Seq(Message), Len(q) = n, NEW msg \in Message, Timely(x, q)
  PROVE  Timely(x, Append(q, msg))
<1> DEFINE r == Append(q, msg)
<1>1. \A k \in 1..n : r[k] = q[k]
  OBVIOUS
<1> HIDE DEF r
<1>2. x.segments \in Seq(File(n)) /\ (x.opened => x.segments # <<>>)
  BY SoundTypes
<1>3. ASSUME NEW i \in DOMAIN x.segments, NEW T, InWindow(x.segments[i].msgs, q, T)
      PROVE  InWindow(x.segments[i].msgs, r, T)
  <2>1. x.segments[i] \in File(n)
    BY <1>2
  <2>2. Range(x.segments[i].msgs) \subseteq 1..n
    BY <2>1 DEF File, Range
  <2>3. QED
    BY <1>1, <1>3, <2>2 DEF InWindow
<1>4. x.opened => Len(x.segments) \in DOMAIN x.segments
  BY <1>2
<1>5. Timely(x, r)
  BY <1>3, <1>4 DEF Timely, LastFile
<1>6. QED
  BY <1>5 DEF r

LEMMA WriteTimely ==
  ASSUME NEW n \in Nat, NEW x, Typed(x, n), x.opened, x.segments # <<>>,
         NEW q, NEW ts, Timely(x, q), Near(x.fragTS, ts),
         NEW i \in 1..n, q[i].ts = ts, NEW y, Writes(x, <<i>>, y)
  PROVE  Timely(y, q)
<1> DEFINE last == Len(x.segments)
           msgs == <<i>>
<1>1. msgs \in Seq(1..n) /\ Range(msgs) = {i}
  BY DEF Range
<1>2. Fills(x, msgs, last, y)
  BY <1>1, WriteFiles
<1>3. x.segments \in Seq(File(n)) /\ x.fragTS \in Nat
  BY DEF Typed
<1>4. last \in 1..last /\ DOMAIN x.segments = 1..last
  BY <1>3
<1>5. x.segments[last].msgs \in Seq(1..n)
  <2>1. x.segments[last] \in File(n)
    BY <1>3, <1>4
  <2>2. QED
    BY <2>1 DEF File
<1>6. Range(x.segments[last].msgs \o msgs) = Range(x.segments[last].msgs) \cup {i}
  <2> DEFINE old == x.segments[last].msgs
  <2>1. old \in Seq(1..n)
    BY <1>5
  <2> HIDE DEF msgs, old
  <2>2. Range(old \o msgs) = Range(old) \cup Range(msgs)
    BY <1>1, <2>1, RangeOfConcat
  <2>3. QED
    BY <1>1, <2>2 DEF old
<1>7. /\ Len(y.segments) = last /\ y.fragTS = x.fragTS
      /\ \A j \in 1..last : j # last => y.segments[j] = x.segments[j]
      /\ y.segments[last].msgs = x.segments[last].msgs \o msgs
  BY <1>2 DEF Fills, Writes
<1>8. DOMAIN y.segments = 1..last
  BY <1>3, <1>4 DEF Writes
<1> HIDE DEF last, msgs
<1>9. InWindow(x.segments[last].msgs, q, x.fragTS)
  BY DEF Timely, LastFile, last
<1>10. InWindow(y.segments[last].msgs, q, x.fragTS)
  BY <1>6, <1>7, <1>9 DEF InWindow
<1>11. ASSUME NEW j \in DOMAIN y.segments
       PROVE  \E T \in Int : InWindow(y.segments[j].msgs, q, T)
  <2>1. CASE j = last
    BY <2>1, <1>3, <1>10
  <2>2. CASE j # last
    BY <2>2, <1>4, <1>7, <1>8 DEF Timely
  <2>3. QED
    BY <2>1, <2>2
<1>12. QED
  BY <1>7, <1>10, <1>11 DEF Timely, LastFile

LEMMA OnVideoTimely ==
  ASSUME NEW n \in Nat, NEW bad \in BOOLEAN, NEW disk \in BOOLEAN, disk \/ bad,
         NEW x, Sound(x, n, bad), x.audioCache = <<>>,
         NEW q \in Seq(Message), Len(q) = n, NEW msg \in Message, Timely(x, q),
         NEW key \in BOOLEAN,
         NEW y, y = onVideo(x, videoFrame(n + 1, key, msg.ts), disk)
  PROVE  y.audioCache = <<>> /\ Timely(y, Append(q, msg))
<1> DEFINE i == n + 1
           ts == msg.ts
           r == Append(q, msg)
           av == videoFrame(i, key, ts)
           b == isBoundary(x, av)
           u == updateAudio(x, ts, b, disk)
<1>1. ts \in Nat /\ r[i].ts = ts /\ i \in 1..i /\ i \in Nat
  BY DEF Message
<1>2. av.ts = ts /\ av.msgs = <<i>> /\ b \in BOOLEAN
  <2>1. av.kind # "audio" /\ av.key \in BOOLEAN /\ av.ts = ts /\ av.msgs = <<i>>
    BY DEF videoFrame
  <2> HIDE DEF av
  <2>2. b \in BOOLEAN
    BY <2>1, SoundTypes DEF isBoundary
  <2>3. QED
    BY <2>1, <2>2
<1>3. Timely(x, r)
  BY TimelyMore
<1> HIDE DEF av, b, r
<1>4. y = IF u.opened THEN write(u, <<i>>) ELSE u
  BY <1>2 DEF onVideo, OnFrame, updateAudio, write, b, av
<1>5. Sound(u, n, bad) /\ Ready(u, r, ts)
  BY <1>1, <1>2, <1>3, VideoReady
<1> HIDE DEF u
<1>6. CASE ~u.opened
  BY <1>4, <1>5, <1>6 DEF Ready, r
<1>7. CASE u.opened
  <2>1. Typed(u, i) /\ DOMAIN u = Fields /\ u.segments # <<>>
    BY <1>5, <1>7, SoundTypes, TypedMore
  <2>2. Writes(u, <<i>>, y)
    BY <1>4, <1>7, <2>1, WriteFields
  <2> HIDE DEF i, ts
  <2>3. Timely(y, r)
    BY <1>1, <1>5, <1>7, <2>1, <2>2, WriteTimely DEF Ready
  <2>4. y.audioCache = <<>>
    BY <1>5, <2>2 DEF Ready, Writes, SameStreamer
  <2>5. QED
    BY <2>3, <2>4 DEF r
<1>8. QED
  BY <1>6, <1>7

\* Without audio nothing is ever kept, and every file is timely.
JumpInv == ~m.adts => m.audioCache = <<>> /\ Timely(m, fed)

LEMMA FedOnceTimely ==
  ASSUME HlsInv, JumpInv, FedOnce
  PROVE  JumpInv'
<1> DEFINE n == Len(fed)
<1>1. PICK msg \in Message, disk \in BOOLEAN :
        /\ ~disposed /\ disposed' = disposed
        /\ now' = msg.ts /\ fed' = Append(fed, msg)
        /\ diskFailed' = (diskFailed \/ ~disk)
        /\ m' = FeedRTMPMessage(m, Len(fed'), msg, disk)
  BY DEF FedOnce
<1>2. fed \in Seq(Message) /\ n \in Nat /\ Len(fed') = n + 1
  BY <1>1 DEF HlsInv
<1>3. diskFailed' \in BOOLEAN /\ (diskFailed => diskFailed') /\ (disk \/ diskFailed')
  BY <1>1 DEF HlsInv
<1> HIDE DEF n
<1>4. Sound(m, n, diskFailed')
  <2>1. Sound(m, n, diskFailed) /\ diskFailed \in BOOLEAN
    BY DEF HlsInv, n
  <2>2. QED
    BY <2>1, <1>3, SoundWorse
<1> DEFINE bad == diskFailed'
           y == FeedRTMPMessage(m, n + 1, msg, disk)
<1>5. m' = y
  BY <1>1, <1>2
<1>6. Feeds(m, y, n + 1, bad, disk)
  BY <1>2, <1>3, <1>4, MessageFeeds
<1>7. msg.ts \in Nat /\ msg.key \in BOOLEAN
  BY DEF Message
<1>8. SUFFICES ASSUME ~y.adts PROVE y.audioCache = <<>> /\ Timely(y, Append(fed, msg))
  BY <1>1, <1>5 DEF JumpInv
<1>9. ~m.adts
  BY <1>6, <1>8 DEF Feeds
<1>10. m.audioCache = <<>> /\ Timely(m, fed)
  BY <1>9 DEF JumpInv
<1>11. Timely(m, Append(fed, msg))
  BY <1>2, <1>4, <1>10, TimelyMore DEF n
<1>12. CASE y = m
  BY <1>10, <1>11, <1>12
<1>13. CASE msg.kind = "audio"
  <2>1. y = m
    BY <1>9, <1>13 DEF FeedRTMPMessage, feedAudio
  <2>2. QED
    BY <2>1, <1>12
<1>14. CASE msg.kind # "audio" /\ msg.key /\ ~m.spspps
  <2>1. y = m
    BY <1>14 DEF FeedRTMPMessage, feedVideo
  <2>2. QED
    BY <2>1, <1>12
<1>15. CASE msg.kind # "audio" /\ ~(msg.key /\ ~m.spspps)
  <2>1. flushOld(m, msg.ts, maxAudioCacheDelayByVideo, disk) = m
    BY <1>10 DEF flushOld, keptTooLong
  <2>2. y = onVideo(m, videoFrame(n + 1, msg.key, msg.ts), disk)
    BY <1>15, <2>1 DEF FeedRTMPMessage, feedVideo, onVideo, OnFrame, videoFrame
  <2> HIDE DEF y
  <2>3. n = Len(fed)
    BY DEF n
  <2>4. QED
    BY <1>2, <1>3, <1>4, <1>7, <1>10, <2>2, <2>3, OnVideoTimely DEF bad
<1>16. QED
  BY <1>13, <1>14, <1>15

LEMMA FeedHeaderTimely ==
  ASSUME JumpInv, HlsInv, FeedHeader
  PROVE  JumpInv'
<1>1. DOMAIN m = Fields
  BY SoundTypes DEF HlsInv
<1>2. fed' = fed
  BY DEF FeedHeader
<1>3. /\ m'.opened = m.opened /\ m'.fragTS = m.fragTS /\ m'.segments = m.segments
      /\ m'.audioCache = m.audioCache /\ (~m'.adts => ~m.adts)
  <2>1. CASE m' = [m EXCEPT !.spspps = TRUE]
    BY <2>1, <1>1 DEF Fields
  <2>2. CASE m' = [m EXCEPT !.adts = TRUE]
    BY <2>2, <1>1 DEF Fields
  <2>3. QED
    BY <2>1, <2>2 DEF FeedHeader
<1>4. Timely(m, fed) => Timely(m', fed')
  BY <1>2, <1>3 DEF Timely, LastFile
<1>5. QED
  BY <1>3, <1>4 DEF JumpInv

LEMMA DisposeTimely ==
  ASSUME JumpInv, HlsInv, Dispose
  PROVE  JumpInv'
<1>1. PICK disk \in BOOLEAN : m' = closeFragment(FlushAudio(m, disk), TRUE, disk)
  BY DEF Dispose
<1>2. fed' = fed
  BY DEF Dispose
<1>3. DOMAIN m = Fields /\ diskFailed \in BOOLEAN /\ Len(fed) \in Nat
  BY SoundTypes DEF HlsInv
<1>4. HlsInv'
  BY DisposeStep
<1>5. ASSUME ~m'.adts PROVE m'.audioCache = <<>> /\ Timely(m', fed')
  <2>1. CASE m.audioCache = <<>>
    <3>1. FlushAudio(m, disk) = m
      BY <2>1 DEF FlushAudio, flush
    <3>2. CASE ~m.opened
      <4>1. m' = m
        BY <1>1, <3>1, <3>2 DEF closeFragment
      <4>2. QED
        BY <1>2, <1>5, <4>1 DEF JumpInv
    <3>3. CASE m.opened
      <4> DEFINE y == closeFragment(m, TRUE, disk)
      <4>1. Closes(m, disk, y)
        BY <1>3, <3>3, CloseFields
      <4>2. m' = y
        BY <1>1, <3>1
      <4> HIDE DEF y
      <4>3. ~m.adts /\ y.audioCache = <<>> /\ y.segments = m.segments /\ y.opened = FALSE
        BY <1>5, <2>1, <4>1, <4>2 DEF Closes, SameStreamer
      <4>4. Timely(m, fed)
        BY <4>3 DEF JumpInv
      <4>5. Timely(y, fed)
        BY <4>3, <4>4 DEF Timely
      <4>6. QED
        BY <1>2, <4>2, <4>3, <4>5
    <3>4. QED
      BY <3>2, <3>3
  <2>2. CASE m.audioCache # <<>>
    <3>1. m.adts
      BY <2>2 DEF JumpInv
    <3>2. m'.adts = m.adts
      <4> DEFINE o == FlushAudio(m, disk)
                 y == closeFragment(o, TRUE, disk)
      <4>1. disk \in BOOLEAN /\ Sound(m, Len(fed), diskFailed \/ ~disk)
        BY <1>3, SoundWorse DEF HlsInv
      <4>2. Feeds(m, o, Len(fed), diskFailed \/ ~disk, disk)
        BY <1>3, <4>1, FlushFeeds
      <4>3. m' = y
        BY <1>1
      <4> HIDE DEF o
      <4>4. DOMAIN o = Fields /\ o.adts = m.adts
        BY <4>2, SoundTypes DEF Feeds
      <4>5. CASE ~o.opened
        BY <4>3, <4>4, <4>5 DEF closeFragment
      <4>6. CASE o.opened
        <5>1. Closes(o, disk, y)
          BY <4>4, <4>6, CloseFields
        <5> HIDE DEF y
        <5>2. QED
          BY <4>3, <4>4, <5>1 DEF Closes, SameStreamer
      <4>7. QED
        BY <4>5, <4>6
    <3>3. QED
      BY <1>5, <3>1, <3>2
  <2>3. QED
    BY <2>1, <2>2
<1>6. QED
  BY <1>5 DEF JumpInv

LEMMA FedLostTimely ==
  ASSUME HlsInv, JumpInv, FedLost
  PROVE  JumpInv'
<1>a. PICK msg \in Message, disk \in BOOLEAN :
      \E o \in {m, flushOld(m, msg.ts, maxAudioCacheDelayByVideo, disk)} :
        /\ fed' = Append(fed, msg)
        /\ o.opened /\ Sound(o, Len(fed), TRUE) /\ o.adts = m.adts
        /\ Drops(o, m', Len(fed) + 1, msg)
  BY DEF FedLost
<1>1. PICK o \in {m, flushOld(m, msg.ts, maxAudioCacheDelayByVideo, disk)} :
        /\ fed' = Append(fed, msg)
        /\ o.opened /\ Sound(o, Len(fed), TRUE) /\ o.adts = m.adts
        /\ Drops(o, m', Len(fed) + 1, msg)
  BY <1>a
<1>2. SUFFICES ASSUME ~m'.adts PROVE m'.audioCache = <<>> /\ Timely(m', fed')
  BY DEF JumpInv
<1>3. SameFragment(o, m') /\ ~m.adts
  BY <1>1, <1>2 DEF Drops, SameFragment
<1>4. m.audioCache = <<>> /\ Timely(m, fed)
  BY <1>3 DEF JumpInv
<1>5. o = m
  BY <1>1, <1>4 DEF flushOld, keptTooLong
<1>6. m'.audioCache = <<>>
  BY <1>1, <1>3, <1>4, <1>5 DEF Drops
<1>7. fed \in Seq(Message) /\ Len(fed) \in Nat
  BY DEF HlsInv
<1>8. Timely(m, fed')
  BY <1>1, <1>4, <1>5, <1>7, TimelyMore
<1>9. Timely(m', fed')
  BY <1>3, <1>5, <1>8 DEF Timely, SameFragment, LastFile
<1>10. QED
  BY <1>6, <1>9

LEMMA EndLostTimely ==
  ASSUME HlsInv, JumpInv, EndLost
  PROVE  JumpInv'
<1>a. PICK disk \in BOOLEAN : \E o \in {m, FlushAudio(m, disk)} :
        /\ fed' = fed
        /\ o.adts = m.adts
        /\ Spares(o, m')
  BY DEF EndLost
<1>1. PICK o \in {m, FlushAudio(m, disk)} :
        /\ fed' = fed
        /\ o.adts = m.adts
        /\ Spares(o, m')
  BY <1>a
<1>2. SUFFICES ASSUME ~m'.adts PROVE m'.audioCache = <<>> /\ Timely(m', fed')
  BY DEF JumpInv
<1>3. SameFragment(o, m') /\ ~m.adts
  BY <1>1, <1>2 DEF Spares, SameFragment
<1>4. m.audioCache = <<>> /\ Timely(m, fed)
  BY <1>3 DEF JumpInv
<1>5. o = m
  BY <1>1, <1>4 DEF FlushAudio, flush
<1>6. m'.audioCache = <<>>
  BY <1>1, <1>4, <1>5 DEF Spares
<1>7. Timely(m', fed')
  BY <1>1, <1>3, <1>4, <1>5 DEF Timely, SameFragment, LastFile
<1>8. QED
  BY <1>6, <1>7

\* A jump of the timestamps, ahead or back, begins a new fragment (updateFragment's
\* forced split, muxer.go): in a stream without audio no two messages of one file are
\* further apart than the two thresholds together, whatever the timestamps do.
THEOREM JumpsSplit == Spec => []NoJumpInside
<1>1. Init => JumpInv
  BY DEF Init, JumpInv, Timely
<1>2. HlsInv /\ JumpInv /\ [Next]_vars => JumpInv'
  <2>1. SUFFICES ASSUME HlsInv, JumpInv, [Next]_vars PROVE JumpInv'
    OBVIOUS
  <2>2. CASE UNCHANGED vars
    BY <2>1, <2>2 DEF vars, JumpInv
  <2>3. ASSUME NEW key \in BOOLEAN, FeedVideo(key) PROVE JumpInv'
    BY <2>1, <2>3, FeedIsFedOnce, FedOnceTimely DEF FeedVideo
  <2>4. CASE FeedAudio
    BY <2>1, <2>4, FeedIsFedOnce, FedOnceTimely DEF FeedAudio
  <2>5. CASE FeedHeader
    BY <2>1, <2>5, FeedHeaderTimely
  <2>6. CASE Dispose
    BY <2>1, <2>6, DisposeTimely
  <2>7. ASSUME NEW key \in BOOLEAN, FeedVideoLost(key) PROVE JumpInv'
    BY <2>1, <2>7, FeedLostIsFedLost, FedLostTimely DEF FeedVideoLost
  <2>8. CASE FeedAudioLost
    BY <2>1, <2>8, FeedLostIsFedLost, FedLostTimely DEF FeedAudioLost
  <2>9. CASE DisposeLost
    BY <2>1, <2>9, DisposeLostIsEndLost, EndLostTimely
  <2>10. QED
    BY <2>1, <2>2, <2>3, <2>4, <2>5, <2>6, <2>7, <2>8, <2>9 DEF Next
<1>3. HlsInv /\ JumpInv => NoJumpInside
  <2>1. SUFFICES ASSUME HlsInv, JumpInv, ~m.adts, NEW i \in DOMAIN m.segments,
                        NEW a \in Range(m.segments[i].msgs), NEW b \in Range(m.segments[i].msgs)
                 PROVE  fed[b].ts - fed[a].ts <= FragmentDuration * ForceFactor + negMaxfraglen
    BY DEF NoJumpInside
  <2>2. PICK T \in Int : InWindow(m.segments[i].msgs, fed, T)
    BY <2>1 DEF JumpInv, Timely
  <2>3. fed[b].ts - T <= FragmentDuration * ForceFactor /\ T - fed[a].ts <= negMaxfraglen
    BY <2>1, <2>2 DEF InWindow, Near
  <2>4. fed[a].ts \in Nat /\ fed[b].ts \in Nat
    <3>1. Typed(m, Len(fed)) /\ fed \in Seq(Message) /\ Len(fed) \in Nat
      BY <2>1 DEF HlsInv, Sound
    <3>2. Files(m) \subseteq 1..Len(fed)
      BY <3>1, FilesBelow
    <3>3. a \in 1..Len(fed) /\ b \in 1..Len(fed)
      BY <2>1, <3>2 DEF Files
    <3>4. fed[a] \in Message /\ fed[b] \in Message
      BY <3>1, <3>3
    <3>5. QED
      BY <3>4 DEF Message
  <2>5. QED
    BY <2>3, <2>4, RingSizeFacts
<1>4. QED
  BY <1>1, <1>2, <1>3, HlsAlways, PTL DEF Spec
----------------------------------------------------------------------------
(* Key frames.  Of the messages fed, q: a file that is strict holds no      *)
(* video before a key frame (Led), and the one that is open already holds   *)
(* one (Started), but for the moment when it is begun.                      *)

Video(q, k) == q[k].kind = "video"
Key(q, k) == Video(q, k) /\ q[k].key
Keyed(s, q) == \E j \in DOMAIN s.msgs : Key(q, s.msgs[j])
Led(s, q) ==
  Strict(s) => \A k \in DOMAIN s.msgs : Video(q, s.msgs[k]) => \E j \in 1..k : Key(q, s.msgs[j])

Silent(msgs, q) == \A k \in Range(msgs) : ~Video(q, k)

\* And what the streamer keeps is audio.
AllLed(x, q) == (\A i \in DOMAIN x.segments : Led(x.segments[i], q)) /\ Silent(x.audioCache, q)
Started(x, q) == x.opened => (Strict(LastFile(x)) => Keyed(LastFile(x), q))

\* What the file that is open can take: audio, a key frame, or anything once it holds one.
CanTake(x, msgs, q) ==
  \/ Silent(msgs, q)
  \/ Strict(LastFile(x)) => Keyed(LastFile(x), q)
  \/ \E i : msgs = <<i>> /\ Key(q, i)

LEMMA OpeningLed ==
  ASSUME NEW n \in Nat, NEW c, Typed(c, n), NEW q, AllLed(c, q), NEW ts, NEW d \in BOOLEAN,
         NEW y, Opens(c, ts, d, y)
  PROVE  AllLed(y, q) /\ (d \/ ~c.spspps => Started(y, q))
<1> DEFINE file == [id |-> getFragmentID(c), msgs |-> <<>>, discont |-> d, video |-> c.spspps]
           last == Len(c.segments) + 1
<1>1. y.segments = Append(c.segments, file) /\ y.audioCache = c.audioCache
  BY DEF Opens, SameStreamer
<1>2. file.msgs = <<>> /\ (Strict(file) => c.spspps /\ ~d)
  BY DEF Strict
<1> HIDE DEF file
<1>3. c.segments \in Seq(File(n))
  BY DEF Typed
<1>4. /\ Len(y.segments) = last /\ y.segments[last] = file
      /\ \A i \in DOMAIN y.segments :
           i = last \/ (i \in DOMAIN c.segments /\ y.segments[i] = c.segments[i])
  BY <1>1, <1>3
<1>5. Led(file, q)
  BY <1>2 DEF Led
<1>6. AllLed(y, q)
  BY <1>1, <1>4, <1>5 DEF AllLed
<1>7. Strict(LastFile(y)) => c.spspps /\ ~d
  BY <1>2, <1>4 DEF LastFile
<1>8. QED
  BY <1>6, <1>7 DEF Started

LEMMA ConcatAt ==
  ASSUME NEW n, NEW s \in Seq(1..n), NEW t \in Seq(1..n)
  PROVE  /\ Len(s) \in Nat /\ DOMAIN s = 1..Len(s) /\ Len(t) \in Nat /\ DOMAIN t = 1..Len(t)
         /\ DOMAIN (s \o t) = 1..(Len(s) + Len(t))
         /\ \A k \in 1..Len(s) : (s \o t)[k] = s[k]
         /\ \A k \in 1..Len(t) : (s \o t)[Len(s) + k] = t[k]
OBVIOUS

LEMMA WriteLed ==
  ASSUME NEW n \in Nat, NEW x, Typed(x, n), x.segments # <<>>, NEW q, AllLed(x, q),
         NEW msgs \in Seq(1..n), CanTake(x, msgs, q), NEW y, Writes(x, msgs, y)
  PROVE  /\ AllLed(y, q)
         /\ x.opened /\ Started(x, q) => Started(y, q)
         /\ (\E i : msgs = <<i>> /\ Key(q, i)) => Started(y, q)
<1> DEFINE last == Len(x.segments)
           old == x.segments[last]
           new == y.segments[last]
<1>1. Fills(x, msgs, last, y)
  BY WriteFiles
<1>2. x.segments \in Seq(File(n))
  BY DEF Typed
<1>3. last \in DOMAIN x.segments /\ DOMAIN x.segments = 1..last
  BY <1>2
<1>4. /\ Len(y.segments) = last
      /\ \A i \in 1..last : i # last => y.segments[i] = x.segments[i]
      /\ new.msgs = old.msgs \o msgs
      /\ new.video = old.video /\ new.discont = old.discont
  BY <1>1 DEF Fills
<1>5. DOMAIN y.segments = 1..last /\ y.audioCache = x.audioCache /\ y.opened = x.opened
  BY <1>3 DEF Writes, SameStreamer
<1>6. old.msgs \in Seq(1..n)
  <2>1. old \in File(n)
    BY <1>2, <1>3
  <2>2. QED
    BY <2>1 DEF File
<1>7. Led(old, q) /\ LastFile(x) = old /\ LastFile(y) = new /\ (Strict(new) <=> Strict(old))
  BY <1>3, <1>4 DEF AllLed, LastFile, Strict
<1> DEFINE len == Len(old.msgs)
<1>8. /\ len \in Nat /\ DOMAIN old.msgs = 1..len /\ DOMAIN msgs = 1..Len(msgs) /\ Len(msgs) \in Nat
      /\ DOMAIN new.msgs = 1..(len + Len(msgs))
      /\ \A k \in 1..len : new.msgs[k] = old.msgs[k]
      /\ \A k \in 1..Len(msgs) : new.msgs[len + k] = msgs[k]
  <2> HIDE DEF old, new
  <2>1. QED
    BY <1>4, <1>6, ConcatAt
<1> HIDE DEF last, old, new, len
<1>9. Keyed(old, q) => Keyed(new, q)
  <2>1. SUFFICES ASSUME NEW j \in 1..len, Key(q, old.msgs[j]) PROVE Keyed(new, q)
    BY <1>8 DEF Keyed
  <2>2. j \in DOMAIN new.msgs /\ new.msgs[j] = old.msgs[j]
    BY <1>8
  <2>3. QED
    BY <2>1, <2>2 DEF Keyed
<1>10. (\E i : msgs = <<i>> /\ Key(q, i)) => Keyed(new, q)
  <2>1. SUFFICES ASSUME NEW i, msgs = <<i>>, Key(q, i) PROVE Keyed(new, q)
    OBVIOUS
  <2>2. Len(msgs) = 1 /\ msgs[1] = i
    BY <2>1
  <2>3. len + 1 \in DOMAIN new.msgs /\ new.msgs[len + 1] = i
    BY <1>8, <2>2
  <2>4. QED
    BY <2>1, <2>3 DEF Keyed
<1>11. Led(new, q)
  <2>1. SUFFICES ASSUME Strict(new), NEW k \in DOMAIN new.msgs, Video(q, new.msgs[k])
                 PROVE  \E j \in 1..k : Key(q, new.msgs[j])
    BY DEF Led
  <2>2. k \in 1..(len + Len(msgs)) /\ k \in Nat
    BY <1>8, <2>1
  <2>3. CASE k <= len
    <3>1. k \in 1..len /\ new.msgs[k] = old.msgs[k]
      BY <1>8, <2>2, <2>3
    <3>2. PICK j \in 1..k : Key(q, old.msgs[j])
      BY <1>7, <1>8, <2>1, <3>1 DEF Led
    <3>3. new.msgs[j] = old.msgs[j]
      BY <1>8, <2>2, <2>3, <3>2
    <3>4. QED
      BY <3>2, <3>3
  <2>4. CASE k > len
    <3>1. k - len \in DOMAIN msgs /\ new.msgs[k] = msgs[k - len]
      <4>1. k - len \in 1..Len(msgs) /\ k = len + (k - len)
        BY <1>8, <2>2, <2>4
      <4>2. QED
        BY <4>1, <1>8
    <3>2. new.msgs[k] \in Range(msgs)
      BY <3>1 DEF Range
    <3>3. ~Silent(msgs, q)
      BY <2>1, <3>2 DEF Silent
    <3>4. CASE Keyed(old, q)
      <4>1. PICK j \in 1..len : Key(q, old.msgs[j])
        BY <1>8, <3>4 DEF Keyed
      <4>2. j \in 1..k /\ new.msgs[j] = old.msgs[j]
        BY <1>8, <2>2, <2>4, <4>1
      <4>3. QED
        BY <4>1, <4>2
    <3>5. CASE \E i : msgs = <<i>> /\ Key(q, i)
      <4>1. PICK i : msgs = <<i>> /\ Key(q, i)
        BY <3>5
      <4>2. Range(msgs) = {i}
        BY <4>1 DEF Range
      <4>3. Key(q, new.msgs[k]) /\ k \in 1..k
        BY <2>2, <3>2, <4>1, <4>2
      <4>4. QED
        BY <4>3
    <3>6. QED
      BY <1>7, <2>1, <3>3, <3>4, <3>5 DEF CanTake
  <2>5. QED
    BY <2>2, <2>3, <2>4, <1>8
<1>12. AllLed(y, q)
  BY <1>3, <1>4, <1>5, <1>11 DEF AllLed, new
<1>13. QED
  BY <1>5, <1>7, <1>9, <1>10, <1>12 DEF Started

\* A file is closed, or its duration brought up to date.
SameFiles(x, y) ==
  /\ y.segments = x.segments /\ y.audioCache = x.audioCache
  /\ y.spspps = x.spspps /\ (y.opened => x.opened)

LEMMA SameFilesLed ==
  ASSUME NEW x, NEW y, SameFiles(x, y), NEW q, AllLed(x, q)
  PROVE  AllLed(y, q) /\ (Started(x, q) => Started(y, q))
BY DEF SameFiles, AllLed, Started, LastFile

LEMMA ClosedLed ==
  ASSUME NEW n, NEW bad, NEW x, Sound(x, n, bad), x.opened, NEW isLast, NEW disk \in BOOLEAN
  PROVE  SameFiles(x, closeFragment(x, isLast, disk)) /\ ~closeFragment(x, isLast, disk).opened
<1>1. Closes(x, disk, closeFragment(x, isLast, disk))
  BY SoundTypes, CloseFields
<1>2. QED
  BY <1>1 DEF Closes, SameFiles, SameStreamer

LEMMA LongerLed ==
  ASSUME NEW n \in Nat, NEW bad \in BOOLEAN, NEW x, Sound(x, n, bad), x.opened, NEW ts \in Nat
  PROVE  SameFiles(x, Longer(x, ts))
<1>1. Grows(x, Longer(x, ts), ts)
  BY LongerSound
<1>2. QED
  BY <1>1 DEF Grows, Carries, SameFiles

LEMMA EmptiedLed ==
  ASSUME NEW x, NEW y, Empties(x, y), NEW q, AllLed(x, q)
  PROVE  AllLed(y, q) /\ (Started(x, q) => Started(y, q))
<1>1. y.segments = x.segments /\ y.audioCache = <<>> /\ y.opened = x.opened
  BY DEF Empties
<1>2. Silent(y.audioCache, q)
  BY <1>1 DEF Silent, Range
<1>3. QED
  BY <1>1, <1>2 DEF AllLed, Started, LastFile

LEMMA KeptLed ==
  ASSUME NEW n \in Nat, NEW bad \in BOOLEAN, NEW x, Sound(x, n, bad), x.opened,
         NEW q, AllLed(x, q)
  PROVE  AllLed(kept(x), q) /\ (Started(x, q) => Started(kept(x), q))
<1> DEFINE w == write(x, x.audioCache)
<1>1. CASE x.audioCache = <<>>
  BY <1>1 DEF kept
<1>2. CASE x.audioCache # <<>>
  <2>1. Typed(x, n) /\ DOMAIN x = Fields /\ x.segments # <<>> /\ x.audioCache \in Seq(1..n)
    BY SoundTypes
  <2>2. Writes(x, x.audioCache, w)
    BY <2>1, WriteFields
  <2> HIDE DEF w
  <2>3. Empties(w, emptied(w))
    BY <2>2, EmptiedFields DEF Writes
  <2>4. CanTake(x, x.audioCache, q)
    BY DEF AllLed, CanTake
  <2>5. AllLed(w, q) /\ (Started(x, q) => Started(w, q))
    BY <2>1, <2>2, <2>4, WriteLed
  <2>6. AllLed(emptied(w), q) /\ (Started(w, q) => Started(emptied(w), q))
    BY <2>3, <2>5, EmptiedLed
  <2>7. kept(x) = emptied(w)
    BY <1>2 DEF kept, w
  <2>8. QED
    BY <2>5, <2>6, <2>7
<1>3. QED
  BY <1>1, <1>2

\* A fragment is begun, of x or of what x was closed to: o has no key frame yet only if x
\* knows of video and the split was not forced (d).
LedAt(x, o, q, d) == AllLed(o, q) /\ (d \/ ~x.spspps => Started(o, q))

LEMMA LedAtSame ==
  ASSUME NEW x, NEW c, c.spspps = x.spspps, NEW o, NEW q, NEW d, LedAt(c, o, q, d)
  PROVE  LedAt(x, o, q, d)
BY DEF LedAt

LEMMA OpenedInsideLed ==
  ASSUME NEW n \in Nat, NEW bad \in BOOLEAN, NEW disk \in BOOLEAN,
         NEW c, Sound(c, n, bad), ~c.opened, NEW q, AllLed(c, q),
         NEW ts, ts = c.audioCacheTS, NEW d \in BOOLEAN,
         NEW o, o = reopenInside(c, ts, d, disk)
  PROVE  LedAt(c, o, q, d)
<1>1. CASE ~disk
  BY <1>1 DEF reopenInside, LedAt, Started
<1>2. CASE disk
  <2> DEFINE y == opening(c, ts, d)
  <2>1. DOMAIN c = Fields /\ Typed(c, n) /\ ts \in Nat
    BY SoundTypes
  <2>2. Opens(c, ts, d, y)
    BY <2>1, OpeningFields
  <2>3. o = flushInside(y, disk)
    BY <1>2 DEF reopenInside
  <2> HIDE DEF y
  <2>4. Sound(y, n, bad) /\ Begins(c, d, y)
    BY <2>1, <2>2, OpeningSound
  <2>5. y.opened /\ y.fragTS = ts /\ y.audioCacheTS = ts /\ y.frags[getCurrFrag(y)].duration = 0
    BY <2>2, <2>4 DEF Opens, Begins, SameStreamer
  <2>6. o = kept(y)
    BY <2>1, <2>3, <2>5, InsideEnds
  <2>7. LedAt(c, y, q, d)
    BY <2>1, <2>2, OpeningLed DEF LedAt
  <2>8. AllLed(o, q) /\ (Started(y, q) => Started(o, q))
    BY <2>4, <2>5, <2>6, <2>7, KeptLed DEF LedAt
  <2>9. QED
    BY <2>7, <2>8 DEF LedAt
<1>3. QED
  BY <1>1, <1>2

\* Wherever updateFragment begins a fragment.
AllLedAt(x, q, a, s, l, t) ==
  /\ ~x.opened => LedAt(x, a, q, TRUE)
  /\ x.opened => LedAt(x, s, q, TRUE) /\ LedAt(x, l, q, FALSE)
  /\ x.opened /\ s.opened => LedAt(x, t, q, FALSE)

LEMMA UpdateLed ==
  ASSUME NEW n \in Nat, NEW bad \in BOOLEAN, NEW x, Sound(x, n, bad), NEW q, AllLed(x, q),
         NEW ts \in Nat, NEW b \in BOOLEAN, NEW a, NEW s, NEW l, NEW t,
         AllLedAt(x, q, a, s, l, t), NEW u, Outcome(x, ts, b, u, a, s, l, t)
  PROVE  AllLed(u, q) /\ (Started(x, q) /\ (~b \/ ~x.spspps) => Started(u, q))
<1>1. CASE u = x
  BY <1>1
<1>2. CASE ~x.opened /\ u = a
  BY <1>2 DEF AllLedAt, LedAt
<1>3. CASE x.opened /\ u = Longer(x, ts)
  <2>1. SameFiles(x, u)
    BY <1>3, LongerLed
  <2>2. QED
    BY <2>1, SameFilesLed
<1>4. CASE x.opened /\ u = l /\ b
  BY <1>4 DEF AllLedAt, LedAt
<1>5. CASE x.opened /\ u = s
  BY <1>5 DEF AllLedAt, LedAt
<1>6. CASE x.opened /\ s.opened /\ u = t /\ b
  BY <1>6 DEF AllLedAt, LedAt
<1>7. QED
  BY <1>1, <1>2, <1>3, <1>4, <1>5, <1>6 DEF Outcome

LEMMA FragmentsInsideLed ==
  ASSUME NEW n \in Nat, NEW bad \in BOOLEAN, NEW disk \in BOOLEAN, disk \/ bad,
         NEW x, Sound(x, n, bad), NEW q, AllLed(x, q), NEW ts, ts = x.audioCacheTS,
         NEW a, NEW s, NEW l, NEW t, fragmentsInside(x, ts, disk, a, s, l, t)
  PROVE  AllLedAt(x, q, a, s, l, t)
<1>1. ts \in Nat
  BY SoundTypes
<1>2. ASSUME ~x.opened PROVE LedAt(x, a, q, TRUE)
  BY <1>2, OpenedInsideLed DEF fragmentsInside
<1>3. ASSUME NEW z, Sound(z, n, bad), z.opened, AllLed(z, q), z.audioCacheTS = ts,
             z.spspps = x.spspps, NEW d \in BOOLEAN,
             NEW o, o = reopenInside(closeFragment(z, FALSE, disk), ts, d, disk)
      PROVE  LedAt(x, o, q, d)
  <2> DEFINE c == closeFragment(z, FALSE, disk)
  <2>1. Sound(c, n, bad) /\ Shut(z, c)
    BY <1>3, ClosedSound
  <2>2. SameFiles(z, c)
    BY <1>3, ClosedLed
  <2>3. o = reopenInside(c, ts, d, disk)
    BY <1>3
  <2> HIDE DEF c
  <2>4. ~c.opened /\ c.audioCacheTS = ts /\ c.spspps = x.spspps
    BY <1>3, <2>1 DEF Shut, SameStreamer
  <2>5. AllLed(c, q)
    BY <1>3, <2>2, SameFilesLed
  <2>6. LedAt(c, o, q, d)
    BY <1>3, <2>1, <2>3, <2>4, <2>5, OpenedInsideLed
  <2>7. QED
    BY <2>4, <2>6, LedAtSame
<1>4. ASSUME x.opened PROVE LedAt(x, s, q, TRUE)
  BY <1>3, <1>4 DEF fragmentsInside
<1>5. ASSUME x.opened PROVE LedAt(x, l, q, FALSE)
  <2> DEFINE z == Longer(x, ts)
  <2>1. Sound(z, n, bad) /\ Grows(x, z, ts) /\ SameFiles(x, z)
    BY <1>1, <1>5, LongerSound, LongerLed
  <2>2. l = reopenInside(closeFragment(z, FALSE, disk), ts, FALSE, disk)
    BY DEF fragmentsInside
  <2> HIDE DEF z
  <2>3. z.opened /\ AllLed(z, q) /\ z.audioCacheTS = ts /\ z.spspps = x.spspps
    BY <2>1, SameFilesLed DEF Grows, Carries
  <2>4. QED
    BY <1>3, <2>1, <2>2, <2>3
<1>6. ASSUME x.opened, s.opened PROVE LedAt(x, t, q, FALSE)
  <2>1. Sound(s, n, bad) /\ Again(x, s, ts, disk)
    <3>1. Reopens(closeFragment(x, FALSE, disk), s, ts, n, bad, disk)
      <4> DEFINE c == closeFragment(x, FALSE, disk)
      <4>1. Sound(c, n, bad) /\ Shut(x, c)
        BY <1>6, ClosedSound
      <4>2. s = reopenInside(c, ts, TRUE, disk)
        BY DEF fragmentsInside
      <4> HIDE DEF c
      <4>3. ~c.opened /\ c.audioCacheTS = ts
        BY <4>1 DEF Shut, SameStreamer
      <4>4. Reopens(c, s, ts, n, bad, disk)
        BY <4>1, <4>2, <4>3, OpenedInside
      <4>5. QED
        BY <4>4 DEF c
    <3>2. QED
      BY <3>1, <1>1, <1>6, ReopenedSound
  <2>2. s.audioCacheTS = ts /\ s.spspps = x.spspps
    BY <2>1 DEF Again, Carries
  <2>3. AllLed(s, q)
    BY <1>4, <1>6 DEF LedAt
  <2>4. t = reopenInside(closeFragment(s, FALSE, disk), ts, FALSE, disk)
    BY DEF fragmentsInside
  <2>5. QED
    BY <1>3, <1>6, <2>1, <2>2, <2>3, <2>4
<1>7. QED
  BY <1>2, <1>4, <1>5, <1>6 DEF AllLedAt

LEMMA FlushLed ==
  ASSUME NEW n \in Nat, NEW bad \in BOOLEAN, NEW disk \in BOOLEAN, disk \/ bad,
         NEW x, Sound(x, n, bad), NEW q, AllLed(x, q)
  PROVE  /\ AllLed(FlushAudio(x, disk), q)
         /\ Started(x, q) => Started(FlushAudio(x, disk), q)
<1> DEFINE ts == x.audioCacheTS
           av == keptAudio(x)
           b == isBoundary(x, av)
           u == updateInside(x, ts, b, disk)
           y == FlushAudio(x, disk)
<1>1. CASE x.audioCache = <<>>
  BY <1>1 DEF FlushAudio, flush
<1>2. CASE x.audioCache # <<>>
  <2>1. av.ts = ts /\ av.msgs = x.audioCache /\ b = ~x.spspps /\ b \in BOOLEAN
    <3>1. av.kind = "audio"
      BY DEF keptAudio
    <3>2. QED
      BY <3>1, SoundTypes DEF keptAudio, isBoundary
  <2> HIDE DEF av, b
  <2>2. y = emptied(IF u.opened THEN write(u, x.audioCache) ELSE u)
    BY <1>2, <2>1 DEF FlushAudio, flush, OnFrame, updateInside, write, emptied, av, b
  <2>3. PICK a, s, l, t :
          /\ Reopened(x, ts, n, bad, disk, a, s, l, t) /\ Outcome(x, ts, b, u, a, s, l, t)
          /\ AllLedAt(x, q, a, s, l, t)
    <3> DEFINE a == reopenInside(x, ts, TRUE, disk)
               s == reopenInside(closeFragment(x, FALSE, disk), ts, TRUE, disk)
               l == reopenInside(closeFragment(Longer(x, ts), FALSE, disk), ts, FALSE, disk)
               t == reopenInside(closeFragment(s, FALSE, disk), ts, FALSE, disk)
    <3>1. fragmentsInside(x, ts, disk, a, s, l, t)
      BY DEF fragmentsInside
    <3> HIDE DEF a, s, l, t, ts, u
    <3>2. ts \in Nat /\ ts = x.audioCacheTS /\ b \in BOOLEAN
      BY <2>1, SoundTypes DEF ts
    <3>3. Reopened(x, ts, n, bad, disk, a, s, l, t)
      BY <3>1, <3>2, ReopenedInside
    <3>4. Outcome(x, ts, b, u, a, s, l, t)
      BY <3>1, <3>2, <3>3, UpdateInside DEF u
    <3>5. AllLedAt(x, q, a, s, l, t)
      BY <3>1, <3>2, FragmentsInsideLed
    <3>6. QED
      BY <3>3, <3>4, <3>5
  <2> HIDE DEF u, y
  <2>4. ts \in Nat
    BY SoundTypes
  <2>5. Sound(u, n, bad)
    BY <2>1, <2>3, <2>4, UpdateSound DEF Updates
  <2>6. AllLed(u, q) /\ (Started(x, q) => Started(u, q))
    BY <2>1, <2>3, <2>4, UpdateLed
  <2>7. /\ Typed(u, n) /\ DOMAIN u = Fields /\ x.audioCache \in Seq(1..n)
        /\ u.opened => u.segments # <<>>
    BY <2>5, SoundTypes
  <2>8. CASE ~u.opened
    BY <2>2, <2>6, <2>7, <2>8, EmptiedFields, EmptiedLed DEF y
  <2>9. CASE u.opened
    <3> DEFINE w == write(u, x.audioCache)
    <3>1. y = emptied(w)
      BY <2>2, <2>9
    <3>2. Writes(u, x.audioCache, w)
      BY <2>7, WriteFields
    <3> HIDE DEF w
    <3>3. Empties(w, y)
      BY <3>1, <3>2, EmptiedFields DEF Writes
    <3>4. CanTake(u, x.audioCache, q)
      BY DEF AllLed, CanTake
    <3>5. AllLed(w, q) /\ (Started(u, q) => Started(w, q))
      BY <2>6, <2>7, <2>9, <3>2, <3>4, WriteLed
    <3>6. AllLed(y, q) /\ (Started(w, q) => Started(y, q))
      BY <3>3, <3>5, EmptiedLed
    <3>7. QED
      BY <2>6, <3>5, <3>6 DEF y
  <2>10. QED
    BY <2>8, <2>9
<1>3. QED
  BY <1>1, <1>2

LEMMA OpenedAudioLed ==
  ASSUME NEW n \in Nat, NEW bad \in BOOLEAN, NEW disk \in BOOLEAN, disk \/ bad,
         NEW c, Sound(c, n, bad), ~c.opened, NEW q, AllLed(c, q), NEW ts \in Nat, NEW d \in BOOLEAN,
         NEW o, o = reopenAudio(c, ts, d, disk)
  PROVE  LedAt(c, o, q, d)
<1>1. CASE ~disk
  BY <1>1 DEF reopenAudio, LedAt, Started
<1>2. CASE disk
  <2> DEFINE y == opening(c, ts, d)
  <2>1. DOMAIN c = Fields /\ Typed(c, n)
    BY SoundTypes
  <2>2. Opens(c, ts, d, y)
    BY <2>1, OpeningFields
  <2>3. o = FlushAudio(y, disk)
    BY <1>2 DEF reopenAudio
  <2> HIDE DEF y
  <2>4. Sound(y, n, bad)
    BY <2>2, OpeningSound
  <2>5. LedAt(c, y, q, d)
    BY <2>1, <2>2, OpeningLed DEF LedAt
  <2>6. AllLed(o, q) /\ (Started(y, q) => Started(o, q))
    BY <2>3, <2>4, <2>5, FlushLed DEF LedAt
  <2>7. QED
    BY <2>5, <2>6 DEF LedAt
<1>3. QED
  BY <1>1, <1>2

LEMMA FragmentsAudioLed ==
  ASSUME NEW n \in Nat, NEW bad \in BOOLEAN, NEW disk \in BOOLEAN, disk \/ bad,
         NEW x, Sound(x, n, bad), NEW q, AllLed(x, q), NEW ts \in Nat, OnTime(x, ts),
         NEW a, NEW s, NEW l, NEW t, fragmentsAudio(x, ts, disk, a, s, l, t)
  PROVE  AllLedAt(x, q, a, s, l, t)
<1>1. ASSUME ~x.opened PROVE LedAt(x, a, q, TRUE)
  BY <1>1, OpenedAudioLed DEF fragmentsAudio
<1>2. ASSUME NEW z, Sound(z, n, bad), z.opened, AllLed(z, q), z.spspps = x.spspps,
             NEW d \in BOOLEAN,
             NEW o, o = reopenAudio(closeFragment(z, FALSE, disk), ts, d, disk)
      PROVE  LedAt(x, o, q, d)
  <2> DEFINE c == closeFragment(z, FALSE, disk)
  <2>1. Sound(c, n, bad) /\ SameFiles(z, c) /\ ~c.opened
    BY <1>2, ClosedSound, ClosedLed
  <2>2. o = reopenAudio(c, ts, d, disk)
    BY <1>2
  <2> HIDE DEF c
  <2>3. AllLed(c, q) /\ c.spspps = x.spspps
    BY <1>2, <2>1, SameFilesLed DEF SameFiles
  <2>4. LedAt(c, o, q, d)
    BY <1>2, <2>1, <2>2, <2>3, OpenedAudioLed
  <2>5. QED
    BY <2>3, <2>4, LedAtSame
<1>3. ASSUME x.opened PROVE LedAt(x, s, q, TRUE)
  BY <1>2, <1>3 DEF fragmentsAudio
<1>4. ASSUME x.opened PROVE LedAt(x, l, q, FALSE)
  <2> DEFINE z == Longer(x, ts)
  <2>1. Sound(z, n, bad) /\ Grows(x, z, ts) /\ SameFiles(x, z)
    BY <1>4, LongerSound, LongerLed
  <2>2. l = reopenAudio(closeFragment(z, FALSE, disk), ts, FALSE, disk)
    BY DEF fragmentsAudio
  <2> HIDE DEF z
  <2>3. z.opened /\ AllLed(z, q) /\ z.spspps = x.spspps
    BY <2>1, SameFilesLed DEF Grows, SameFiles
  <2>4. QED
    BY <1>2, <2>1, <2>2, <2>3
<1>5. ASSUME x.opened, s.opened PROVE LedAt(x, t, q, FALSE)
  <2>1. Reopens(closeFragment(x, FALSE, disk), s, ts, n, bad, disk)
    <3> DEFINE c == closeFragment(x, FALSE, disk)
    <3>1. Sound(c, n, bad) /\ Shut(x, c)
      BY <1>5, ClosedSound
    <3>2. s = reopenAudio(c, ts, TRUE, disk)
      BY DEF fragmentsAudio
    <3> HIDE DEF c
    <3>3. ~c.opened /\ OnTime(c, ts)
      BY <3>1 DEF Shut, SameStreamer, OnTime
    <3>4. Reopens(c, s, ts, n, bad, disk)
      BY <3>1, <3>2, <3>3, OpenedAudio
    <3>5. QED
      BY <3>4 DEF c
  <2>2. Sound(s, n, bad) /\ Again(x, s, ts, disk)
    BY <2>1, <1>5, ReopenedSound
  <2>3. s.spspps = x.spspps
    BY <2>2 DEF Again, Carries
  <2>4. AllLed(s, q)
    BY <1>3, <1>5 DEF LedAt
  <2>5. t = reopenAudio(closeFragment(s, FALSE, disk), ts, FALSE, disk)
    BY DEF fragmentsAudio
  <2>6. QED
    BY <1>2, <1>5, <2>2, <2>3, <2>4, <2>5
<1>6. QED
  BY <1>1, <1>3, <1>4, <1>5 DEF AllLedAt

LEMMA UpdateAudioLed ==
  ASSUME NEW n \in Nat, NEW bad \in BOOLEAN, NEW disk \in BOOLEAN, disk \/ bad,
         NEW x, Sound(x, n, bad), NEW q, AllLed(x, q), NEW ts \in Nat, OnTime(x, ts),
         NEW b \in BOOLEAN
  PROVE  /\ AllLed(updateAudio(x, ts, b, disk), q)
         /\ Started(x, q) /\ ~b => Started(updateAudio(x, ts, b, disk), q)
<1> DEFINE u == updateAudio(x, ts, b, disk)
           a == reopenAudio(x, ts, TRUE, disk)
           s == reopenAudio(closeFragment(x, FALSE, disk), ts, TRUE, disk)
           l == reopenAudio(closeFragment(Longer(x, ts), FALSE, disk), ts, FALSE, disk)
           t == reopenAudio(closeFragment(s, FALSE, disk), ts, FALSE, disk)
<1>1. fragmentsAudio(x, ts, disk, a, s, l, t)
  BY DEF fragmentsAudio
<1> HIDE DEF a, s, l, t
<1>2. Reopened(x, ts, n, bad, disk, a, s, l, t)
  BY <1>1, ReopenedAudio
<1>3. Outcome(x, ts, b, u, a, s, l, t)
  BY <1>1, <1>2, UpdateAudio
<1>4. AllLedAt(x, q, a, s, l, t)
  BY <1>1, FragmentsAudioLed
<1> HIDE DEF u
<1>5. AllLed(u, q) /\ (Started(x, q) /\ ~b => Started(u, q))
  BY <1>3, <1>4, UpdateLed
<1>6. QED
  BY <1>5 DEF u
----------------------------------------------------------------------------
(* The same of the feeds.  Message n + 1 of r is the one that is fed.       *)

LEMMA LedMore ==
  ASSUME NEW n \in Nat, NEW bad, NEW x, Sound(x, n, bad),
         NEW q \in Seq(Message), Len(q) = n, NEW msg \in Message, AllLed(x, q)
  PROVE  AllLed(x, Append(q, msg)) /\ (Started(x, q) => Started(x, Append(q, msg)))
<1> DEFINE r == Append(q, msg)
<1>1. \A k \in 1..n : r[k] = q[k]
  OBVIOUS
<1> HIDE DEF r
<1>2. /\ x.segments \in Seq(File(n)) /\ x.audioCache \in Seq(1..n)
      /\ x.opened => x.segments # <<>>
  BY SoundTypes
<1>3. Silent(x.audioCache, r)
  <2>1. Range(x.audioCache) \subseteq 1..n
    BY <1>2 DEF Range
  <2>2. QED
    BY <1>1, <2>1 DEF AllLed, Silent, Video
<1>4. ASSUME NEW i \in DOMAIN x.segments, NEW k \in DOMAIN x.segments[i].msgs
      PROVE  /\ Video(r, x.segments[i].msgs[k]) <=> Video(q, x.segments[i].msgs[k])
             /\ Key(r, x.segments[i].msgs[k]) <=> Key(q, x.segments[i].msgs[k])
  <2>1. x.segments[i] \in File(n)
    BY <1>2
  <2>2. x.segments[i].msgs[k] \in 1..n
    BY <2>1 DEF File
  <2>3. QED
    BY <1>1, <2>2 DEF Video, Key
<1>5. ASSUME NEW i \in DOMAIN x.segments PROVE Led(x.segments[i], r)
  <2> DEFINE msgs == x.segments[i].msgs
  <2>1. SUFFICES ASSUME Strict(x.segments[i]), NEW k \in DOMAIN msgs, Video(r, msgs[k])
                 PROVE  \E j \in 1..k : Key(r, msgs[j])
    BY DEF Led
  <2>2. Led(x.segments[i], q)
    BY <1>5 DEF AllLed
  <2>3. PICK j \in 1..k : Key(q, msgs[j])
    BY <1>4, <1>5, <2>1, <2>2 DEF Led
  <2>4. j \in DOMAIN msgs
    <3>1. x.segments[i] \in File(n)
      BY <1>2, <1>5
    <3>2. msgs \in Seq(1..n)
      BY <3>1 DEF File
    <3> HIDE DEF msgs
    <3>3. QED
      BY <2>1, <2>3, <3>2
  <2>5. QED
    BY <1>4, <1>5, <2>3, <2>4
<1>6. ASSUME x.opened, Keyed(LastFile(x), q) PROVE Keyed(LastFile(x), r)
  <2>1. Len(x.segments) \in DOMAIN x.segments
    BY <1>2, <1>6
  <2>2. QED
    BY <1>4, <1>6, <2>1 DEF Keyed, LastFile
<1>7. AllLed(x, r) /\ (Started(x, q) => Started(x, r))
  BY <1>3, <1>5, <1>6 DEF AllLed, Started
<1>8. QED
  BY <1>7 DEF r

\* At the end of a handler.
Fine(x, q) == AllLed(x, q) /\ Started(x, q)

LEMMA FlushOldFine ==
  ASSUME NEW n \in Nat, NEW bad \in BOOLEAN, NEW disk \in BOOLEAN, disk \/ bad,
         NEW x, Sound(x, n, bad), NEW q, Fine(x, q), NEW ts \in Nat, NEW delay \in Nat
  PROVE  Fine(flushOld(x, ts, delay, disk), q)
<1>1. Fine(FlushAudio(x, disk), q)
  BY FlushLed DEF Fine
<1>2. QED
  BY <1>1 DEF flushOld, keptTooLong

LEMMA OnVideoFine ==
  ASSUME NEW n \in Nat, NEW bad \in BOOLEAN, NEW disk \in BOOLEAN, disk \/ bad,
         NEW x, Sound(x, n, bad), NEW ts \in Nat, OnTime(x, ts), NEW key \in BOOLEAN,
         NEW r, Fine(x, r), Video(r, n + 1), r[n + 1].key = key
  PROVE  Fine(onVideo(x, videoFrame(n + 1, key, ts), disk), r)
<1> DEFINE i == n + 1
           av == videoFrame(i, key, ts)
           b == isBoundary(x, av)
           u == updateAudio(x, ts, b, disk)
           y == onVideo(x, av, disk)
<1>1. av.ts = ts /\ av.msgs = <<i>> /\ b \in BOOLEAN /\ i \in Nat /\ (~key => ~b)
  <2>1. av.kind # "audio" /\ av.key = key /\ av.ts = ts /\ av.msgs = <<i>>
    BY DEF videoFrame
  <2> HIDE DEF av
  <2>2. b \in BOOLEAN /\ (~key => ~b)
    BY <2>1, SoundTypes DEF isBoundary
  <2>3. QED
    BY <2>1, <2>2
<1> HIDE DEF av, b
<1>2. y = IF u.opened THEN write(u, <<i>>) ELSE u
  BY <1>1 DEF onVideo, OnFrame, updateAudio, write, b
<1>3. Sound(u, n, bad)
  BY <1>1, UpdateAudioSound DEF Updates
<1>4. AllLed(u, r) /\ (~key => Started(u, r))
  BY <1>1, UpdateAudioLed DEF Fine
<1> HIDE DEF u, y
<1>5. CASE ~u.opened
  <2>1. Fine(u, r)
    BY <1>4, <1>5 DEF Fine, Started
  <2>2. QED
    BY <1>2, <1>5, <2>1 DEF y, av, i
<1>6. CASE u.opened
  <2>1. Typed(u, i) /\ DOMAIN u = Fields /\ u.segments # <<>>
    BY <1>3, <1>6, SoundTypes, TypedMore
  <2>2. Writes(u, <<i>>, y)
    BY <1>2, <1>6, <2>1, WriteFields
  <2>3. <<i>> \in Seq(1..i)
    BY <1>1
  <2>4. Key(r, i) <=> key
    BY DEF Key, i
  <2> DEFINE msgs == <<i>>
  <2>5. CanTake(u, msgs, r)
    BY <1>4, <1>6, <2>4 DEF CanTake, Started
  <2>6. /\ AllLed(y, r)
        /\ u.opened /\ Started(u, r) => Started(y, r)
        /\ (\E j : msgs = <<j>> /\ Key(r, j)) => Started(y, r)
    <3> HIDE DEF msgs, i
    <3>1. i \in Nat /\ msgs \in Seq(1..i) /\ Writes(u, msgs, y)
      BY <1>1, <2>2, <2>3 DEF msgs
    <3>2. QED
      BY <1>4, <2>1, <2>5, <3>1, WriteLed
  <2>7. Started(y, r)
    BY <1>4, <1>6, <2>4, <2>6
  <2>8. QED
    BY <2>6, <2>7 DEF Fine, y, av, i
<1>7. QED
  BY <1>5, <1>6

\* Audio is kept with audio.
LEMMA SilentMore ==
  ASSUME NEW n \in Nat, NEW s \in Seq(1..n), NEW r, Silent(s, r), ~Video(r, n + 1)
  PROVE  Silent(Append(s, n + 1), r)
<1> DEFINE i == n + 1
<1>1. s \in Seq(1..i) /\ i \in 1..i
  OBVIOUS
<1> HIDE DEF i
<1>2. Range(Append(s, i)) = Range(s) \cup {i}
  BY <1>1, RangeOfAppend
<1>3. Silent(Append(s, i), r)
  BY <1>2 DEF Silent, i
<1>4. QED
  BY <1>3 DEF i

LEMMA MessageFine ==
  ASSUME NEW n \in Nat, NEW bad \in BOOLEAN, NEW disk \in BOOLEAN, disk \/ bad,
         NEW x, Sound(x, n, bad), NEW q \in Seq(Message), Len(q) = n, NEW msg \in Message,
         Fine(x, q)
  PROVE  Fine(FeedRTMPMessage(x, n + 1, msg, disk), Append(q, msg))
<1> DEFINE i == n + 1
           ts == msg.ts
           r == Append(q, msg)
           y == FeedRTMPMessage(x, i, msg, disk)
<1>1. ts \in Nat /\ msg.key \in BOOLEAN /\ msg.kind \in {"audio", "video"} /\ r[i] = msg
  BY DEF Message
<1>2. Fine(x, r)
  BY LedMore DEF Fine
<1> HIDE DEF r
<1>3. CASE y = x
  BY <1>2, <1>3 DEF r
<1>4. CASE msg.kind = "audio" /\ x.adts
  <2> DEFINE o == flushOld(x, ts, maxAudioCacheDelayByAudio, disk)
             z == cached(o, i, ts)
  <2>1. y = z
    BY <1>4 DEF FeedRTMPMessage, feedAudio
  <2>2. Fine(o, r)
    BY <1>1, <1>2, FlushOldFine, RingSizeFacts
  <2>a. Feeds(x, o, n, bad, disk)
    BY <1>1, FlushOldSound, RingSizeFacts
  <2>3. Sound(o, n, bad)
    BY <2>a DEF Feeds
  <2> HIDE DEF o, y
  <2>4. o.audioCache \in Seq(1..n)
    BY <2>3, SoundTypes
  <2>5. z.opened = o.opened /\ z.segments = o.segments /\ z.audioCache = Append(o.audioCache, i)
    <3>1. i = n + 1 /\ z = cached(o, i, ts)
      OBVIOUS
    <3> HIDE DEF i, z, ts
    <3>2. CachesNext(o, z, i, bad)
      BY <1>1, <2>3, <3>1, CachedSound
    <3>3. QED
      BY <3>2 DEF CachesNext
  <2> HIDE DEF z
  <2>6. ~Video(r, i)
    BY <1>1, <1>4 DEF Video
  <2>7. Silent(z.audioCache, r)
    BY <2>2, <2>4, <2>5, <2>6, SilentMore DEF Fine, AllLed
  <2>8. Fine(z, r)
    BY <2>2, <2>5, <2>7 DEF Fine, AllLed, Started, LastFile
  <2>9. QED
    BY <2>1, <2>8 DEF y, r
<1>5. CASE msg.kind # "audio" /\ ~(msg.key /\ ~x.spspps)
  <2> DEFINE o == flushOld(x, ts, maxAudioCacheDelayByVideo, disk)
             z == onVideo(o, videoFrame(i, msg.key, ts), disk)
  <2>b. y = feedVideo(x, i, msg.key, ts, disk)
    BY <1>5 DEF FeedRTMPMessage
  <2>c. feedVideo(x, i, msg.key, ts, disk) = z
    <3> DEFINE key == msg.key
    <3>1. ~(key /\ ~x.spspps)
      BY <1>5
    <3> HIDE DEF y, i, ts, key
    <3>2. feedVideo(x, i, key, ts, disk) = onVideo(o, videoFrame(i, key, ts), disk)
      BY <3>1 DEF feedVideo, onVideo, videoFrame
    <3>3. QED
      BY <3>2 DEF key
  <2>1. y = z
    BY <2>b, <2>c
  <2>2. Fine(o, r)
    BY <1>1, <1>2, FlushOldFine, RingSizeFacts
  <2>a. Feeds(x, o, n, bad, disk) /\ OnTime(o, ts)
    BY <1>1, FlushOldSound, RingSizeFacts
  <2>3. Sound(o, n, bad)
    BY <2>a DEF Feeds
  <2> HIDE DEF o, y
  <2>4. Video(r, i) /\ r[i].key = msg.key
    BY <1>1, <1>5 DEF Video
  <2>5. Fine(z, r)
    BY <1>1, <2>2, <2>a, <2>3, <2>4, OnVideoFine
  <2>6. QED
    BY <2>1, <2>5 DEF y, r
<1>6. CASE (msg.kind = "audio" /\ ~x.adts) \/ (msg.kind # "audio" /\ msg.key /\ ~x.spspps)
  <2>1. y = x
    BY <1>6 DEF FeedRTMPMessage, feedAudio, feedVideo
  <2>2. QED
    BY <1>3, <2>1
<1>7. QED
  BY <1>4, <1>5, <1>6

KeyInv == Fine(m, fed)

LEMMA FedOnceFine ==
  ASSUME HlsInv, KeyInv, FedOnce
  PROVE  KeyInv'
<1> DEFINE n == Len(fed)
<1>1. PICK msg \in Message, disk \in BOOLEAN :
        /\ fed' = Append(fed, msg)
        /\ diskFailed' = (diskFailed \/ ~disk)
        /\ m' = FeedRTMPMessage(m, Len(fed'), msg, disk)
  BY DEF FedOnce
<1>2. fed \in Seq(Message) /\ n \in Nat /\ Len(fed') = n + 1
  BY <1>1 DEF HlsInv
<1>3. diskFailed' \in BOOLEAN /\ (diskFailed => diskFailed') /\ (disk \/ diskFailed')
  BY <1>1 DEF HlsInv
<1>4. Sound(m, n, diskFailed')
  <2>1. Sound(m, n, diskFailed) /\ diskFailed \in BOOLEAN
    BY DEF HlsInv
  <2> HIDE DEF n
  <2>2. QED
    BY <2>1, <1>3, SoundWorse
<1> DEFINE y == FeedRTMPMessage(m, n + 1, msg, disk)
           bad == diskFailed'
<1>5. m' = y
  BY <1>1, <1>2
<1>6. Fine(y, Append(fed, msg))
  <2> HIDE DEF y, bad
  <2>1. bad \in BOOLEAN /\ (disk \/ bad) /\ Sound(m, n, bad) /\ Fine(m, fed)
    BY <1>3, <1>4 DEF bad, KeyInv
  <2>2. QED
    BY <1>2, <2>1, MessageFine DEF y
<1> HIDE DEF y
<1>7. QED
  BY <1>1, <1>5, <1>6 DEF KeyInv

LEMMA FeedHeaderFine ==
  ASSUME KeyInv, HlsInv, FeedHeader
  PROVE  KeyInv'
<1>1. DOMAIN m = Fields
  BY SoundTypes DEF HlsInv
<1>2. fed' = fed
  BY DEF FeedHeader
<1>3. m'.opened = m.opened /\ m'.segments = m.segments /\ m'.audioCache = m.audioCache
  <2>1. CASE m' = [m EXCEPT !.spspps = TRUE]
    BY <2>1, <1>1 DEF Fields
  <2>2. CASE m' = [m EXCEPT !.adts = TRUE]
    BY <2>2, <1>1 DEF Fields
  <2>3. QED
    BY <2>1, <2>2 DEF FeedHeader
<1>4. QED
  BY <1>2, <1>3 DEF KeyInv, Fine, AllLed, Started, LastFile

LEMMA DisposeFine ==
  ASSUME KeyInv, HlsInv, Dispose
  PROVE  KeyInv'
<1>1. PICK disk \in BOOLEAN : m' = closeFragment(FlushAudio(m, disk), TRUE, disk)
  BY DEF Dispose
<1>2. fed' = fed
  BY DEF Dispose
<1> DEFINE n == Len(fed)
           bad == diskFailed \/ ~disk
           o == FlushAudio(m, disk)
           y == closeFragment(o, TRUE, disk)
<1>3. n \in Nat /\ bad \in BOOLEAN /\ (disk \/ bad) /\ Sound(m, n, bad)
  <2>1. fed \in Seq(Message) /\ diskFailed \in BOOLEAN /\ Sound(m, n, diskFailed)
    BY DEF HlsInv
  <2>2. n \in Nat
    BY <2>1
  <2> HIDE DEF n
  <2>3. QED
    BY <2>1, <2>2, SoundWorse
<1> HIDE DEF n, bad
<1>4. Fine(o, fed)
  BY <1>3, FlushLed DEF KeyInv, Fine
<1>5. Feeds(m, o, n, bad, disk)
  BY <1>3, FlushFeeds
<1>6. m' = y
  BY <1>1
<1> HIDE DEF o
<1>7. Sound(o, n, bad)
  BY <1>5 DEF Feeds
<1>8. CASE ~o.opened
  BY <1>2, <1>4, <1>6, <1>8 DEF closeFragment, KeyInv
<1>9. CASE o.opened
  <2>1. SameFiles(o, y)
    BY <1>7, <1>9, ClosedLed
  <2> HIDE DEF y
  <2>2. Fine(y, fed)
    BY <1>4, <2>1, SameFilesLed DEF Fine
  <2>3. QED
    BY <1>2, <1>6, <2>2 DEF KeyInv
<1>10. QED
  BY <1>8, <1>9

\* Of the messages r, which n + 1 may be the last.
LEMMA DropsFine ==
  ASSUME NEW n \in Nat, NEW bad, NEW o, Sound(o, n, bad), NEW r, Fine(o, r),
         NEW msg, r[n + 1] = msg, NEW y, Drops(o, y, n + 1, msg)
  PROVE  Fine(y, r)
<1>1. y.opened = o.opened /\ y.segments = o.segments
  BY DEF Drops, SameFragment
<1>2. Silent(<<>>, r) /\ Silent(o.audioCache, r) /\ <<>> \in Seq(1..n)
      /\ o.audioCache \in Seq(1..n)
  BY SoundTypes DEF Fine, AllLed, Silent, Range
<1>3. Silent(y.audioCache, r)
  <2>1. CASE y.audioCache \in {<<>>, o.audioCache}
    BY <1>2, <2>1
  <2>2. ASSUME msg.kind = "audio", NEW s \in {<<>>, o.audioCache}, y.audioCache = Append(s, n + 1)
        PROVE  Silent(y.audioCache, r)
    <3>1. ~Video(r, n + 1)
      BY <2>2 DEF Video
    <3>2. s \in Seq(1..n) /\ Silent(s, r)
      BY <1>2, <2>2
    <3>3. QED
      BY <2>2, <3>1, <3>2, SilentMore
  <2>3. QED
    BY <2>1, <2>2 DEF Drops
<1>4. QED
  BY <1>1, <1>3 DEF Fine, AllLed, Started, LastFile

LEMMA FedLostFine ==
  ASSUME HlsInv, KeyInv, FedLost
  PROVE  KeyInv'
<1> DEFINE n == Len(fed)
<1>a. PICK msg \in Message, disk \in BOOLEAN :
      \E o \in {m, flushOld(m, msg.ts, maxAudioCacheDelayByVideo, disk)} :
        /\ fed' = Append(fed, msg)
        /\ o.opened /\ Sound(o, n, TRUE) /\ o.adts = m.adts
        /\ Drops(o, m', n + 1, msg)
  BY DEF FedLost
<1>1. PICK o \in {m, flushOld(m, msg.ts, maxAudioCacheDelayByVideo, disk)} :
        /\ fed' = Append(fed, msg)
        /\ o.opened /\ Sound(o, n, TRUE) /\ o.adts = m.adts
        /\ Drops(o, m', n + 1, msg)
  BY <1>a
<1>2. fed \in Seq(Message) /\ n \in Nat /\ fed'[n + 1] = msg /\ msg.ts \in Nat
  BY <1>1 DEF HlsInv, Message
<1>3. Sound(m, n, TRUE)
  <2>1. Sound(m, n, diskFailed) /\ diskFailed \in BOOLEAN
    BY DEF HlsInv
  <2>2. QED
    BY <2>1, SoundWorse
<1>4. Fine(o, fed)
  <2> HIDE DEF n
  <2>1. Fine(flushOld(m, msg.ts, maxAudioCacheDelayByVideo, disk), fed)
    BY <1>2, <1>3, FlushOldFine, RingSizeFacts DEF KeyInv
  <2>2. QED
    BY <1>1, <2>1 DEF KeyInv
<1>5. Fine(o, fed')
  BY <1>1, <1>2, <1>4, LedMore DEF Fine
<1>6. Fine(m', fed')
  <2> HIDE DEF n
  <2>1. QED
    BY <1>1, <1>2, <1>5, DropsFine
<1>7. QED
  BY <1>6 DEF KeyInv

LEMMA EndLostFine ==
  ASSUME HlsInv, KeyInv, EndLost
  PROVE  KeyInv'
<1> DEFINE n == Len(fed)
<1>a. PICK disk \in BOOLEAN : \E o \in {m, FlushAudio(m, disk)} :
        /\ fed' = fed
        /\ Spares(o, m')
  BY DEF EndLost
<1>1. PICK o \in {m, FlushAudio(m, disk)} :
        /\ fed' = fed
        /\ Spares(o, m')
  BY <1>a
<1>2. fed \in Seq(Message) /\ n \in Nat
  BY DEF HlsInv
<1>3. Sound(m, n, TRUE)
  <2>1. Sound(m, n, diskFailed) /\ diskFailed \in BOOLEAN
    BY DEF HlsInv
  <2>2. QED
    BY <2>1, SoundWorse
<1> HIDE DEF n
<1>4. Fine(o, fed)
  <2>1. Fine(FlushAudio(m, disk), fed)
    BY <1>2, <1>3, FlushLed DEF KeyInv, Fine
  <2>2. QED
    BY <1>1, <2>1 DEF KeyInv
<1>5. Silent(<<>>, fed)
  BY DEF Silent, Range
<1>6. Fine(m', fed)
  BY <1>1, <1>4, <1>5 DEF Spares, SameFragment, Fine, AllLed, Started, LastFile
<1>7. QED
  BY <1>1, <1>6 DEF KeyInv

\* A player that joins at a fragment of a stream with video, unless a jump of the
\* timestamps forced the split, can decode it from the first video frame on (the boundary
\* that muxer.go's OnFrame computes), also when opening it flushed audio, and gets no
\* message twice: the flush that comes back through onFrame while a fragment is opened
\* (FlushAudio) doubles audio only where it opens the fragment itself.
THEOREM FragmentsStandAlone == Spec => []StandsAlone
<1>1. Init => KeyInv
  <2>1. SUFFICES ASSUME Init PROVE KeyInv
    OBVIOUS
  <2>2. m.segments = <<>> /\ m.audioCache = <<>> /\ m.opened = FALSE
    BY <2>1 DEF Init
  <2>3. QED
    BY <2>2 DEF KeyInv, Fine, AllLed, Started, Silent, Range
<1>2. HlsInv /\ KeyInv /\ [Next]_vars => KeyInv'
  <2>1. SUFFICES ASSUME HlsInv, KeyInv, [Next]_vars PROVE KeyInv'
    OBVIOUS
  <2>2. CASE UNCHANGED vars
    BY <2>1, <2>2 DEF vars, KeyInv
  <2>3. ASSUME NEW key \in BOOLEAN, FeedVideo(key) PROVE KeyInv'
    BY <2>1, <2>3, FeedIsFedOnce, FedOnceFine DEF FeedVideo
  <2>4. CASE FeedAudio
    BY <2>1, <2>4, FeedIsFedOnce, FedOnceFine DEF FeedAudio
  <2>5. CASE FeedHeader
    BY <2>1, <2>5, FeedHeaderFine
  <2>6. CASE Dispose
    BY <2>1, <2>6, DisposeFine
  <2>7. ASSUME NEW key \in BOOLEAN, FeedVideoLost(key) PROVE KeyInv'
    BY <2>1, <2>7, FeedLostIsFedLost, FedLostFine DEF FeedVideoLost
  <2>8. CASE FeedAudioLost
    BY <2>1, <2>8, FeedLostIsFedLost, FedLostFine DEF FeedAudioLost
  <2>9. CASE DisposeLost
    BY <2>1, <2>9, DisposeLostIsEndLost, EndLostFine
  <2>10. QED
    BY <2>1, <2>2, <2>3, <2>4, <2>5, <2>6, <2>7, <2>8, <2>9 DEF Next
<1>3. KeyInv => BeginsWithKeyFrame
  BY DEF KeyInv, Fine, AllLed, Led, Strict, Video, Key, KeyFrame, BeginsWithKeyFrame
<1>4. HlsInv => WrittenOnceAfterKeyFrame
  BY DEF HlsInv, Sound, Strictly, Strict, WrittenOnceAfterKeyFrame
<1>5. HlsInv /\ KeyInv => StandsAlone
  BY <1>3, <1>4 DEF StandsAlone
<1>6. QED
  BY <1>1, <1>2, <1>5, HlsAlways, PTL DEF Spec
----------------------------------------------------------------------------
(* The flush inside a flush.                                               *)

BeginsAlike(c, ts, d, disk) == reopenAudio(c, ts, d, disk) = reopenInside(c, ts, d, disk)

\* A fragment begun with the time of the audio that is kept.
LEMMA SameOpening ==
  ASSUME NEW n \in Nat, NEW bad \in BOOLEAN, NEW disk \in BOOLEAN,
         NEW c, Sound(c, n, bad), ~c.opened, NEW ts, ts = c.audioCacheTS, NEW d \in BOOLEAN
  PROVE  BeginsAlike(c, ts, d, disk)
<1>1. CASE ~disk
  BY <1>1 DEF BeginsAlike, reopenAudio, reopenInside
<1>2. CASE disk
  <2> DEFINE y == opening(c, ts, d)
  <2>1. DOMAIN c = Fields /\ ts \in Nat
    BY SoundTypes
  <2>2. Opens(c, ts, d, y)
    BY <2>1, OpeningFields
  <2>3. reopenAudio(c, ts, d, disk) = FlushAudio(y, disk)
        /\ reopenInside(c, ts, d, disk) = flushInside(y, disk)
    BY <1>2 DEF reopenAudio, reopenInside
  <2> HIDE DEF y
  <2>4. Begins(c, d, y)
    BY <2>1, <2>2, OpeningSound
  <2>5. y.opened /\ y.fragTS = ts /\ y.audioCacheTS = ts /\ y.frags[getCurrFrag(y)].duration = 0
    BY <2>2, <2>4 DEF Opens, Begins, SameStreamer
  <2>6. QED
    BY <2>1, <2>3, <2>5, InsideEnds DEF BeginsAlike
<1>3. QED
  BY <1>1, <1>2

\* And one that was closed first.
LEMMA SameReopening ==
  ASSUME NEW n \in Nat, NEW bad \in BOOLEAN, NEW disk \in BOOLEAN, disk \/ bad,
         NEW x, Sound(x, n, bad), x.opened, NEW ts, ts = x.audioCacheTS, NEW d \in BOOLEAN
  PROVE  BeginsAlike(closeFragment(x, FALSE, disk), ts, d, disk)
<1> DEFINE c == closeFragment(x, FALSE, disk)
<1>1. Sound(c, n, bad) /\ Shut(x, c)
  BY ClosedSound
<1> HIDE DEF c
<1>2. ~c.opened /\ c.audioCacheTS = ts
  BY <1>1 DEF Shut, SameStreamer
<1>3. BeginsAlike(c, ts, d, disk)
  BY <1>1, <1>2, SameOpening
<1>4. QED
  BY <1>3 DEF c

LEMMA SameUpdate ==
  ASSUME NEW n \in Nat, NEW bad \in BOOLEAN, NEW disk \in BOOLEAN, disk \/ bad,
         NEW x, Sound(x, n, bad), NEW ts, ts = x.audioCacheTS, NEW b \in BOOLEAN
  PROVE  updateAudio(x, ts, b, disk) = updateInside(x, ts, b, disk)
<1> DEFINE f == getCurrFrag(x)
           u == updateInside(x, ts, b, disk)
           v == updateAudio(x, ts, b, disk)
<1>0. ts \in Nat
  BY SoundTypes
<1> HIDE DEF u, v
<1>1. CASE ~x.opened
  <2> DEFINE a == reopenInside(x, ts, TRUE, disk)
  <2>1. a = reopenAudio(x, ts, TRUE, disk)
    <3>1. BeginsAlike(x, ts, TRUE, disk)
      BY <1>1, SameOpening
    <3>2. QED
      BY <3>1 DEF BeginsAlike
  <2>2. u = IF b THEN a ELSE x
    BY <1>1 DEF u, updateInside, updateFragment, openFragment, reopenInside
  <2>3. v = IF b THEN reopenAudio(x, ts, TRUE, disk) ELSE x
    BY <1>1 DEF v, updateAudio, updateFragment, openFragment, reopenAudio
  <2> HIDE DEF a
  <2>4. QED
    BY <2>1, <2>2, <2>3 DEF u, v
<1>2. CASE x.opened /\ ~forced(x, ts)
  <2> DEFINE z == Longer(x, ts)
             l == reopenInside(closeFragment(z, FALSE, disk), ts, FALSE, disk)
  <2>1. u = IF z.frags[f].duration < FragmentDuration \/ ~b THEN z ELSE l
    BY <1>2 DEF u, updateInside, updateFragment, openFragment, reopenInside, Longer, lengthen
  <2>2. v = IF z.frags[f].duration < FragmentDuration \/ ~b THEN z
            ELSE reopenAudio(closeFragment(z, FALSE, disk), ts, FALSE, disk)
    BY <1>2 DEF v, updateAudio, updateFragment, openFragment, reopenAudio, Longer, lengthen
  <2>3. Sound(z, n, bad) /\ Grows(x, z, ts)
    BY <1>0, <1>2, LongerSound
  <2> HIDE DEF z
  <2>4. z.opened /\ z.audioCacheTS = ts
    BY <2>3 DEF Grows, Carries
  <2>5. l = reopenAudio(closeFragment(z, FALSE, disk), ts, FALSE, disk)
    <3>1. BeginsAlike(closeFragment(z, FALSE, disk), ts, FALSE, disk)
      BY <2>3, <2>4, SameReopening
    <3>2. QED
      BY <3>1 DEF BeginsAlike
  <2> HIDE DEF l
  <2>6. QED
    BY <2>1, <2>2, <2>5 DEF u, v
<1>3. CASE x.opened /\ forced(x, ts)
  <2> DEFINE c == closeFragment(x, FALSE, disk)
             s == reopenInside(c, ts, TRUE, disk)
             t == reopenInside(closeFragment(s, FALSE, disk), ts, FALSE, disk)
  <2>1. s = reopenAudio(c, ts, TRUE, disk)
    <3>1. BeginsAlike(c, ts, TRUE, disk)
      BY <1>3, SameReopening
    <3>2. QED
      BY <3>1 DEF BeginsAlike
  <2>2. Reopens(c, s, ts, n, bad, disk)
    <3>1. Sound(c, n, bad) /\ Shut(x, c)
      BY <1>3, ClosedSound
    <3> HIDE DEF c
    <3>2. ~c.opened /\ c.audioCacheTS = ts
      BY <3>1 DEF Shut, SameStreamer
    <3>3. QED
      BY <3>1, <3>2, OpenedInside
  <2>3. s = openFragment(flushInside, c, ts, TRUE, disk)
    BY DEF openFragment, reopenInside
  <2>4. s = openFragment(FlushAudio, c, ts, TRUE, disk)
    BY <2>1 DEF openFragment, reopenAudio
  <2> HIDE DEF c, s
  <2>5. CASE ~s.opened
    <3>1. u = s
      BY <1>3, <2>3, <2>5 DEF u, updateInside, updateFragment, c
    <3>2. v = s
      BY <1>3, <2>4, <2>5 DEF v, updateAudio, updateFragment, c
    <3>3. QED
      BY <3>1, <3>2 DEF u, v
  <2>6. CASE s.opened
    <3>1. Sound(s, n, bad) /\ Again(x, s, ts, disk)
      BY <1>0, <1>3, <2>2, ReopenedSound DEF c
    <3>2. disk /\ s.fragTS >= ts /\ s.audioCacheTS = ts
      BY <2>6, <3>1 DEF Again, Carries
    <3>3. f \in Slots /\ s.frags \in [Slots -> Fragment] /\ s.fragTS \in Nat
      BY <3>1, SoundTypes
    <3>4. s.frags[f].duration \in Nat
      BY <3>3 DEF Fragment
    <3>5. ~(ts - s.fragTS > s.frags[f].duration)
      <4> DEFINE len == s.frags[f].duration
                 from == s.fragTS
      <4>1. len \in Nat /\ from \in Nat /\ from >= ts
        BY <3>2, <3>3, <3>4
      <4> HIDE DEF len, from
      <4>2. ~(ts - from > len)
        BY <1>0, <4>1
      <4>3. QED
        BY <4>2 DEF len, from
    <3>6. u = IF s.frags[f].duration < FragmentDuration \/ ~b THEN s ELSE t
      BY <1>3, <2>3, <2>6, <3>5 DEF u, updateInside, updateFragment, openFragment, reopenInside, c
    <3>7. v = IF s.frags[f].duration < FragmentDuration \/ ~b THEN s
              ELSE reopenAudio(closeFragment(s, FALSE, disk), ts, FALSE, disk)
      BY <1>3, <2>4, <2>6, <3>5 DEF v, updateAudio, updateFragment, openFragment, reopenAudio, c
    <3>8. t = reopenAudio(closeFragment(s, FALSE, disk), ts, FALSE, disk)
      <4>1. BeginsAlike(closeFragment(s, FALSE, disk), ts, FALSE, disk)
        BY <2>6, <3>1, <3>2, SameReopening
      <4>2. QED
        BY <4>1 DEF BeginsAlike
    <3> HIDE DEF t
    <3>9. QED
      BY <3>6, <3>7, <3>8 DEF u, v
  <2>7. QED
    BY <2>5, <2>6
<1>4. QED
  BY <1>1, <1>2, <1>3, SoundTypes

\* openFragment flushes the streamer, which hands the muxer a frame, for which
\* openFragment may flush again: FlushAudio, which goes one level down and stops, is
\* what the code's mutual recursion (streamer.go FlushAudio, muxer.go openFragment)
\* computes, in every state the muxer can be in and whether files can be created or not.
THEOREM FlushOfAFlush ==
  ASSUME NEW n \in Nat, NEW bad \in BOOLEAN, NEW disk \in BOOLEAN, disk \/ bad,
         NEW x, Sound(x, n, bad)
  PROVE  FlushAudio(x, disk) = flush(FlushAudio, x, disk)
<1> DEFINE av == keptAudio(x)
           ts == x.audioCacheTS
           b == isBoundary(x, av)
<1>1. av.ts = ts
  BY DEF keptAudio
<1>2. b \in BOOLEAN
  BY SoundTypes DEF isBoundary, keptAudio
<1> HIDE DEF av, b
<1>3. updateAudio(x, ts, b, disk) = updateInside(x, ts, b, disk)
  BY <1>2, SameUpdate
<1>4. OnFrame(FlushAudio, x, av, disk) = OnFrame(flushInside, x, av, disk)
  BY <1>1, <1>3 DEF OnFrame, updateAudio, updateInside, b
<1>5. flush(FlushAudio, x, disk) = flush(flushInside, x, disk)
  BY <1>4 DEF flush, av
<1>6. QED
  BY <1>5 DEF FlushAudio
----------------------------------------------------------------------------
(* TS packets.                                                             *)

Positions == 0..(PacketSize - 1)


LEMMA WriteAt ==
  ASSUME NEW p, DOMAIN p = Positions, NEW pos \in Nat, NEW s, NEW n \in Nat, DOMAIN s = 1..n
  PROVE  /\ DOMAIN Write(p, pos, s) = Positions
         /\ \A i \in Positions : i < pos => Write(p, pos, s)[i] = p[i]
         /\ \A i \in Positions : i >= pos + n => Write(p, pos, s)[i] = p[i]
         /\ \A i \in 1..n : pos + i <= PacketSize => Write(p, pos, s)[pos + i - 1] = s[i]
<1> DEFINE w == Write(p, pos, s)
<1>0. PacketSize \in Nat
  BY TsConstants
<1>1. w = [i \in Positions |-> IF i - pos + 1 \in 1..n THEN s[i - pos + 1] ELSE p[i]]
  BY DEF Write
<1> HIDE DEF w
<1>2. DOMAIN w = Positions
  BY <1>1
<1>3. ASSUME NEW i \in Positions, i < pos \/ i >= pos + n PROVE w[i] = p[i]
  <2>1. i - pos + 1 \notin 1..n
    BY <1>0, <1>3 DEF Positions
  <2>2. QED
    BY <1>1, <2>1
<1>4. ASSUME NEW i \in 1..n, pos + i <= PacketSize PROVE w[pos + i - 1] = s[i]
  <2>1. pos + i - 1 \in Positions /\ (pos + i - 1) - pos + 1 = i
    BY <1>0, <1>4 DEF Positions
  <2>2. QED
    BY <1>1, <2>1
<1>5. QED
  BY <1>2, <1>3, <1>4 DEF w

\* The cells s, n of them, were written to p from pos on, where there was room.
Wrote(p, pos, s, n, w) ==
  /\ DOMAIN w = Positions
  /\ \A i \in Positions : i < pos => w[i] = p[i]
  /\ \A i \in Positions : i >= pos + n => w[i] = p[i]
  /\ \A i \in 1..n : pos + i <= PacketSize => w[pos + i - 1] = s[i]

LEMMA WriteWrote ==
  ASSUME NEW p, DOMAIN p = Positions, NEW pos \in Nat, NEW s, NEW n \in Nat, DOMAIN s = 1..n
  PROVE  Wrote(p, pos, s, n, Write(p, pos, s))
<1> DEFINE w == Write(p, pos, s)
<1>1. /\ DOMAIN w = Positions
      /\ \A i \in Positions : i < pos => w[i] = p[i]
      /\ \A i \in Positions : i >= pos + n => w[i] = p[i]
      /\ \A i \in 1..n : pos + i <= PacketSize => w[pos + i - 1] = s[i]
  BY WriteAt
<1> HIDE DEF w
<1>2. Wrote(p, pos, s, n, w)
  BY <1>1 DEF Wrote
<1>3. QED
  BY <1>2 DEF w

\* The cells of p from a up to b.
LEMMA CutAt ==
  ASSUME NEW p, NEW a \in Int, NEW b \in Int
  PROVE  /\ DOMAIN Cut(p, a, b) = 1..(b - a)
         /\ \A i \in 1..(b - a) : Cut(p, a, b)[i] = p[a + i - 1]
BY DEF Cut

LEMMA CutSeq ==
  ASSUME NEW p, NEW a \in Int, NEW b \in Int, a <= b
  PROVE  Len(Cut(p, a, b)) = b - a
<1>1. b - a \in Nat
  OBVIOUS
<1>2. DOMAIN Cut(p, a, b) = 1..(b - a)
  BY CutAt
<1>3. QED
  BY <1>1, <1>2

----------------------------------------------------------------------------
(* The headers.                                                            *)

FrameRecord ==
  [pid : Pids, key : BOOLEAN, size : Nat, pts : Times, dts : Times, cc : Nat,
   first : BOOLEAN, lpos : Nat, from : Nat, began : BOOLEAN]


LEMMA SeqOfMore ==
  ASSUME NEW S, NEW T, S \subseteq T, NEW s \in Seq(S)
  PROVE  s \in Seq(T)
<1>1. \A i \in 1..Len(s) : s[i] \in T
  OBVIOUS
<1>2. QED
  BY <1>1

LEMMA Four ==
  ASSUME NEW a, NEW b, NEW c, NEW d
  PROVE  LET s == <<a, b, c, d>> IN
         s \in Seq({a, b, c, d}) /\ Len(s) = 4 /\ s[1] = a /\ s[2] = b /\ s[3] = c /\ s[4] = d
OBVIOUS

LEMMA Five ==
  ASSUME NEW a, NEW b, NEW c, NEW d, NEW e
  PROVE  LET s == <<a, b, c, d, e>> IN
         s \in Seq({a, b, c, d, e}) /\ Len(s) = 5 /\ s[1] = a /\ s[2] = b
OBVIOUS

LEMMA Nine ==
  ASSUME NEW a, NEW b, NEW c, NEW d, NEW e, NEW f, NEW g, NEW h, NEW k
  PROVE  LET s == <<a, b, c, d, e, f, g, h, k>> IN
         /\ s \in Seq({a, b, c, d, e, f, g, h, k}) /\ Len(s) = 9
         /\ s[1] = a /\ s[5] = e /\ s[6] = f /\ s[8] = h /\ s[9] = k
OBVIOUS

LEMMA PairAt ==
  ASSUME NEW a, NEW b
  PROVE  <<a, b>>[2] = b
OBVIOUS

LEMMA TripleAt ==
  ASSUME NEW a, NEW b, NEW c
  PROVE  <<a, b, c>>[2] = b
OBVIOUS

\* What packPTS writes in five cells, the first of which holds the high bits.
TimeIn(c, t) == (c[1][2] \div 2) % 8 = t.high /\ c[2][2] = t.low

LEMMA TimeCells ==
  ASSUME Highs \subseteq {0}, NEW fb \in {1, 2, 3}, NEW t \in Times
  PROVE  /\ Len(packPTS(fb, t)) = 5 /\ \E S : packPTS(fb, t) \in Seq(S)
         /\ TimeIn(packPTS(fb, t), t)
<1>1. t.high = 0 /\ t \in [high : Highs, low : {0, 1}]
  BY DEF Times
<1> DEFINE c == <<"time", fb * 16 + 1>>
           l == <<"low", t.low>>
           s == packPTS(fb, t)
<1>2. s = <<c, l, l, l, l>>
  BY <1>1 DEF packPTS
<1>3. c[2] = fb * 16 + 1 /\ l[2] = t.low
  OBVIOUS
<1> HIDE DEF c, l, s
<1>4. s \in Seq({c, l, l, l, l}) /\ Len(s) = 5 /\ s[1] = c /\ s[2] = l
  BY <1>2, Five
<1>5. ((fb * 16 + 1) \div 2) % 8 = 0
  OBVIOUS
<1>6. TimeIn(s, t)
  BY <1>1, <1>3, <1>4, <1>5 DEF TimeIn
<1>7. QED
  BY <1>4, <1>6 DEF s

LEMMA SplitSize ==
  ASSUME NEW n \in Nat
  PROVE  (n \div 256) * 256 + (n % 256) = n
<1>1. n = 256 * (n \div 256) + (n % 256)
  BY DivMod
<1>2. QED
  BY <1>1

\* The first nine cells, of a frame with one or two times.
nine(f, pesSize, n) ==
  <<<<"prefix", 1>>, <<"prefix", 2>>, <<"prefix", 3>>, <<"sid", f.pid>>,
    <<"pesHigh", pesSize \div 256>>, <<"pesLow", pesSize % 256>>,
    <<"marker">>, <<"flags", f.dts # f.pts>>, <<"length", n>>>>

Begins9(s, f, pesSize, n) ==
  /\ s[1] = <<"prefix", 1>> /\ s[5][2] * 256 + s[6][2] = pesSize
  /\ s[8][2] = (f.dts # f.pts) /\ s[9][2] = n

LEMMA NineCells ==
  ASSUME NEW f, NEW pesSize \in Nat, NEW n
  PROVE  LET s == nine(f, pesSize, n) IN
         /\ Len(s) = 9 /\ (\E S : s \in Seq(S)) /\ Begins9(s, f, pesSize, n)
<1> DEFINE c1 == <<"prefix", 1>>
           c2 == <<"prefix", 2>>
           c3 == <<"prefix", 3>>
           c4 == <<"sid", f.pid>>
           c5 == <<"pesHigh", pesSize \div 256>>
           c6 == <<"pesLow", pesSize % 256>>
           c7 == <<"marker">>
           c8 == <<"flags", f.dts # f.pts>>
           c9 == <<"length", n>>
           s == nine(f, pesSize, n)
<1>1. s = <<c1, c2, c3, c4, c5, c6, c7, c8, c9>>
  BY DEF nine
<1>2. c5[2] = pesSize \div 256 /\ c6[2] = pesSize % 256 /\ c8[2] = (f.dts # f.pts) /\ c9[2] = n
  BY PairAt
<1>3. c1 = <<"prefix", 1>>
  OBVIOUS
<1> HIDE DEF c1, c2, c3, c4, c5, c6, c7, c8, c9, s
<1>4. /\ s \in Seq({c1, c2, c3, c4, c5, c6, c7, c8, c9}) /\ Len(s) = 9
      /\ s[1] = c1 /\ s[5] = c5 /\ s[6] = c6 /\ s[8] = c8 /\ s[9] = c9
  BY <1>1, Nine
<1>5. Begins9(s, f, pesSize, n)
  BY <1>2, <1>3, <1>4, SplitSize DEF Begins9
<1>6. QED
  BY <1>4, <1>5 DEF s

\* A second sequence is appended to a first one of n cells.
Follows(s, n, t, k, w) ==
  /\ Len(w) = n + k /\ DOMAIN w = 1..(n + k)
  /\ \A i \in 1..n : w[i] = s[i]
  /\ \A i \in 1..k : w[n + i] = t[i]

LEMMA Appended ==
  ASSUME NEW n \in Nat, NEW k \in Nat, NEW s, NEW t, Len(s) = n, Len(t) = k,
         \E S : s \in Seq(S), \E S : t \in Seq(S)
  PROVE  Follows(s, n, t, k, s \o t) /\ (\E S : s \o t \in Seq(S))
<1>1. PICK A : s \in Seq(A)
  OBVIOUS
<1>2. PICK B : t \in Seq(B)
  OBVIOUS
<1>3. s \in Seq(A \cup B) /\ t \in Seq(A \cup B)
  BY <1>1, <1>2, SeqOfMore
<1> DEFINE S == A \cup B
           w == s \o t
<1> HIDE DEF S
<1>4. s \in Seq(S) /\ t \in Seq(S)
  BY <1>3 DEF S
<1>a. /\ w \in Seq(S) /\ Len(w) = Len(s) + Len(t)
      /\ \A i \in 1..Len(s) : w[i] = s[i]
      /\ \A i \in 1..Len(t) : w[Len(s) + i] = t[i]
  <2>1. w \in Seq(S) /\ Len(w) = Len(s) + Len(t)
    BY <1>4
  <2>2. \A i \in 1..Len(s) : w[i] = s[i]
    BY <1>4
  <2>3. \A i \in 1..Len(t) : w[Len(s) + i] = t[i]
    BY <1>4
  <2>4. QED
    BY <2>1, <2>2, <2>3
<1> HIDE DEF w
<1>5. /\ w \in Seq(S) /\ Len(w) = n + k
      /\ \A i \in 1..n : w[i] = s[i]
      /\ \A i \in 1..k : w[n + i] = t[i]
  BY <1>a
<1>6. DOMAIN w = 1..(n + k)
  BY <1>5
<1>7. Follows(s, n, t, k, w)
  BY <1>5, <1>6 DEF Follows
<1>8. QED
  BY <1>5, <1>7 DEF w

LEMMA TimeRead ==
  ASSUME NEW t \in Times, NEW c, TimeIn(c, t), NEW b, NEW i \in Nat,
         b[i] = c[1], b[i + 1] = c[2]
  PROVE  readPTS(b, i) = t
<1>1. readPTS(b, i) = [high |-> t.high, low |-> t.low]
  BY DEF readPTS, TimeIn
<1>2. t = [high |-> t.high, low |-> t.low]
  BY DEF Times
<1>3. QED
  BY <1>1, <1>2

Both(f) == f.dts # f.pts
TimesSize(f) == IF Both(f) THEN 10 ELSE 5
PESSize(f) ==
  LET whole == f.size + TimesSize(f) + 3 IN IF whole > 65535 THEN 0 ELSE whole

\* What the reader takes from a PES header at the beginning of b.
Tells(b, f) ==
  /\ Begins9(b, f, PESSize(f), TimesSize(f))
  /\ readPTS(b, 10) = f.pts
  /\ Both(f) => readPTS(b, 15) = f.dts

LEMMA TellsParsed ==
  ASSUME NEW f \in FrameRecord, NEW b, Tells(b, f)
  PROVE  /\ b[1] = <<"prefix", 1>>
         /\ ParsePES(b).pts = f.pts /\ ParsePES(b).dts = f.dts
         /\ ParsePES(b).length = 9 + TimesSize(f)
         /\ ParsePES(b).ppl # 0 => 6 + ParsePES(b).ppl = ParsePES(b).length + f.size
<1> DEFINE pes == ParsePES(b)
<1>1. /\ b[1] = <<"prefix", 1>> /\ b[5][2] * 256 + b[6][2] = PESSize(f)
      /\ b[8][2] = (f.dts # f.pts) /\ b[9][2] = TimesSize(f)
      /\ readPTS(b, 10) = f.pts /\ (f.dts # f.pts => readPTS(b, 15) = f.dts)
  BY DEF Tells, Begins9, Both
<1>2. pes.ppl = PESSize(f) /\ pes.pts = f.pts /\ pes.length = 9 + TimesSize(f)
  BY <1>1 DEF ParsePES
<1>3. pes.dts = IF b[8][2] THEN readPTS(b, 15) ELSE f.pts
  BY <1>1 DEF ParsePES
<1>4. pes.dts = f.dts
  <2>1. CASE f.dts # f.pts
    <3>1. b[8][2] = TRUE
      BY <1>1, <2>1
    <3>2. QED
      BY <1>1, <1>3, <2>1, <3>1
  <2>2. CASE f.dts = f.pts
    <3>1. b[8][2] = FALSE
      BY <1>1, <2>2
    <3>2. QED
      BY <1>3, <2>2, <3>1
  <2>3. QED
    BY <2>1, <2>2
<1> HIDE DEF pes
<1>5. pes.ppl # 0 => 6 + pes.ppl = pes.length + f.size
  <2>1. f.size \in Nat /\ TimesSize(f) \in Nat
    BY DEF FrameRecord, TimesSize
  <2>2. pes.ppl # 0 => PESSize(f) = f.size + TimesSize(f) + 3
    BY <1>2, <2>1 DEF PESSize
  <2>3. QED
    BY <1>2, <2>1, <2>2
<1>6. QED
  BY <1>1, <1>2, <1>4, <1>5 DEF pes

\* The header, whatever follows it.
TellsBegun(h, f) ==
  \A b : (\A i \in 1..(9 + TimesSize(f)) : b[i] = h[i]) => Tells(b, f)

LEMMA HeaderTells ==
  ASSUME Highs \subseteq {0}, NEW f \in FrameRecord, f.first
  PROVE  /\ Len(PESHeader(f)) = 9 + TimesSize(f) /\ (\E S : PESHeader(f) \in Seq(S))
         /\ TellsBegun(PESHeader(f), f)
<1> DEFINE n == TimesSize(f)
           size == PESSize(f)
           h == PESHeader(f)
           s == nine(f, size, n)
           p == packPTS(IF Both(f) THEN 3 ELSE 2, f.pts)
           d == packPTS(1, f.dts)
           sp == s \o p
<1>1. f.pts \in Times /\ f.dts \in Times /\ f.size \in Nat
  BY DEF FrameRecord
<1>2. n \in Nat /\ size \in Nat /\ (Both(f) => n = 10) /\ (~Both(f) => n = 5)
  BY <1>1 DEF TimesSize, PESSize
<1>3. h = sp \o (IF Both(f) THEN d ELSE <<>>)
  <2>1. CASE Both(f)
    BY <2>1 DEF PESHeader, nine, Both, TimesSize, PESSize
  <2>2. CASE ~Both(f)
    BY <2>2 DEF PESHeader, nine, Both, TimesSize, PESSize
  <2>3. QED
    BY <2>1, <2>2
<1>4. Len(s) = 9 /\ (\E S : s \in Seq(S)) /\ Begins9(s, f, size, n)
  BY <1>2, NineCells
<1>5. Len(p) = 5 /\ (\E S : p \in Seq(S)) /\ TimeIn(p, f.pts)
  BY <1>1, TimeCells
<1>6. Len(d) = 5 /\ (\E S : d \in Seq(S)) /\ TimeIn(d, f.dts)
  BY <1>1, TimeCells
<1> HIDE DEF n, size, h, s, p, d
<1>7. Follows(s, 9, p, 5, sp) /\ (\E S : sp \in Seq(S))
  BY <1>4, <1>5, Appended
<1> HIDE DEF sp
<1>8. /\ Len(sp) = 14 /\ \A i \in 1..9 : sp[i] = s[i]
      /\ sp[10] = p[1] /\ sp[11] = p[2]
  <2>1. Len(sp) = 14 /\ \A i \in 1..9 : sp[i] = s[i]
    BY <1>7 DEF Follows
  <2>2. \A i \in 1..5 : sp[9 + i] = p[i]
    BY <1>7 DEF Follows
  <2>3. sp[9 + 1] = p[1] /\ sp[9 + 2] = p[2]
    BY <2>2
  <2>4. QED
    BY <2>1, <2>3
<1>9. /\ Len(h) = 9 + n /\ (\E S : h \in Seq(S))
      /\ \A i \in 1..14 : h[i] = sp[i]
      /\ Both(f) => h[15] = d[1] /\ h[16] = d[2]
  <2>1. CASE Both(f)
    <3>1. h = sp \o d
      BY <1>3, <2>1
    <3>a. 14 \in Nat /\ 5 \in Nat /\ Len(sp) = 14 /\ Len(d) = 5
          /\ (\E S : sp \in Seq(S)) /\ (\E S : d \in Seq(S))
      BY <1>6, <1>7, <1>8
    <3>b. Follows(sp, 14, d, 5, sp \o d) /\ (\E S : sp \o d \in Seq(S))
      BY <3>a, Appended
    <3>2. Follows(sp, 14, d, 5, h) /\ (\E S : h \in Seq(S))
      BY <3>1, <3>b
    <3>3. Len(h) = 19 /\ \A i \in 1..14 : h[i] = sp[i]
      BY <3>2 DEF Follows
    <3>4. \A i \in 1..5 : h[14 + i] = d[i]
      BY <3>2 DEF Follows
    <3>5. h[14 + 1] = d[1] /\ h[14 + 2] = d[2]
      BY <3>4
    <3>6. QED
      BY <1>2, <2>1, <3>2, <3>3, <3>5
  <2>2. CASE ~Both(f)
    <3>1. h = sp
      BY <1>3, <1>7, <2>2
    <3>2. QED
      BY <1>2, <1>7, <1>8, <2>2, <3>1
  <2>3. QED
    BY <2>1, <2>2
<1>10. ASSUME NEW b, \A i \in 1..(9 + n) : b[i] = h[i]
       PROVE  Tells(b, f)
  <2>1. \A i \in 1..14 : b[i] = sp[i]
    <3>1. \A i \in 1..14 : i \in 1..(9 + n)
      BY <1>2
    <3>2. QED
      BY <1>9, <1>10, <3>1
  <2>2. b[1] = s[1] /\ b[5] = s[5] /\ b[6] = s[6] /\ b[8] = s[8] /\ b[9] = s[9]
    BY <1>8, <2>1
  <2>3. Begins9(b, f, size, n)
    BY <1>4, <2>2 DEF Begins9
  <2>4. b[10] = p[1] /\ b[11] = p[2]
    BY <1>8, <2>1
  <2>5. readPTS(b, 10) = f.pts
    <3>1. b[10 + 1] = p[2]
      BY <2>4
    <3>2. QED
      BY <1>1, <1>5, <2>4, <3>1, TimeRead
  <2>6. ASSUME Both(f) PROVE readPTS(b, 15) = f.dts
    <3>1. 15 \in 1..(9 + n) /\ 16 \in 1..(9 + n)
      BY <1>2, <2>6
    <3>2. b[15] = d[1] /\ b[15 + 1] = d[2]
      BY <1>9, <1>10, <2>6, <3>1
    <3>3. QED
      BY <1>1, <1>6, <3>2, TimeRead
  <2>7. QED
    BY <2>3, <2>5, <2>6 DEF Tells, size, n
<1>11. QED
  BY <1>9, <1>10 DEF TellsBegun, h, n

\* The cells of a packet before the frame's own bytes: how many of an adaptation field,
\* how many of a PES header, and what they are.
AdaptationSize(f) == IF f.first /\ f.key THEN 8 ELSE 0
PESHeaderSize(f) == IF f.first THEN 9 + TimesSize(f) ELSE 0

HeadersOf(f) == TSHeader(f) \o Adaptation(f) \o PESHeader(f)

IsFront(w, f) ==
  LET a == AdaptationSize(f)
      e == PESHeaderSize(f)
  IN /\ DOMAIN w = 1..(4 + a + e) /\ Len(w) = 4 + a + e
     /\ w[4] = <<"control", f.first /\ f.key, f.cc % 16>>
     /\ f.first /\ f.key => w[5] = <<"length", 7>> /\ \A i \in 1..6 : w[6 + i] = <<"pcr", i>>
     /\ \A i \in 1..e : w[4 + a + i] = PESHeader(f)[i]

LEMMA AdaptationCells ==
  ASSUME NEW f, f.first /\ f.key
  PROVE  /\ Len(Adaptation(f)) = 8 /\ (\E S : Adaptation(f) \in Seq(S))
         /\ Adaptation(f)[1] = <<"length", 7>>
         /\ \A i \in 1..6 : Adaptation(f)[2 + i] = <<"pcr", i>>
<1> DEFINE c == <<"length", 7>>
           d == <<"randomAccess">>
           s == <<c, d>>
           t == [i \in 1..6 |-> <<"pcr", i>>]
           w == Adaptation(f)
<1>1. w = s \o t
  BY DEF Adaptation
<1>2. s[1] = <<"length", 7>>
  OBVIOUS
<1>3. Len(s) = 2 /\ s \in Seq({c, d})
  <2> HIDE DEF c, d
  <2>1. QED
    OBVIOUS
<1>4. t \in Seq({<<"pcr", i>> : i \in 1..6}) /\ Len(t) = 6
  OBVIOUS
<1>5. \A i \in 1..6 : t[i] = <<"pcr", i>>
  OBVIOUS
<1> HIDE DEF s, t, w
<1>6. \E S : s \in Seq(S)
  BY <1>3
<1>7. \E S : t \in Seq(S)
  BY <1>4
<1>8. Follows(s, 2, t, 6, w) /\ (\E S : w \in Seq(S))
  BY <1>1, <1>3, <1>4, <1>6, <1>7, Appended
<1>9. Len(w) = 8 /\ w[1] = s[1] /\ \A i \in 1..6 : w[2 + i] = t[i]
  <2>1. Len(w) = 2 + 6 /\ (\A i \in 1..2 : w[i] = s[i]) /\ \A i \in 1..6 : w[2 + i] = t[i]
    BY <1>8 DEF Follows
  <2>2. QED
    BY <2>1
<1>10. QED
  BY <1>2, <1>5, <1>8, <1>9 DEF w

LEMMA FrontIs ==
  ASSUME Highs \subseteq {0}, NEW f \in FrameRecord
  PROVE  IsFront(HeadersOf(f), f)
<1> DEFINE a == AdaptationSize(f)
           e == PESHeaderSize(f)
           s == TSHeader(f)
           t == Adaptation(f)
           h == PESHeader(f)
           st == s \o t
           w == st \o h
<1>1. f.first \in BOOLEAN /\ f.key \in BOOLEAN
  BY DEF FrameRecord
<1>2. a \in Nat /\ e \in Nat /\ a >= 0 /\ e >= 0
  BY DEF AdaptationSize, PESHeaderSize, TimesSize
<1>3. Len(s) = 4 /\ (\E S : s \in Seq(S)) /\ s[4] = <<"control", f.first /\ f.key, f.cc % 16>>
  <2> DEFINE c1 == <<"sync">>
             c2 == <<"start", f.first>>
             c3 == <<"pid", f.pid>>
             c4 == <<"control", f.first /\ f.key, f.cc % 16>>
  <2>1. s = <<c1, c2, c3, c4>>
    BY DEF TSHeader
  <2> HIDE DEF c1, c2, c3, c4, s
  <2>2. s \in Seq({c1, c2, c3, c4}) /\ Len(s) = 4 /\ s[4] = c4
    BY <2>1, Four
  <2>3. QED
    BY <2>2 DEF c4
<1>4. /\ Len(t) = a /\ (\E S : t \in Seq(S))
      /\ f.first /\ f.key => t[1] = <<"length", 7>> /\ \A i \in 1..6 : t[2 + i] = <<"pcr", i>>
  <2>1. CASE f.first /\ f.key
    BY <2>1, AdaptationCells DEF AdaptationSize
  <2>2. CASE ~(f.first /\ f.key)
    <3>1. t = <<>> /\ a = 0
      BY <2>2 DEF Adaptation, AdaptationSize
    <3>2. <<>> \in Seq({})
      OBVIOUS
    <3> HIDE DEF t, a
    <3>3. QED
      BY <2>2, <3>1, <3>2
  <2>3. QED
    BY <2>1, <2>2
<1>5. Len(h) = e /\ (\E S : h \in Seq(S))
  <2>1. CASE f.first
    BY <2>1, HeaderTells DEF PESHeaderSize
  <2>2. CASE ~f.first
    <3>1. h = <<>> /\ e = 0
      BY <2>2 DEF PESHeader, PESHeaderSize
    <3>2. <<>> \in Seq({})
      OBVIOUS
    <3> HIDE DEF h, e
    <3>3. QED
      BY <3>1, <3>2
  <2>3. QED
    BY <1>1, <2>1, <2>2
<1> HIDE DEF a, e, s, t, h
<1>6. Follows(s, 4, t, a, st) /\ (\E S : st \in Seq(S))
  BY <1>2, <1>3, <1>4, Appended
<1> HIDE DEF st
<1>7. Len(st) = 4 + a /\ 4 + a \in Nat
  BY <1>2, <1>6 DEF Follows
<1>8. Follows(st, 4 + a, h, e, w)
  BY <1>2, <1>5, <1>6, <1>7, Appended
<1>9. w = HeadersOf(f)
  BY DEF HeadersOf, st, s, t, h
<1> HIDE DEF w
<1>10. /\ DOMAIN w = 1..(4 + a + e) /\ Len(w) = 4 + a + e
       /\ \A i \in 1..(4 + a) : w[i] = st[i]
       /\ \A i \in 1..e : w[4 + a + i] = h[i]
  BY <1>8 DEF Follows
<1>11. (\A i \in 1..4 : st[i] = s[i]) /\ \A i \in 1..a : st[4 + i] = t[i]
  BY <1>6 DEF Follows
<1>12. w[4] = <<"control", f.first /\ f.key, f.cc % 16>>
  <2>1. 4 \in 1..(4 + a)
    BY <1>2
  <2>2. w[4] = st[4] /\ st[4] = s[4]
    BY <1>10, <1>11, <2>1
  <2>3. QED
    BY <1>3, <2>2
<1>13. ASSUME f.first /\ f.key
       PROVE  w[5] = <<"length", 7>> /\ \A i \in 1..6 : w[6 + i] = <<"pcr", i>>
  <2>1. a = 8
    BY <1>13 DEF a, AdaptationSize
  <2>2. \A i \in 1..8 : w[4 + i] = t[i]
    <3>1. \A i \in 1..8 : 4 + i \in 1..(4 + a)
      BY <2>1
    <3>2. \A i \in 1..8 : st[4 + i] = t[i]
      BY <1>11, <2>1
    <3>3. QED
      BY <1>10, <3>1, <3>2
  <2>3. w[4 + 1] = t[1]
    BY <2>2
  <2>4. ASSUME NEW i \in 1..6 PROVE w[6 + i] = <<"pcr", i>>
    <3>1. 2 + i \in 1..8 /\ 4 + (2 + i) = 6 + i
      OBVIOUS
    <3>2. w[6 + i] = t[2 + i]
      BY <2>2, <3>1
    <3>3. QED
      BY <1>4, <1>13, <3>2
  <2>5. QED
    BY <1>4, <1>13, <2>3, <2>4
<1>14. QED
  BY <1>9, <1>10, <1>12, <1>13 DEF IsFront, a, e, h
----------------------------------------------------------------------------
(* A packet.                                                               *)

\* The payload of packet q begins at position st: f's PES header, if it is f's first,
\* and k bytes of f, to the end.
Carried(q, f, k, st) ==
  LET e == PESHeaderSize(f) IN
  /\ DOMAIN q = Positions /\ st \in Nat /\ k \in Nat /\ st + e + k = PacketSize
  /\ (IF q[3][2] THEN 5 + q[4][2] ELSE 4) = st
  /\ \A i \in 1..e : q[st + i - 1] = PESHeader(f)[i]
  /\ \A i \in 1..k : q[st + e + i - 1] = <<"raw", f.lpos + i>>
  /\ f.first /\ f.key => \A i \in 1..6 : q[5 + i] = <<"pcr", i>>

\* What is left of the frame, as far as a packet may hold it.
LEMMA RawCells ==
  ASSUME NEW f \in FrameRecord, f.lpos <= f.size, NEW k \in Nat,
         k <= PacketSize, k <= f.size - f.lpos
  PROVE  \E c \in Nat : k <= c /\ DOMAIN Raw(f) = 1..c
                        /\ (k = f.size - f.lpos => c = k)
                        /\ \A i \in 1..k : Raw(f)[i] = <<"raw", f.lpos + i>>
<1> DEFINE left == f.size - f.lpos
           c == IF left > PacketSize THEN PacketSize ELSE left
<1>1. left \in Nat /\ PacketSize \in Nat
  BY TsConstants DEF FrameRecord
<1>2. Raw(f) = [i \in 1..c |-> <<"raw", f.lpos + i>>]
  BY DEF Raw
<1>3. c \in Nat /\ k <= c /\ (k = left => c = k)
  BY <1>1
<1> HIDE DEF c, left
<1>4. \A i \in 1..k : i \in 1..c
  BY <1>3
<1>5. DOMAIN Raw(f) = 1..c /\ \A i \in 1..k : Raw(f)[i] = <<"raw", f.lpos + i>>
  BY <1>2, <1>4
<1>6. QED
  BY <1>3, <1>5 DEF left

LEMMA Sizes9 ==
  ASSUME NEW f \in FrameRecord
  PROVE  /\ AdaptationSize(f) \in Nat /\ PESHeaderSize(f) \in Nat /\ TimesSize(f) \in {5, 10}
         /\ 4 + AdaptationSize(f) + PESHeaderSize(f) < PacketSize
         /\ PacketSize \in Nat /\ PacketSize > 31
BY TsConstants DEF AdaptationSize, PESHeaderSize, TimesSize

\* The headers have been written.
LEMMA HeadersWritten ==
  ASSUME Highs \subseteq {0}, NEW f \in FrameRecord, NEW p, DOMAIN p = Positions,
         NEW w, w = Write(p, 0, HeadersOf(f))
  PROVE  LET n == 4 + AdaptationSize(f) + PESHeaderSize(f) IN
         /\ Len(HeadersOf(f)) = n /\ DOMAIN w = Positions
         /\ \A i \in 1..n : w[i - 1] = HeadersOf(f)[i]
<1> DEFINE n == 4 + AdaptationSize(f) + PESHeaderSize(f)
           h == HeadersOf(f)
<1>1. n \in Nat /\ n < PacketSize
  BY Sizes9
<1>2. DOMAIN h = 1..n /\ Len(h) = n
  BY FrontIs DEF IsFront
<1> HIDE DEF n, h
<1>3. /\ DOMAIN w = Positions
      /\ \A i \in 1..n : 0 + i <= PacketSize => w[0 + i - 1] = h[i]
  BY <1>1, <1>2, WriteAt DEF h
<1>4. \A i \in 1..n : w[i - 1] = h[i]
  BY <1>1, <1>3, Sizes9
<1>5. QED
  BY <1>2, <1>3, <1>4 DEF n, h

\* Of the frame there is enough to fill it.
LEMMA FullPacket ==
  ASSUME Highs \subseteq {0}, NEW f \in FrameRecord, f.lpos <= f.size,
         NEW p, DOMAIN p = Positions,
         NEW n, n = Len(HeadersOf(f)), PacketSize - n <= f.size - f.lpos,
         NEW q, q = Write(Write(p, 0, HeadersOf(f)), n, Raw(f))
  PROVE  Carried(q, f, PacketSize - n, 4 + AdaptationSize(f))
<1> DEFINE w == Write(p, 0, HeadersOf(f))
           h == HeadersOf(f)
           a == AdaptationSize(f)
           e == PESHeaderSize(f)
           k == PacketSize - n
           st == 4 + a
<1>1. a \in Nat /\ e \in Nat /\ PacketSize \in Nat /\ PacketSize > 31 /\ 4 + a + e < PacketSize
  BY Sizes9
<1>2. n = 4 + a + e /\ DOMAIN w = Positions /\ \A i \in 1..n : w[i - 1] = h[i]
  BY HeadersWritten
<1>3. /\ h[4] = <<"control", f.first /\ f.key, f.cc % 16>>
      /\ f.first /\ f.key => h[5] = <<"length", 7>> /\ \A i \in 1..6 : h[6 + i] = <<"pcr", i>>
      /\ \A i \in 1..e : h[4 + a + i] = PESHeader(f)[i]
  BY FrontIs DEF IsFront
<1>4. q = Write(w, n, Raw(f))
  OBVIOUS
<1>a. f.first /\ f.key => a = 8
  BY DEF AdaptationSize
<1>b. ~(f.first /\ f.key) => a = 0
  BY DEF AdaptationSize
<1> HIDE DEF w, h, a, e
<1>5. k \in Nat /\ k <= PacketSize /\ n \in Nat
  BY <1>1, <1>2
<1>6. PICK c \in Nat : /\ k <= c /\ DOMAIN Raw(f) = 1..c
                       /\ \A i \in 1..k : Raw(f)[i] = <<"raw", f.lpos + i>>
  BY <1>5, RawCells
<1>7. /\ DOMAIN q = Positions
      /\ \A i \in Positions : i < n => q[i] = w[i]
      /\ \A i \in 1..c : n + i <= PacketSize => q[n + i - 1] = Raw(f)[i]
  BY <1>2, <1>4, <1>5, <1>6, WriteAt
<1>8. \A i \in 1..n : q[i - 1] = h[i]
  <2>1. TAKE i \in 1..n
  <2>2. i - 1 \in Positions /\ i - 1 < n
    BY <1>1, <1>2 DEF Positions
  <2>3. QED
    BY <1>2, <1>7, <2>2
<1>9. \A i \in 1..k : q[n + i - 1] = <<"raw", f.lpos + i>>
  <2>1. TAKE i \in 1..k
  <2>2. i \in 1..c /\ n + i <= PacketSize
    BY <1>1, <1>2, <1>5, <1>6
  <2>3. QED
    BY <1>6, <1>7, <2>2
<1>10. \A i \in 1..e : q[st + i - 1] = PESHeader(f)[i]
  <2>1. TAKE i \in 1..e
  <2>2. 4 + a + i \in 1..n /\ (4 + a + i) - 1 = st + i - 1
    BY <1>1, <1>2
  <2>3. QED
    BY <1>3, <1>8, <2>2
<1>11. q[3] = <<"control", f.first /\ f.key, f.cc % 16>>
  <2>1. 4 \in 1..n
    BY <1>1, <1>2
  <2>2. q[4 - 1] = h[4]
    BY <1>8, <2>1
  <2>3. QED
    BY <1>3, <2>2
<1>c. q[3][2] = (f.first /\ f.key)
  BY <1>11, TripleAt
<1>12. CASE f.first /\ f.key
  <2>1. a = 8 /\ q[3][2]
    BY <1>a, <1>c, <1>12
  <2>2. q[4] = <<"length", 7>>
    <3>1. 5 \in 1..n
      BY <1>1, <1>2, <2>1
    <3>2. q[5 - 1] = h[5]
      BY <1>8, <3>1
    <3>3. QED
      BY <1>3, <1>12, <3>2
  <2>3. q[4][2] = 7
    BY <2>2
  <2>4. (IF q[3][2] THEN 5 + q[4][2] ELSE 4) = st
    BY <2>1, <2>3
  <2>5. ASSUME NEW i \in 1..6 PROVE q[5 + i] = <<"pcr", i>>
    <3>1. 6 + i \in 1..n /\ (6 + i) - 1 = 5 + i
      BY <1>1, <1>2, <2>1
    <3>2. q[5 + i] = h[6 + i]
      BY <1>8, <3>1
    <3>3. QED
      BY <1>3, <1>12, <3>2
  <2>6. QED
    BY <1>1, <1>2, <1>5, <1>7, <1>9, <1>10, <2>4, <2>5 DEF Carried, a, e
<1>13. CASE ~(f.first /\ f.key)
  <2>1. a = 0 /\ ~q[3][2]
    BY <1>b, <1>c, <1>13
  <2>2. (IF q[3][2] THEN 5 + q[4][2] ELSE 4) = st
    BY <2>1
  <2>3. QED
    BY <1>1, <1>2, <1>5, <1>7, <1>9, <1>10, <1>13, <2>2 DEF Carried, a, e
<1>14. QED
  BY <1>12, <1>13

\* An adaptation field of g bytes that is all stuffing.
field(g) ==
  <<<<"length", g - 1>>>> \o (IF g >= 2 THEN <<<<"zero">>>> \o Stuffing(g - 2) ELSE <<>>)

LEMMA One ==
  ASSUME NEW a
  PROVE  <<a>> \in Seq({a}) /\ Len(<<a>>) = 1 /\ <<a>>[1] = a
OBVIOUS

LEMMA FieldCells ==
  ASSUME NEW g \in Nat, g >= 1
  PROVE  DOMAIN field(g) = 1..g /\ field(g)[1] = <<"length", g - 1>>
<1> DEFINE c == <<"length", g - 1>>
           z == <<"zero">>
           s == <<c>>
           t == IF g >= 2 THEN <<z>> \o Stuffing(g - 2) ELSE <<>>
           w == s \o t
<1>1. s \in Seq({c}) /\ Len(s) = 1 /\ s[1] = c
  BY One
<1>2. Len(t) = g - 1 /\ (\E S : t \in Seq(S))
  <2>1. CASE g >= 2
    <3> DEFINE y == <<z>>
               x == Stuffing(g - 2)
    <3>1. g - 2 \in Nat
      BY <2>1
    <3>2. x \in Seq({<<"0xFF">>}) /\ Len(x) = g - 2
      BY <3>1 DEF Stuffing
    <3>3. y \in Seq({z}) /\ Len(y) = 1
      BY One
    <3>4. t = y \o x
      BY <2>1
    <3> HIDE DEF x, y, t
    <3>5. Follows(y, 1, x, g - 2, t) /\ (\E S : t \in Seq(S))
      BY <3>1, <3>2, <3>3, <3>4, Appended
    <3>6. QED
      BY <3>1, <3>5 DEF Follows
  <2>2. CASE ~(g >= 2)
    <3>1. t = <<>> /\ g - 1 = 0
      BY <2>2
    <3>2. <<>> \in Seq({})
      OBVIOUS
    <3> HIDE DEF t
    <3>3. QED
      BY <3>1, <3>2
  <2>3. QED
    BY <2>1, <2>2
<1>3. w = field(g)
  BY DEF field
<1> HIDE DEF s, t, w
<1>4. g - 1 \in Nat /\ 1 + (g - 1) = g
  OBVIOUS
<1>5. Follows(s, 1, t, g - 1, w)
  BY <1>1, <1>2, <1>4, Appended DEF w
<1>6. DOMAIN w = 1..g /\ w[1] = s[1]
  BY <1>4, <1>5 DEF Follows
<1>7. QED
  BY <1>1, <1>3, <1>6

\* The frame ends within the packet: its bytes, and a PES header, move to the end.
LEMMA StuffedPacket ==
  ASSUME Highs \subseteq {0}, NEW f \in FrameRecord, f.lpos <= f.size, ~(f.first /\ f.key),
         NEW p, DOMAIN p = Positions,
         NEW n, n = Len(HeadersOf(f)), NEW k, k = f.size - f.lpos, PacketSize - n > k,
         NEW s, s = stuff(Write(p, 0, HeadersOf(f)), n, PacketSize - n - k),
         NEW q, q = Write(s.packet, s.wpos, Raw(f))
  PROVE  Carried(q, f, k, 4 + (PacketSize - n - k))
<1> DEFINE w == Write(p, 0, HeadersOf(f))
           h == HeadersOf(f)
           e == PESHeaderSize(f)
           g == PacketSize - n - k
           st == 4 + g
           cut == Cut(w, 4, n)
           moved == Write(w, 4 + g, cut)
           control == <<"control", TRUE, w[3][3]>>
           flagged == Write(moved, 3, <<control>>)
           r == Write(flagged, 4, field(g))
<1>1. e \in Nat /\ PacketSize \in Nat /\ PacketSize > 31 /\ 4 + e < PacketSize
      /\ AdaptationSize(f) = 0 /\ k \in Nat
  <2>1. AdaptationSize(f) = 0
    BY DEF AdaptationSize
  <2>2. f.size \in Nat /\ f.lpos \in Nat
    BY DEF FrameRecord
  <2>3. k \in Nat
    BY <2>2
  <2>4. e \in Nat /\ PacketSize \in Nat /\ PacketSize > 31 /\ 4 + AdaptationSize(f) + e < PacketSize
    BY Sizes9
  <2> HIDE DEF e
  <2>5. 4 + e < PacketSize
    BY <2>1, <2>4
  <2>6. QED
    BY <2>1, <2>3, <2>4, <2>5
<1>2. n = 4 + e /\ DOMAIN w = Positions /\ \A i \in 1..n : w[i - 1] = h[i]
  BY <1>1, HeadersWritten
<1>3. /\ h[4] = <<"control", f.first /\ f.key, f.cc % 16>>
      /\ \A i \in 1..e : h[4 + i] = PESHeader(f)[i]
  <2>1. \A i \in 1..e : h[4 + AdaptationSize(f) + i] = PESHeader(f)[i]
    BY FrontIs DEF IsFront
  <2>2. \A i \in 1..e : 4 + AdaptationSize(f) + i = 4 + i
    BY <1>1
  <2>3. QED
    BY <2>1, <2>2, FrontIs DEF IsFront
<1> HIDE DEF h, e
<1>4. g \in Nat /\ g >= 1 /\ n \in Nat /\ n >= 4 /\ st + e + k = PacketSize /\ n + g + k = PacketSize
  BY <1>1, <1>2
<1>5. ~w[3][2]
  <2>1. 4 \in 1..n
    BY <1>4
  <2>2. w[4 - 1] = h[4]
    BY <1>2, <2>1
  <2>3. w[3] = <<"control", f.first /\ f.key, f.cc % 16>>
    BY <1>3, <2>2
  <2>4. w[3][2] = (f.first /\ f.key)
    BY <2>3, TripleAt
  <2>5. QED
    BY <2>4
<1>6. s.packet = r /\ s.wpos = n + g
  <2>1. s = [packet |-> r, wpos |-> n + g]
    BY <1>5 DEF stuff, field
  <2> HIDE DEF r, g
  <2>2. QED
    BY <2>1
<1>7. q = Write(r, n + g, Raw(f))
  BY <1>6
<1> HIDE DEF w, cut, moved, control, flagged, r, g, st
<1>8. DOMAIN cut = 1..e /\ \A i \in 1..e : cut[i] = w[4 + i - 1]
  <2>1. n - 4 = e /\ 4 \in Int /\ n \in Int
    BY <1>1, <1>2
  <2>2. DOMAIN cut = 1..(n - 4) /\ \A i \in 1..(n - 4) : cut[i] = w[4 + i - 1]
    BY <2>1, CutAt DEF cut
  <2>3. QED
    BY <2>1, <2>2
<1>9. /\ DOMAIN moved = Positions
      /\ \A i \in 1..e : (4 + g) + i <= PacketSize => moved[(4 + g) + i - 1] = cut[i]
  <2>1. 4 + g \in Nat /\ e \in Nat /\ DOMAIN w = Positions /\ DOMAIN cut = 1..e
    BY <1>1, <1>2, <1>4, <1>8
  <2>2. Wrote(w, 4 + g, cut, e, moved)
    BY <2>1, WriteWrote DEF moved
  <2>3. QED
    BY <2>2 DEF Wrote
<1> DEFINE ctl == <<control>>
<1>10. DOMAIN ctl = 1..1 /\ ctl[1] = control
  BY One
<1>a. flagged = Write(moved, 3, ctl)
  BY DEF flagged
<1> HIDE DEF ctl
<1>11. /\ DOMAIN flagged = Positions
       /\ \A i \in Positions : i >= 3 + 1 => flagged[i] = moved[i]
       /\ \A i \in 1..1 : 3 + i <= PacketSize => flagged[3 + i - 1] = ctl[i]
  <2> DEFINE fl == Write(moved, 3, ctl)
             pos == 3
             one == 1
  <2>1. /\ pos \in Nat /\ one \in Nat /\ DOMAIN moved = Positions /\ DOMAIN ctl = 1..one
        /\ fl = Write(moved, pos, ctl)
    BY <1>9, <1>10
  <2> HIDE DEF fl, pos, one
  <2>5. /\ DOMAIN fl = Positions
        /\ \A i \in Positions : i >= pos + one => fl[i] = moved[i]
        /\ \A i \in 1..one : pos + i <= PacketSize => fl[pos + i - 1] = ctl[i]
    BY <2>1, WriteAt
  <2>2. /\ DOMAIN fl = Positions
        /\ \A i \in Positions : i >= 3 + 1 => fl[i] = moved[i]
        /\ \A i \in 1..1 : 3 + i <= PacketSize => fl[3 + i - 1] = ctl[i]
    BY <2>5 DEF pos, one
  <2>3. flagged = fl
    BY <1>a DEF fl
  <2>4. QED
    BY <2>2, <2>3
<1>12. DOMAIN field(g) = 1..g /\ field(g)[1] = <<"length", g - 1>>
  BY <1>4, FieldCells
<1>13. /\ DOMAIN r = Positions
       /\ \A i \in Positions : i < 4 => r[i] = flagged[i]
       /\ \A i \in Positions : i >= 4 + g => r[i] = flagged[i]
       /\ \A i \in 1..g : 4 + i <= PacketSize => r[4 + i - 1] = field(g)[i]
  <2>1. 4 \in Nat /\ g \in Nat /\ DOMAIN flagged = Positions /\ DOMAIN field(g) = 1..g
    BY <1>4, <1>11, <1>12
  <2>2. Wrote(flagged, 4, field(g), g, r)
    BY <2>1, WriteWrote DEF r
  <2>3. QED
    BY <2>2 DEF Wrote
<1>14. PICK c \in Nat : /\ c = k /\ DOMAIN Raw(f) = 1..c
                        /\ \A i \in 1..k : Raw(f)[i] = <<"raw", f.lpos + i>>
  <2>1. k <= PacketSize /\ k <= f.size - f.lpos
    BY <1>1, <1>4
  <2>2. QED
    BY <1>1, <2>1, RawCells
<1>15. /\ DOMAIN q = Positions
       /\ \A i \in Positions : i < n + g => q[i] = r[i]
       /\ \A i \in 1..k : (n + g) + i <= PacketSize => q[(n + g) + i - 1] = Raw(f)[i]
  <2>1. n + g \in Nat /\ k \in Nat /\ DOMAIN r = Positions /\ DOMAIN Raw(f) = 1..k
    BY <1>1, <1>4, <1>13, <1>14
  <2>2. Wrote(r, n + g, Raw(f), k, Write(r, n + g, Raw(f)))
    BY <2>1, WriteWrote
  <2>3. Wrote(r, n + g, Raw(f), k, q)
    BY <1>7, <2>2
  <2>4. QED
    BY <2>3 DEF Wrote
<1>16. q[3] = control
  <2>1. 3 \in Positions /\ 3 < n + g /\ 3 < 4
    BY <1>1, <1>4 DEF Positions
  <2>2. q[3] = flagged[3]
    BY <1>13, <1>15, <2>1
  <2>3. flagged[3 + 1 - 1] = ctl[1]
    BY <1>1, <1>11
  <2>4. QED
    BY <1>10, <2>2, <2>3
<1>17. q[4] = <<"length", g - 1>>
  <2>1. 4 \in Positions /\ 4 < n + g /\ 4 + 1 <= PacketSize /\ 1 \in 1..g
    BY <1>1, <1>4 DEF Positions
  <2>2. q[4] = r[4]
    BY <1>15, <2>1
  <2>3. r[4 + 1 - 1] = field(g)[1]
    BY <1>13, <2>1
  <2>4. QED
    BY <1>12, <2>2, <2>3
<1>18. (IF q[3][2] THEN 5 + q[4][2] ELSE 4) = st
  <2>1. q[3][2]
    <3>1. control[2] = TRUE
      BY TripleAt DEF control
    <3>2. q[3][2] = control[2]
      BY <1>16
    <3>3. QED
      BY <3>1, <3>2
  <2>2. q[4][2] = g - 1
    BY <1>17, PairAt
  <2>3. QED
    BY <1>4, <2>1, <2>2 DEF st
<1>19. \A i \in 1..e : q[st + i - 1] = PESHeader(f)[i]
  <2>1. TAKE i \in 1..e
  <2>2. /\ st + i - 1 \in Positions /\ st + i - 1 < n + g /\ st + i - 1 >= 4 + g
        /\ st + i - 1 >= 3 + 1 /\ (4 + g) + i <= PacketSize /\ st + i - 1 = (4 + g) + i - 1
    BY <1>1, <1>2, <1>4 DEF st, Positions
  <2>3. q[st + i - 1] = moved[st + i - 1]
    BY <1>11, <1>13, <1>15, <2>2
  <2>4. moved[st + i - 1] = w[4 + i - 1]
    BY <1>8, <1>9, <2>2
  <2>5. 4 + i \in 1..n /\ (4 + i) - 1 = 4 + i - 1
    BY <1>1, <1>2
  <2>6. w[4 + i - 1] = h[4 + i]
    BY <1>2, <2>5
  <2>7. QED
    BY <1>3, <2>3, <2>4, <2>6
<1>20. \A i \in 1..k : q[st + e + i - 1] = <<"raw", f.lpos + i>>
  <2>1. TAKE i \in 1..k
  <2>2. (n + g) + i <= PacketSize /\ (n + g) + i - 1 = st + e + i - 1
    BY <1>1, <1>2, <1>4 DEF st
  <2>3. q[(n + g) + i - 1] = Raw(f)[i]
    BY <1>15, <2>2
  <2>4. Raw(f)[i] = <<"raw", f.lpos + i>>
    BY <1>14
  <2>5. QED
    BY <2>2, <2>3, <2>4
<1>21. st \in Nat
  BY <1>4 DEF st
<1>22. Carried(q, f, k, st)
  BY <1>1, <1>4, <1>15, <1>18, <1>19, <1>20, <1>21 DEF Carried, e
<1>23. QED
  BY <1>22 DEF st, g
----------------------------------------------------------------------------
(* What is read back.                                                      *)

\* CarriedWhole, of any packet and frame.
Reads(q, g) ==
  LET b == Payload(q)
      pes == ParsePES(b)
      bytes == IF g.began THEN SubSeq(b, pes.length + 1, Len(b)) ELSE b
  IN /\ g.began =>
          /\ b[1] = <<"prefix", 1>>
          /\ pes.pts = g.pts /\ pes.dts = g.dts
          /\ pes.ppl # 0 => 6 + pes.ppl = pes.length + g.size
     /\ bytes = [i \in 1..(g.lpos - g.from) |-> <<"raw", g.from + i>>]
     /\ g.began /\ g.key => Cut(q, 6, 12) = [i \in 1..6 |-> <<"pcr", i>>]

\* What the frame is after k bytes of it were packed.
After(f, k, g) ==
  g = [f EXCEPT !.first = FALSE, !.lpos = f.lpos + k, !.from = f.lpos, !.began = f.first]

FieldsAfter(f, k, g) ==
  /\ g \in FrameRecord /\ g.first = FALSE /\ g.lpos = f.lpos + k /\ g.from = f.lpos
  /\ g.began = f.first /\ g.key = f.key /\ g.pts = f.pts /\ g.dts = f.dts /\ g.size = f.size

LEMMA AfterFields ==
  ASSUME NEW f \in FrameRecord, NEW k \in Nat, NEW g, After(f, k, g)
  PROVE  FieldsAfter(f, k, g)
<1>1. f.lpos + k \in Nat /\ f.lpos \in Nat /\ f.first \in BOOLEAN
  BY DEF FrameRecord
<1>2. QED
  BY <1>1 DEF FrameRecord, After, FieldsAfter

LEMMA TailIs ==
  ASSUME NEW b, NEW e \in Nat, NEW k \in Nat, NEW v, \A i \in 1..k : b[e + i] = v[i],
         Len(v) = k, \E S : v \in Seq(S)
  PROVE  SubSeq(b, e + 1, e + k) = v
<1> DEFINE s == SubSeq(b, e + 1, e + k)
<1>0. PICK S : v \in Seq(S)
  OBVIOUS
<1>1. \A i \in (e + 1)..(e + k) : b[i] \in S
  <2>1. TAKE i \in (e + 1)..(e + k)
  <2>2. i - e \in 1..k /\ e + (i - e) = i
    OBVIOUS
  <2>3. b[i] = v[i - e]
    BY <2>2
  <2>4. QED
    BY <1>0, <2>2, <2>3
<1>2. v \in Seq(S) /\ Len(v) = k
  BY <1>0
<1>3. s \in Seq(S) /\ Len(s) = (IF e + 1 <= e + k THEN (e + k) - (e + 1) + 1 ELSE 0)
      /\ \A i \in 1..((e + k) - (e + 1) + 1) : s[i] = b[(e + 1) + i - 1]
  BY <1>1, SubSeqProperties
<1> HIDE DEF s
<1>4. Len(s) = k /\ \A i \in 1..k : s[i] = b[e + i]
  <2>1. (e + k) - (e + 1) + 1 = k /\ (e + 1 <= e + k <=> k # 0)
        /\ \A i \in 1..k : (e + 1) + i - 1 = e + i
    OBVIOUS
  <2>2. QED
    BY <1>3, <2>1
<1>5. \A i \in 1..Len(s) : s[i] = v[i]
  BY <1>4
<1>6. s = v
  BY <1>2, <1>3, <1>4, <1>5, SeqEqual
<1>7. QED
  BY <1>6 DEF s

\* b is n cells of q from st on.
CutOut(b, q, st, n) ==
  Len(b) = n /\ DOMAIN b = 1..n /\ \A i \in 1..n : b[i] = q[st + i - 1]

LEMMA CarriedIsRead ==
  ASSUME Highs \subseteq {0}, NEW f \in FrameRecord, NEW k, NEW st, NEW q, Carried(q, f, k, st),
         NEW g, After(f, k, g)
  PROVE  Reads(q, g)
<1> DEFINE e == PESHeaderSize(f)
           b == Cut(q, st, PacketSize)
           v == [i \in 1..k |-> <<"raw", f.lpos + i>>]
<1>1. /\ st \in Nat /\ k \in Nat /\ e \in Nat /\ PacketSize \in Nat /\ st + e + k = PacketSize
      /\ (IF q[3][2] THEN 5 + q[4][2] ELSE 4) = st
      /\ \A i \in 1..e : q[st + i - 1] = PESHeader(f)[i]
      /\ \A i \in 1..k : q[st + e + i - 1] = <<"raw", f.lpos + i>>
      /\ f.first /\ f.key => \A i \in 1..6 : q[5 + i] = <<"pcr", i>>
  BY Sizes9 DEF Carried
<1>2. /\ g.lpos = f.lpos + k /\ g.from = f.lpos /\ g.began = f.first /\ g.key = f.key
      /\ g.pts = f.pts /\ g.dts = f.dts /\ g.size = f.size
  <2>1. k \in Nat
    BY <1>1
  <2>2. FieldsAfter(f, k, g)
    BY <2>1, AfterFields
  <2>3. QED
    BY <2>2 DEF FieldsAfter
<1>3. f.lpos \in Nat /\ g.lpos - g.from = k
  BY <1>1, <1>2 DEF FrameRecord
<1>4. Payload(q) = b
  BY <1>1 DEF Payload
<1> HIDE DEF e, b
<1>5. Len(b) = e + k /\ DOMAIN b = 1..(e + k) /\ \A i \in 1..(e + k) : b[i] = q[st + i - 1]
  <2> DEFINE nb == PacketSize - st
  <2>1. nb = e + k /\ st <= PacketSize /\ st \in Int /\ PacketSize \in Int
    BY <1>1
  <2>2. Len(b) = nb
    BY <2>1, CutSeq DEF b
  <2>3. DOMAIN b = 1..nb /\ \A i \in 1..nb : b[i] = q[st + i - 1]
    BY <2>1, CutAt DEF b
  <2> HIDE DEF nb
  <2>4. CutOut(b, q, st, nb)
    BY <2>2, <2>3 DEF CutOut
  <2>5. CutOut(b, q, st, e + k)
    BY <2>1, <2>4
  <2>6. QED
    BY <2>5 DEF CutOut
<1>6. \A i \in 1..e : b[i] = PESHeader(f)[i]
  <2>1. TAKE i \in 1..e
  <2>2. i \in 1..(e + k)
    BY <1>1
  <2>3. b[i] = q[st + i - 1]
    BY <1>5, <2>2
  <2>4. QED
    BY <1>1, <2>3
<1>7. \A i \in 1..k : b[e + i] = v[i]
  <2>1. TAKE i \in 1..k
  <2>2. e + i \in 1..(e + k) /\ st + (e + i) - 1 = st + e + i - 1
    BY <1>1
  <2>3. b[e + i] = q[st + (e + i) - 1]
    BY <1>5, <2>2
  <2>4. QED
    BY <1>1, <2>2, <2>3
<1>8. v = [i \in 1..(g.lpos - g.from) |-> <<"raw", g.from + i>>]
  BY <1>2, <1>3
<1>9. /\ v = [i \in 1..k |-> v[i]] /\ Len(v) = k
      /\ \E S : v \in Seq(S)
  <2>1. v \in Seq({<<"raw", f.lpos + i>> : i \in 1..k}) /\ Len(v) = k
    BY <1>1
  <2>2. v = [i \in 1..k |-> v[i]]
    OBVIOUS
  <2> HIDE DEF v
  <2>3. QED
    BY <2>1, <2>2
<1>10. g.began /\ g.key => Cut(q, 6, 12) = [i \in 1..6 |-> <<"pcr", i>>]
  <2>1. SUFFICES ASSUME g.began, g.key PROVE Cut(q, 6, 12) = [i \in 1..6 |-> <<"pcr", i>>]
    OBVIOUS
  <2>2. \A i \in 1..6 : q[5 + i] = <<"pcr", i>>
    BY <1>1, <1>2, <2>1
  <2>3. Cut(q, 6, 12) = [i \in 1..6 |-> q[6 + i - 1]]
    BY DEF Cut
  <2>4. \A i \in 1..6 : q[6 + i - 1] = <<"pcr", i>>
    BY <2>2
  <2>5. QED
    BY <2>3, <2>4
<1> HIDE DEF v
<1>11. CASE f.first
  <2> DEFINE pes == ParsePES(b)
  <2>1. e = 9 + TimesSize(f) /\ TellsBegun(PESHeader(f), f)
    BY <1>11, HeaderTells DEF e, PESHeaderSize
  <2>2. Tells(b, f)
    BY <1>6, <2>1 DEF TellsBegun
  <2>3. /\ b[1] = <<"prefix", 1>> /\ pes.pts = f.pts /\ pes.dts = f.dts /\ pes.length = e
        /\ pes.ppl # 0 => 6 + pes.ppl = pes.length + f.size
    BY <2>1, <2>2, TellsParsed
  <2> HIDE DEF pes
  <2>9. e \in Nat /\ k \in Nat /\ Len(v) = k /\ (\E S : v \in Seq(S))
    BY <1>1, <1>9
  <2>4. SubSeq(b, e + 1, e + k) = v
    BY <1>7, <2>9, TailIs
  <2>5. SubSeq(b, pes.length + 1, Len(b)) = v
    BY <1>5, <2>3, <2>4
  <2>6. g.began
    BY <1>2, <1>11
  <2>7. Payload(q) = b /\ ParsePES(b) = pes
    BY <1>4 DEF pes
  <2>8. QED
    BY <1>2, <1>8, <1>10, <2>3, <2>5, <2>6, <2>7 DEF Reads
<1>12. CASE ~f.first
  <2>1. e = 0
    BY <1>12 DEF e, PESHeaderSize
  <2>2. b = [i \in 1..k |-> b[i]]
    <3>1. PacketSize - st = k
      BY <1>1, <2>1
    <3>2. b = [i \in 1..k |-> q[st + i - 1]]
      BY <3>1 DEF b, Cut
    <3>3. QED
      BY <3>2
  <2>3. \A i \in 1..k : b[i] = v[i]
    BY <1>7, <2>1
  <2>4. b = v
    BY <1>9, <2>2, <2>3
  <2>5. ~g.began
    BY <1>2, <1>12
  <2>6. QED
    BY <1>4, <1>8, <2>4, <2>5 DEF Reads
<1>13. QED
  BY <1>11, <1>12
----------------------------------------------------------------------------
(* The invariant: the last packet of a frame that has been begun is read   *)
(* back, and a key frame not yet begun fills its first packet.             *)

FillsFirst(f) == f.first /\ f.key => PacketSize - 21 - TimesSize(f) <= f.size

Underway(f, q) ==
  /\ f \in FrameRecord /\ f.lpos <= f.size /\ (f.first => f.lpos = 0)
  /\ FillsFirst(f) /\ (f.lpos > 0 => Reads(q, f))

CarryInv ==
  /\ savedCC \in [Pids -> Nat] /\ DOMAIN packet = Positions
  /\ frame # NoFrame => Underway(frame, packet)

LEMMA ZerosDomain == DOMAIN Zeros = Positions
BY DEF Zeros, Positions

LEMMA CalledStep ==
  ASSUME ~SmallKeys, CarryInv, NEW f \in Frames, OnFrameCalled(f)
  PROVE  CarryInv'
<1> DEFINE g == [pid |-> f.pid, key |-> f.key, size |-> f.size, pts |-> f.pts, dts |-> f.dts,
                 cc |-> savedCC[f.pid], first |-> TRUE, lpos |-> 0, from |-> 0, began |-> FALSE]
<1>1. frame' = g /\ packet' = Zeros /\ savedCC' = savedCC
  BY DEF OnFrameCalled
<1>2. /\ f.pid \in Pids /\ f.key \in BOOLEAN /\ f.size \in Nat /\ f.pts \in Times /\ f.dts \in Times
      /\ f.key => f.size >= PacketSize - 12 - (IF f.pts = f.dts THEN 14 ELSE 19)
  BY TsConstants DEF Frames, Pids
<1>3. savedCC \in [Pids -> Nat]
  BY DEF CarryInv
<1>4. savedCC[f.pid] \in Nat
  BY <1>2, <1>3
<1>5. g \in FrameRecord
  BY <1>2, <1>4 DEF FrameRecord
<1>6. g.first = TRUE /\ g.lpos = 0 /\ g.key = f.key /\ g.size = f.size /\ g.pts = f.pts /\ g.dts = f.dts
  OBVIOUS
<1> HIDE DEF g
<1>7. FillsFirst(g)
  <2>1. g.key => g.size >= PacketSize - 12 - (IF g.pts = g.dts THEN 14 ELSE 19)
    BY <1>2, <1>6
  <2>2. PacketSize \in Int /\ g.size \in Nat
    BY <1>2, <1>6, TsConstants
  <2>3. QED
    BY <2>1, <2>2 DEF FillsFirst, TimesSize, Both
<1>8. Underway(g, Zeros)
  <2>1. g.lpos <= g.size /\ ~(g.lpos > 0)
    BY <1>2, <1>6
  <2>2. QED
    BY <1>5, <1>6, <1>7, <2>1 DEF Underway
<1>9. QED
  BY <1>1, <1>3, <1>8, ZerosDomain DEF CarryInv

\* The frame as the loop takes it up, with the next counter.
Counted(f) == [f EXCEPT !.cc = (@ + 1) % 256]

LEMMA CountedFields ==
  ASSUME NEW h \in FrameRecord, NEW f, f = Counted(h)
  PROVE  /\ f \in FrameRecord /\ f.first = h.first /\ f.lpos = h.lpos /\ f.key = h.key
         /\ f.pts = h.pts /\ f.dts = h.dts /\ f.size = h.size
<1>1. h.cc \in Nat
  BY DEF FrameRecord
<1>2. (h.cc + 1) % 256 \in Nat
  BY <1>1
<1>3. QED
  BY <1>2 DEF FrameRecord, Counted

LEMMA PackStep ==
  ASSUME Highs \subseteq {0}, CarryInv, PackTSPacket
  PROVE  CarryInv'
<1> DEFINE f == Counted(frame)
           h == HeadersOf(f)
           n == Len(h)
           w == Write(packet, 0, h)
           k == IF PacketSize - n <= f.size - f.lpos THEN PacketSize - n ELSE f.size - f.lpos
           s == stuff(w, n, PacketSize - n - (f.size - f.lpos))
<1>1. /\ savedCC \in [Pids -> Nat] /\ DOMAIN packet = Positions /\ Underway(frame, packet)
      /\ frame.lpos # frame.size /\ frame # NoFrame
  BY DEF CarryInv, PackTSPacket
<1>2. \/ /\ PacketSize - n <= f.size - f.lpos
         /\ packet' = Write(w, n, Raw(f))
         /\ frame' = [f EXCEPT !.first = FALSE, !.lpos = @ + (PacketSize - n), !.from = f.lpos,
                               !.began = f.first]
      \/ /\ PacketSize - n > f.size - f.lpos
         /\ packet' = Write(s.packet, s.wpos, Raw(f))
         /\ frame' = [f EXCEPT !.first = FALSE, !.lpos = f.size, !.from = f.lpos,
                               !.began = f.first]
  BY DEF PackTSPacket, HeadersOf, Counted
<1>3. savedCC' = savedCC
  BY DEF PackTSPacket
<1>4. /\ f \in FrameRecord /\ f.first = frame.first /\ f.lpos = frame.lpos /\ f.key = frame.key
      /\ f.pts = frame.pts /\ f.dts = frame.dts /\ f.size = frame.size
  BY <1>1, CountedFields DEF Underway
<1>5. /\ f.lpos <= f.size /\ (f.first => f.lpos = 0) /\ FillsFirst(f) /\ f.lpos # f.size
      /\ f.size \in Nat /\ f.lpos \in Nat
  <2>1. f.size \in Nat /\ f.lpos \in Nat
    BY <1>4 DEF FrameRecord
  <2>2. FillsFirst(f)
    BY <1>1, <1>4 DEF Underway, FillsFirst, TimesSize, Both
  <2>3. QED
    BY <1>1, <1>4, <2>1, <2>2 DEF Underway
<1> HIDE DEF f
<1>6. /\ n = 4 + AdaptationSize(f) + PESHeaderSize(f) /\ n \in Nat /\ PacketSize \in Nat
      /\ n < PacketSize
  <2>1. n = 4 + AdaptationSize(f) + PESHeaderSize(f)
    BY <1>1, <1>4, HeadersWritten
  <2> HIDE DEF n
  <2>2. QED
    BY <1>4, <2>1, Sizes9
<1> HIDE DEF h, n, w, s
<1>7. ASSUME PacketSize - n <= f.size - f.lpos, packet' = Write(w, n, Raw(f)),
             frame' = [f EXCEPT !.first = FALSE, !.lpos = @ + (PacketSize - n), !.from = f.lpos,
                                !.began = f.first]
      PROVE  After(f, k, frame') /\ k \in Nat /\ k <= f.size - f.lpos
             /\ \E st : Carried(packet', f, k, st)
  <2>1. k = PacketSize - n
    BY <1>7
  <2>2. Carried(packet', f, PacketSize - n, 4 + AdaptationSize(f))
    BY <1>1, <1>4, <1>5, <1>7, FullPacket DEF w, h, n
  <2> HIDE DEF k
  <2>3. After(f, k, frame')
    BY <1>7, <2>1 DEF After
  <2>4. k \in Nat /\ k <= f.size - f.lpos
    BY <1>6, <1>7, <2>1
  <2>5. Carried(packet', f, k, 4 + AdaptationSize(f))
    BY <2>1, <2>2
  <2>6. QED
    BY <2>3, <2>4, <2>5
<1>8. ASSUME PacketSize - n > f.size - f.lpos, packet' = Write(s.packet, s.wpos, Raw(f)),
             frame' = [f EXCEPT !.first = FALSE, !.lpos = f.size, !.from = f.lpos,
                                !.began = f.first]
      PROVE  After(f, k, frame') /\ k \in Nat /\ k <= f.size - f.lpos
             /\ \E st : Carried(packet', f, k, st)
  <2>1. k = f.size - f.lpos
    BY <1>5, <1>6, <1>8
  <2>2. ~(f.first /\ f.key)
    <3>1. SUFFICES ASSUME f.first, f.key PROVE FALSE
      OBVIOUS
    <3>2. n = 21 + TimesSize(f)
      BY <1>6, <3>1, Sizes9, <1>4 DEF AdaptationSize, PESHeaderSize
    <3>3. PacketSize - 21 - TimesSize(f) <= f.size
      BY <1>5, <3>1 DEF FillsFirst
    <3>4. TimesSize(f) \in Nat
      BY DEF TimesSize
    <3>5. f.lpos = 0
      BY <1>5, <3>1
    <3>6. QED
      BY <1>5, <1>6, <1>8, <3>2, <3>3, <3>4, <3>5
  <2> HIDE DEF k
  <2>3. s = stuff(w, n, PacketSize - n - k)
    BY <2>1 DEF s
  <2>4. Carried(packet', f, k, 4 + (PacketSize - n - k))
    BY <1>1, <1>4, <1>5, <1>8, <2>1, <2>2, <2>3, StuffedPacket DEF w, h, n
  <2>5. k \in Nat /\ k <= f.size - f.lpos /\ f.lpos + k = f.size
    BY <1>5, <2>1
  <2>6. After(f, k, frame')
    BY <1>8, <2>5 DEF After
  <2>7. QED
    BY <2>4, <2>5, <2>6
<1>9. After(f, k, frame') /\ k \in Nat /\ k <= f.size - f.lpos /\ \E st : Carried(packet', f, k, st)
  BY <1>2, <1>7, <1>8
<1> HIDE DEF k
<1>10. Reads(packet', frame')
  BY <1>4, <1>9, CarriedIsRead
<1>11. DOMAIN packet' = Positions
  <2>1. PICK st : Carried(packet', f, k, st)
    BY <1>9
  <2>2. QED
    BY <2>1 DEF Carried
<1>12. frame' \in FrameRecord /\ frame'.first = FALSE /\ frame'.lpos = f.lpos + k /\ frame'.size = f.size
  <2>1. FieldsAfter(f, k, frame')
    BY <1>4, <1>9, AfterFields
  <2>2. QED
    BY <2>1 DEF FieldsAfter
<1>13. frame'.lpos <= frame'.size
  BY <1>5, <1>9, <1>12
<1>14. Underway(frame', packet')
  BY <1>10, <1>12, <1>13 DEF Underway, FillsFirst
<1>15. QED
  BY <1>1, <1>3, <1>11, <1>14 DEF CarryInv

LEMMA ReturnsStep ==
  ASSUME CarryInv, OnFrameReturns
  PROVE  CarryInv'
<1>1. frame.cc \in Nat /\ frame.pid \in Pids /\ savedCC \in [Pids -> Nat]
  BY DEF CarryInv, OnFrameReturns, Underway, FrameRecord
<1>2. savedCC' \in [Pids -> Nat]
  BY <1>1 DEF OnFrameReturns
<1>3. QED
  BY <1>2 DEF CarryInv, OnFrameReturns

\* Whatever a frame's size, however it is cut into packets: the package's own parsers
\* (ts_packet_header.go, pes.go) read back from each packet of PackTSPacket the bytes that
\* went into it, and from the first one the frame's times, length and clock, with stuffing
\* of any size.  The two exceptions are what pack.go does wrong: key frames that fit into
\* one packet (SmallKeys), and times with bits above the 30th (Highs).
THEOREM FramesCarriedWhole ==
  ASSUME ~SmallKeys, Highs \subseteq {0}
  PROVE  TsSpec => []CarriedWhole
<1>1. TsInit => CarryInv
  <2>1. SUFFICES ASSUME TsInit PROVE CarryInv
    OBVIOUS
  <2>2. savedCC \in [Pids -> Nat]
    <3>1. FirstCCs \subseteq Nat
      BY TsConstants
    <3>2. savedCC \in [Pids -> FirstCCs]
      BY <2>1 DEF TsInit
    <3>3. QED
      BY <3>1, <3>2
  <2>3. QED
    BY <2>1, <2>2, ZerosDomain DEF TsInit, CarryInv
<1>2. CarryInv /\ [TsNext]_tsVars => CarryInv'
  <2>1. SUFFICES ASSUME CarryInv, [TsNext]_tsVars PROVE CarryInv'
    OBVIOUS
  <2>2. CASE UNCHANGED tsVars
    BY <2>1, <2>2 DEF tsVars, CarryInv
  <2>3. ASSUME NEW f \in Frames, OnFrameCalled(f) PROVE CarryInv'
    BY <2>1, <2>3, CalledStep
  <2>4. CASE PackTSPacket
    BY <2>1, <2>4, PackStep
  <2>5. CASE OnFrameReturns
    BY <2>1, <2>5, ReturnsStep
  <2>6. QED
    BY <2>1, <2>2, <2>3, <2>4, <2>5 DEF TsNext
<1>3. CarryInv => CarriedWhole
  BY DEF CarryInv, Underway, Reads, CarriedWhole, Packed
<1>4. QED
  BY <1>1, <1>2, <1>3, PTL DEF TsSpec
=============================================================================
