------------------------------ MODULE TsPacket ------------------------------
(***************************************************************************)
(* The packing of a frame into MPEG-TS packets (PackTSPacket in            *)
(* pkg/mpegts/pack.go), which the HLS streamer feeds with audio and video  *)
(* frames, read back by the package's own ParseTSPacketHeader,             *)
(* ParseTSPacketAdaptation and ParsePES.                                   *)
(*                                                                         *)
(* A packet is a function from positions to cells; a cell is a byte, named *)
(* by what it holds: <<"raw", k>> is the frame's k-th byte.                *)
(***************************************************************************)
EXTENDS Integers, Sequences

CONSTANTS
  PacketSize,  \* 188
  Sizes,       \* sizes of frames
  Highs,       \* bits 30 to 32 of the timestamps (the delay added)
  SmallKeys,   \* there are key frames that fit into one packet
  FirstCCs,    \* continuity counters, after earlier frames
  MaxFrames    \* bound: frames

Pids == {"audio", "video"}
Times == [high : Highs, low : {0, 1}]

ASSUME TsConstants ==
  /\ PacketSize \in Nat /\ PacketSize > 31
  /\ Sizes \subseteq Nat /\ Highs \subseteq 0..7 /\ FirstCCs \subseteq 0..255
  /\ SmallKeys \in BOOLEAN /\ MaxFrames \in Nat

VARIABLES
  savedCC,  \* Streamer.audioCC, videoCC
  frames,   \* how many so far
  frame,    \* the frame being packed, with its CC and what was packed of it
  packet,   \* the packet buffer, used anew for each packet of a frame
  lastCC    \* history: the counter in each PID's last packet

tsVars == <<savedCC, frames, frame, packet, lastCC>>

Zeros == [i \in 0..(PacketSize - 1) |-> <<"zero">>]
NoFrame == [pid |-> "none"]

TsInit ==
  /\ savedCC \in [Pids -> FirstCCs]
  /\ frames = 0 /\ frame = NoFrame
  /\ packet = Zeros
  /\ lastCC = [p \in Pids |-> savedCC[p] % 16]
----------------------------------------------------------------------------
(* Writing.                                                                *)

\* Go's copy: what does not fit is cut.
Write(p, pos, cells) ==
  [i \in DOMAIN p |-> IF i - pos + 1 \in DOMAIN cells THEN cells[i - pos + 1] ELSE p[i]]

\* The cells from position a up to b, without b.
Cut(p, a, b) == [i \in 1..(b - a) |-> p[a + i - 1]]

Stuffing(n) == [i \in 1..n |-> <<"0xFF">>]

\* packPTS: the three high bits are not shifted past the marker bit.
packPTS(fb, t) ==
  LET marked == IF t.high % 2 = 1 THEN t.high ELSE t.high + 1
  IN <<<<"time", fb * 16 + marked>>, <<"low", t.low>>, <<"low", t.low>>,
       <<"low", t.low>>, <<"low", t.low>>>>

TSHeader(f) ==
  <<<<"sync">>, <<"start", f.first>>, <<"pid", f.pid>>,
    <<"control", f.first /\ f.key, f.cc % 16>>>>

\* Of a key frame's first packet: random access, and the clock.
Adaptation(f) ==
  IF f.first /\ f.key
  THEN <<<<"length", 7>>, <<"randomAccess">>>> \o [i \in 1..6 |-> <<"pcr", i>>]
  ELSE <<>>

PESHeader(f) ==
  LET both == f.dts # f.pts
      headerSize == IF both THEN 10 ELSE 5
      whole == f.size + headerSize + 3
      pesSize == IF whole > 65535 THEN 0 ELSE whole
  IN IF ~f.first THEN <<>>
     ELSE <<<<"prefix", 1>>, <<"prefix", 2>>, <<"prefix", 3>>, <<"sid", f.pid>>,
            <<"pesHigh", pesSize \div 256>>, <<"pesLow", pesSize % 256>>,
            <<"marker">>, <<"flags", both>>, <<"length", headerSize>>>>
          \o packPTS(IF both THEN 3 ELSE 2, f.pts)
          \o (IF both THEN packPTS(1, f.dts) ELSE <<>>)

\* Mutant: the adaptation field's length counts its own byte.
stuff_CountsItself(p, wpos, stuffSize) ==
  IF p[3][2]
  THEN LET base == 4 + p[4][2]
           moved == Write(p, base + stuffSize, Cut(p, base, wpos))
           longer == Write(moved, 4, <<<<"length", p[4][2] + stuffSize>>>>)
       IN [packet |-> Write(longer, base, Stuffing(stuffSize)), wpos |-> base + stuffSize]
  ELSE LET moved == Write(p, 4 + stuffSize, Cut(p, 4, wpos))
           flagged == Write(moved, 3, <<<<"control", TRUE, p[3][3]>>>>)
           field == <<<<"length", stuffSize>>>> \o Stuffing(stuffSize - 1)
       IN [packet |-> Write(flagged, 4, field), wpos |-> wpos + stuffSize]

\* A frame that ends within the packet moves to its end: the rest is stuffing in the
\* adaptation field, with one or without one so far.  The packet, and where the frame's
\* bytes go.  With one, what was written so far is moved from a byte too early, and the
\* frame's bytes go where it was moved.
stuff(p, wpos, stuffSize) ==
  IF p[3][2]
  THEN LET base == 4 + p[4][2]
           moved == Write(p, base + stuffSize, Cut(p, base, wpos))
           longer == Write(moved, 4, <<<<"length", p[4][2] + stuffSize>>>>)
       IN [packet |-> Write(longer, base, Stuffing(stuffSize)), wpos |-> base + stuffSize]
  ELSE LET moved == Write(p, 4 + stuffSize, Cut(p, 4, wpos))
           field == <<<<"length", stuffSize - 1>>>>
                      \o (IF stuffSize >= 2 THEN <<<<"zero">>>> \o Stuffing(stuffSize - 2)
                          ELSE <<>>)
           flagged == Write(moved, 3, <<<<"control", TRUE, p[3][3]>>>>)
       IN [packet |-> Write(flagged, 4, field), wpos |-> wpos + stuffSize]

\* The frame's bytes still to be packed; more than a packet of them is cut anyway.
Raw(f) ==
  LET left == f.size - f.lpos
  IN [i \in 1..(IF left > PacketSize THEN PacketSize ELSE left) |-> <<"raw", f.lpos + i>>]

----------------------------------------------------------------------------
(* The steps.                                                              *)

\* Streamer.feedVideo, FlushAudio: what they call OnFrame with.
Frames ==
  {f \in [pid : {"video"}, key : BOOLEAN, size : Sizes, pts : Times,
           dts : {t \in Times : t.low = 0}] :
     f.key /\ ~SmallKeys => f.size >= PacketSize - 12 - (IF f.pts = f.dts THEN 14 ELSE 19)}
    \cup {f \in [pid : {"audio"}, key : {FALSE}, size : Sizes, pts : Times, dts : Times] :
            f.pts = f.dts}

OnFrameCalled(f) ==
  /\ frame = NoFrame /\ frames < MaxFrames
  /\ frames' = frames + 1
  /\ frame' = [pid |-> f.pid, key |-> f.key, size |-> f.size, pts |-> f.pts, dts |-> f.dts,
               cc |-> savedCC[f.pid], first |-> TRUE, lpos |-> 0, from |-> 0, began |-> FALSE]
  /\ packet' = Zeros
  /\ UNCHANGED <<savedCC, lastCC>>

\* One turn of the loop: a packet.  from and began are history: where it took the frame up,
\* and whether it has the frame's PES header.
PackTSPacket ==
  /\ frame # NoFrame /\ frame.lpos # frame.size
  /\ LET f == [frame EXCEPT !.cc = (@ + 1) % 256]
         front == TSHeader(f) \o Adaptation(f) \o PESHeader(f)
         written == Write(packet, 0, front)
         wpos == Len(front)
         bodySize == PacketSize - wpos
         inSize == f.size - f.lpos
         stuffed == stuff(written, wpos, bodySize - inSize)
     IN \/ /\ bodySize <= inSize
           /\ packet' = Write(written, wpos, Raw(f))
           /\ frame' = [f EXCEPT !.first = FALSE, !.lpos = @ + bodySize, !.from = f.lpos,
                                 !.began = f.first]
        \/ /\ bodySize > inSize
           /\ packet' = Write(stuffed.packet, stuffed.wpos, Raw(f))
           /\ frame' = [f EXCEPT !.first = FALSE, !.lpos = f.size, !.from = f.lpos,
                                 !.began = f.first]
  /\ lastCC' = [lastCC EXCEPT ![frame.pid] = packet'[3][3]]
  /\ UNCHANGED <<savedCC, frames>>

\* The streamer saves the counter for the next frame of the PID.
OnFrameReturns ==
  /\ frame # NoFrame /\ frame.lpos = frame.size
  /\ savedCC' = [savedCC EXCEPT ![frame.pid] = frame.cc]
  /\ frame' = NoFrame
  /\ UNCHANGED <<frames, packet, lastCC>>

TsNext == (\E f \in Frames : OnFrameCalled(f)) \/ PackTSPacket \/ OnFrameReturns

TsSpec == TsInit /\ [][TsNext]_tsVars
----------------------------------------------------------------------------
(* Reading.                                                                *)

\* ParseTSPacketHeader and ParseTSPacketAdaptation: what follows the adaptation field, the
\* length of which leaves its own byte out.
Payload(p) == Cut(p, IF p[3][2] THEN 5 + p[4][2] ELSE 4, PacketSize)

readPTS(b, i) == [high |-> (b[i][2] \div 2) % 8, low |-> b[i + 1][2]]

ParsePES(b) ==
  LET pts == readPTS(b, 10)
  IN [ppl |-> b[5][2] * 256 + b[6][2],
      pts |-> pts,
      dts |-> IF b[8][2] THEN readPTS(b, 15) ELSE pts,
      length |-> 9 + b[9][2]]

\* A packet has been packed, which the reader now has.
Packed == frame # NoFrame /\ frame.lpos > 0

\* Every packet read back gives the bytes of the frame that were packed into it, no more and
\* no fewer, and a frame's first one gives its times and its length: whatever is left of the
\* packet, down to a single byte.
CarriedWhole ==
  Packed =>
    LET b == Payload(packet)
        pes == ParsePES(b)
        bytes == IF frame.began THEN SubSeq(b, pes.length + 1, Len(b)) ELSE b
    IN /\ frame.began =>
            /\ b[1] = <<"prefix", 1>>
            /\ pes.pts = frame.pts /\ pes.dts = frame.dts
            /\ pes.ppl # 0 => 6 + pes.ppl = pes.length + frame.size
       /\ bytes = [i \in 1..(frame.lpos - frame.from) |-> <<"raw", frame.from + i>>]
       /\ frame.began /\ frame.key => Cut(packet, 6, 12) = [i \in 1..6 |-> <<"pcr", i>>]
=============================================================================
