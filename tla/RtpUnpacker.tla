---------------------------- MODULE RtpUnpacker ----------------------------
(***************************************************************************)
(* RTPUnpacker (pkg/rtprtcp/rtp_unpacker*.go): RTP packets of one medium   *)
(* come off the network late, twice or never; frames go out, whole and in  *)
(* order.                                                                  *)
(*                                                                         *)
(* The sender's packets are numbered 1..Total; packet p carries sequence   *)
(* number Seq(p) and the position calcPositionIfNeeded finds in its        *)
(* payload; AAC packets have none, each is a frame ("single").             *)
(***************************************************************************)
EXTENDS SeqNumber, Sequences, SequencesExt, FiniteSets

CONSTANTS
  Frames,   \* the sender's frames, each the sequence of its packets' positions
  First,    \* the sequence number before the first packet's
  maxSize,  \* unpackerItemMaxSize (1024 in rtsp.go)
  Late,     \* the network: a packet comes at most Late packets late
  MaxDups   \* the network: this many packets come once more

Positions == {"single", "stap", "start", "mid", "end", "bad"}

Packets == FlattenSeq(Frames)
Total == Len(Packets)
Seq16(p) == (First + p) % SeqModulus

\* A frame fits one packet, or is fragmented into a start, middles and an end.
WellCut(f) ==
  \/ Len(f) = 1 /\ f[1] \in {"single", "stap", "bad"}
  \/ Len(f) > 1 /\ f[1] = "start" /\ f[Len(f)] = "end" /\ \A i \in 2..(Len(f) - 1) : f[i] = "mid"

ASSUME UnpackerConstants ==
  /\ Frames \in Seq(Seq(Positions)) /\ \A i \in DOMAIN Frames : WellCut(Frames[i])
  /\ First \in Nat /\ maxSize \in Nat \ {0} /\ Late \in Nat /\ MaxDups \in Nat
  /\ Total \in Nat /\ Total < Window

VARIABLES
  list,         \* RTPPacketList: the packets waiting, sorted
  size,         \* RTPPacketList.size
  unpackedFlag, \* a frame has been unpacked, the last packet of which was ...
  unpackedSeq,  \* ... this one
  out,          \* the frames given to onAVPacket, as sequences of packets
  delivered,    \* the packets the network has delivered
  dups          \* how often it delivered one again

vars == <<list, size, unpackedFlag, unpackedSeq, out, delivered, dups>>

\* The unpacker's fields as a record, for the helpers that change them.
Unpacker == [list : Seq(1..Total), size : Nat, flag : BOOLEAN,
             seq : 0..(SeqModulus - 1), out : Seq(Seq(1..Total))]
State == [list |-> list, size |-> size, flag |-> unpackedFlag, seq |-> unpackedSeq, out |-> out]

Init ==
  /\ list = <<>> /\ size = 0
  /\ unpackedFlag = FALSE /\ unpackedSeq = 0
  /\ out = <<>> /\ delivered = {} /\ dups = 0
----------------------------------------------------------------------------
isStale_Never(p) == FALSE  \* mutant

isStale(p) == unpackedFlag /\ CompareSeq(Seq16(p), unpackedSeq) <= 0

\* Before the first packet that is not older, if that is not the same one; it has
\* been counted then nevertheless.
insert(r, p) ==
  LET compared(i) == CompareSeq(Seq16(p), Seq16(r.list[i]))
      end == Len(r.list) + 1
      place == CHOOSE i \in 1..end :
                 (i < end => compared(i) <= 0) /\ \A j \in 1..(i - 1) : compared(j) > 0
      there == place < end /\ compared(place) = 0
  IN [r EXCEPT !.size = @ + 1, !.list = IF there THEN @ ELSE InsertAt(@, place, p)]

frontLen_NoGapCheck(l) ==  \* mutant
  LET closes(n) == Packets[l[1]] = "start" /\ n > 1 /\ Packets[l[n]] = "end"
                     /\ \A i \in 2..(n - 1) : Packets[l[i]] = "mid"
  IN IF l = <<>> THEN 0
     ELSE IF Packets[l[1]] \in {"single", "stap"} THEN 1
     ELSE IF \E n \in DOMAIN l : closes(n) THEN CHOOSE n \in DOMAIN l : closes(n)
     ELSE 0

\* How many packets at the head of l make a frame: one, or a start, gapless
\* middles and an end; 0 if there is none.
frontLen(l) ==
  LET closes(n) ==
        /\ Packets[l[1]] = "start" /\ n > 1 /\ Packets[l[n]] = "end"
        /\ \A i \in 2..(n - 1) : Packets[l[i]] = "mid"
        /\ \A i \in 2..n : SeqDiff(Seq16(l[i]), Seq16(l[i - 1])) = 1
  IN IF l = <<>> THEN 0
     ELSE IF Packets[l[1]] \in {"single", "stap"} THEN 1
     ELSE IF \E n \in DOMAIN l : closes(n) THEN CHOOSE n \in DOMAIN l : closes(n)
     ELSE 0

\* unpackOneAVCOrHEVC, unpackOneAAC: a frame from the head of the list, whatever
\* went out before it.  The same record when there is none.
unpackOne(r) ==
  LET n == frontLen(r.list) IN
  IF n = 0 THEN r
  ELSE [r EXCEPT !.list = SubSeq(@, n + 1, Len(@)), !.size = @ - n, !.flag = TRUE,
                 !.seq = Seq16(r.list[n]), !.out = Append(@, SubSeq(r.list, 1, n))]

unpackOneSequential_AnyHead(r) == unpackOne(r)  \* mutant

unpackOneSequential(r) ==
  IF r.flag /\ (r.list = <<>> \/ SeqDiff(Seq16(Head(r.list)), r.seq) # 1) THEN r
  ELSE unpackOne(r)

\* The loop around unpackOneSequential: each turn takes a packet at least, and
\* a turn that takes none is the last.
unpackAll(r) ==
  LET turn[i \in 0..Len(r.list)] == IF i = 0 THEN r ELSE unpackOneSequential(turn[i - 1])
  IN turn[Len(r.list)]

overflow_KeepsHead(r) == unpackAll(unpackOne(r))  \* mutant

\* The list is full: a frame from its head although packets before it are
\* missing, or else the head is given up.
overflow(r) ==
  LET one == unpackOne(r)
  IN unpackAll(IF one = r THEN [r EXCEPT !.list = Tail(@), !.size = @ - 1] ELSE one)

feed(p) ==
  LET r == insert(State, p)
      s == unpackAll(r)
  IN IF s = r /\ r.size > maxSize THEN overflow(r) ELSE s

Feed(p) ==
  \/ isStale(p) /\ UNCHANGED <<list, size, unpackedFlag, unpackedSeq, out>>
  \/ ~isStale(p) /\ LET r == feed(p) IN
     /\ list' = r.list /\ size' = r.size
     /\ unpackedFlag' = r.flag /\ unpackedSeq' = r.seq /\ out' = r.out
----------------------------------------------------------------------------
(* The network: UDP, or a sender that interleaves over TCP.                *)

Newest == IF delivered = {} THEN 0 ELSE CHOOSE p \in delivered : \A q \in delivered : q <= p

\* A packet overtakes others, which then come at most Late behind it, or not at
\* all.
Arrives(p) ==
  /\ p \notin delivered /\ p + Late >= Newest
  /\ delivered' = delivered \cup {p} /\ UNCHANGED dups
  /\ Feed(p)

ArrivesAgain(p) ==
  /\ p \in delivered /\ p + Late >= Newest /\ dups < MaxDups
  /\ dups' = dups + 1 /\ UNCHANGED delivered
  /\ Feed(p)

Next == \E p \in 1..Total : Arrives(p) \/ ArrivesAgain(p)

Spec == Init /\ [][Next]_vars
----------------------------------------------------------------------------
TypeOK ==
  /\ State \in Unpacker
  /\ delivered \subseteq 1..Total /\ dups \in 0..MaxDups

\* The packets of the sender's i-th frame.
FrameAt(i) ==
  LET before == Len(FlattenSeq(SubSeq(Frames, 1, i - 1)))
  IN [j \in DOMAIN Frames[i] |-> before + j]

\* onAVPacket is only ever given a frame as the sender cut it: never one with a
\* missing or a foreign packet in it, whatever is lost, late or repeated
\* (unpackOneAVCOrHEVC).
FramesWhole ==
  \A i \in DOMAIN out : \E j \in DOMAIN Frames : out[i] = FrameAt(j)

\* Frames go out in the sender's order and once each: a packet that comes after
\* its successors went out is given up (isStale), across the wrap of the
\* sequence numbers too.
OutputInOrder ==
  \A i, j \in DOMAIN out : i < j => Last(out[i]) < Head(out[j])

\* The waiting packets never exceed maxSize, are sorted, and are all newer than
\* what went out; size, which is what Feed compares with maxSize, never says
\* fewer than there are.
BufferBounded ==
  /\ Len(list) <= size /\ size <= maxSize
  /\ \A i \in 1..(Len(list) - 1) : list[i] < list[i + 1]
  /\ \A i \in DOMAIN list : out # <<>> => list[i] > Last(Last(out))

\* Nothing is given up needlessly: as long as the network has lost nothing, and its
\* packets are less late than the list is long, every packet that came, from the
\* first frame that went out on, went out or still waits, unless nobody can parse it.
NoLossSoFar == 1..(Newest - Late - 1) \subseteq delivered

NothingDropped ==
  NoLossSoFar /\ out # <<>> => \A p \in delivered :
    \/ p < Head(Head(out)) \/ Packets[p] = "bad"
    \/ p \in ToSet(list) \/ \E i \in DOMAIN out : p \in ToSet(out[i])

\* The list has room for the longest frame and for what comes late or twice beside it;
\* with one place less something may be given up needlessly.
RoomForLate == \A i \in DOMAIN Frames : Len(Frames[i]) - 1 + Late + MaxDups <= maxSize

\* The list is bounded, and what is given up for the bound is given up for a loss only.
BufferSound == BufferBounded /\ NothingDropped

\* "size: the actual number of elements".
SizeIsLength == size = Len(list)
=============================================================================
