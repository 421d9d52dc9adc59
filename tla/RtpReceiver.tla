---------------------------- MODULE RtpReceiver ----------------------------
(***************************************************************************)
(* A medium of an RTSP publisher (BaseInSession): each RTP packet is       *)
(* counted by RRProducer (pkg/rtprtcp/rr_producer.go), then goes to the    *)
(* unpacker; each sender report is answered with a receiver report.        *)
(*                                                                         *)
(* A byte has Byte values, so that two make a sequence number and four an  *)
(* unsigned word.                                                          *)
(***************************************************************************)
EXTENDS RtpUnpacker

CONSTANTS
  Byte,
  MaxReports  \* bound: sender reports

ASSUME ReceiverConstants ==
  /\ Byte \in Nat \ {0} /\ Byte * Byte = SeqModulus
  /\ MaxReports \in Nat

VARIABLES
  rr,      \* RRProducer
  first,   \* history: the packet that came first, 0 before
  reports  \* sender reports so far

receiverVars == <<vars, rr, first, reports>>

Word == SeqModulus * SeqModulus
Unset == -1

NewRRProducer ==
  [maxSeq |-> Unset, baseSeq |-> Unset, cycles |-> 0, received |-> 0, extendedSeq |-> 0,
   expectedPrior |-> 0, receivedPrior |-> 0]

ReceiverInit ==
  /\ Init
  /\ rr = NewRRProducer
  /\ first = 0 /\ reports = 0

\* Mutant: the number runs over without a cycle being counted.
FeedRTPPacket_NoCycle(r, seq) ==
  LET newer == r.maxSeq = Unset \/ CompareSeq(seq, r.maxSeq) > 0
      max == IF newer THEN seq ELSE r.maxSeq
  IN [r EXCEPT !.received = @ + 1,
               !.baseSeq = IF @ = Unset THEN seq ELSE @,
               !.maxSeq = max,
               !.extendedSeq = max]

FeedRTPPacket(r, seq) ==
  LET newer == r.maxSeq = Unset \/ CompareSeq(seq, r.maxSeq) > 0
      max == IF newer THEN seq ELSE r.maxSeq
      cycles == IF newer /\ seq < r.maxSeq THEN r.cycles + 1 ELSE r.cycles
  IN [r EXCEPT !.received = @ + 1,
               !.baseSeq = IF @ = Unset THEN seq ELSE @,
               !.maxSeq = max,
               !.cycles = cycles,
               !.extendedSeq = cycles * SeqModulus + max]

\* What a report would say now, in unsigned arithmetic: a difference below 0 is a large
\* number, and lostInterval <= 0 only if it is 0.
Expected == (rr.extendedSeq - rr.baseSeq + 1) % Word
Lost == IF Expected < rr.received THEN 0 ELSE Expected - rr.received
Fraction ==
  LET expectedInterval == (Expected - rr.expectedPrior) % Word
      lostInterval == (expectedInterval - (rr.received - rr.receivedPrior)) % Word
  IN IF expectedInterval = 0 \/ lostInterval = 0 THEN 0
     ELSE (((lostInterval * Byte) % Word) \div expectedInterval) % Byte

\* RR.Pack: the last byte of lost is dropped, and the jitter is written over the lower half
\* of extendedSeq, which was put two bytes too far.
Pack ==
  [fraction |-> Fraction,
   lost |-> (Lost \div Byte) % (Byte * Byte * Byte),
   extendedSeq |-> (rr.cycles % SeqModulus) * SeqModulus + rr.extendedSeq \div SeqModulus]

\* handleRTCPPacket: a report of a sender that has sent no packet yet is not answered, for
\* its SSRC is not known.
OnSR ==
  /\ reports < MaxReports
  /\ rr.baseSeq # Unset
  /\ reports' = reports + 1
  /\ rr' = [rr EXCEPT !.expectedPrior = Expected, !.receivedPrior = rr.received]
  /\ UNCHANGED <<vars, first>>

\* handleRTPPacket: counted first, then unpacked.
handleRTPPacket(p) ==
  /\ Arrives(p) \/ ArrivesAgain(p)
  /\ rr' = FeedRTPPacket(rr, Seq16(p))
  /\ first' = IF first = 0 THEN p ELSE first
  /\ UNCHANGED reports

ReceiverNext ==
  \/ \E p \in 1..Total : handleRTPPacket(p)
  \/ OnSR

ReceiverSpec == ReceiverInit /\ [][ReceiverNext]_receiverVars
----------------------------------------------------------------------------
Missing(a, b) == {p \in a..b : p \notin delivered}

\* A report never claims a loss that has not happened, and misses none but those that late
\* or repeated packets hide: whatever comes late, twice or never, and across the wrap of
\* the sequence numbers (FeedRTPPacket's cycles, Produce's unsigned differences).
LossTrue ==
  first # 0 =>
    LET missing == Cardinality(Missing(first, Newest))
        hiding == dups + Cardinality({p \in delivered : p < first})
    IN Lost <= missing /\ Lost + hiding >= missing

\* The interval's share of lost packets is 0 if none was lost since the last report.  It is
\* not: a packet that comes late or twice makes lostInterval negative, which an unsigned
\* number cannot be.
FractionTrue == first # 0 /\ Missing(first, Newest) = {} => Fraction = 0

\* What goes out as the extended highest sequence number is it (rtcp.go:72).
PackedTrue == first # 0 => Pack.extendedSeq = rr.extendedSeq
=============================================================================
