------------------------- MODULE RtspInputProofs ---------------------------
(***************************************************************************)
(* Proofs about the input of an RTSP publisher (BaseInSession): sequence   *)
(* numbers, the unpacker, what the receiver reports, for every width of    *)
(* the numbers, every loss, delay and repetition; and AVPacketQueue, for   *)
(* any queue size, any first timestamps and any number of packets.         *)
(*                                                                         *)
(* Of the queue, the types hold whoever calls Feed.  The rest needs        *)
(* SingleReader: the heads a goroutine has read are still the heads when   *)
(* it pops, and NoWrap: the timestamps the unpacker gives a medium do not  *)
(* start over.  Then emitted and waiting packets of a medium together are  *)
(* what was fed (NothingLost), so a queue is a suffix of a sorted          *)
(* sequence, and no waiting or future packet is earlier than the last one  *)
(* that went out (InTimeOrder), unless a full queue had to give up its     *)
(* head.                                                                   *)
(***************************************************************************)
EXTENDS RtpReceiver, AVPacketQueue, FiniteSetTheorems, SequenceTheorems, WellFoundedInduction,
        TLAPS

----------------------------------------------------------------------------
(* What CompareSeq and SubSeq compute.  Packets are counted without        *)
(* wrapping by n and m; the header carries n % SeqModulus.                 *)

\* On two header fields whose true distance is below the window.
LEMMA WithinWindow ==
  ASSUME NEW a \in 0 .. SeqModulus - 1, NEW b \in 0 .. SeqModulus - 1, NEW k \in {-1, 0, 1},
         -Window < a - b + k * SeqModulus, a - b + k * SeqModulus < Window
  PROVE  /\ SeqDiff(a, b) = a - b + k * SeqModulus
         /\ CompareSeq(a, b) = Sign(a - b + k * SeqModulus)
<1> USE WindowPositive DEF SeqModulus, SeqDiff, CompareSeq, Sign
<1>1. CASE k = 0
  BY <1>1
<1>2. CASE k = 1
  BY <1>2
<1>3. CASE k = -1
  BY <1>3
<1>4. QED
  BY <1>1, <1>2, <1>3

LEMMA DivMod ==
  ASSUME NEW M \in Nat, M > 0, NEW n \in Int
  PROVE  n = M * (n \div M) + (n % M)
BY Z3

\* Two numbers closer than a whole cycle are at most one cycle apart.
LEMMA OneCycle ==
  ASSUME NEW M \in Nat \ {0}, NEW n \in Nat, NEW m \in Nat,
         -M < n - m, n - m < M
  PROVE  \E k \in {-1, 0, 1} : n - m = (n % M) - (m % M) + k * M
<1> DEFINE p == n \div M
           q == m \div M
           Mp == M * p
           Mq == M * q
<1>1. p \in Nat /\ (n % M) \in 0 .. M - 1
  OBVIOUS
<1>2. q \in Nat /\ m % M \in 0 .. M - 1
  OBVIOUS
<1>a. n = Mp + (n % M)
  BY DivMod
<1>b. m = Mq + (m % M)
  BY DivMod
<1> HIDE DEF p, q
<1>c. M * (p - q) = Mp - Mq /\ Mp \in Int /\ Mq \in Int
  BY <1>1, <1>2
<1> HIDE DEF Mp, Mq
<1>3. n - m = M * (p - q) + ((n % M) - (m % M))
  BY <1>1, <1>2, <1>a, <1>b, <1>c
<1>4. p - q < 2
  <2> SUFFICES ASSUME p - q >= 2 PROVE FALSE
    BY <1>1, <1>2
  <2>1. M * (p - q) >= 2 * M
    BY <1>1, <1>2
  <2>2. QED
    BY <1>1, <1>2, <1>3, <2>1
<1>5. p - q > -2
  <2> SUFFICES ASSUME q - p >= 2 PROVE FALSE
    BY <1>1, <1>2
  <2>1. M * (q - p) >= 2 * M
    BY <1>1, <1>2
  <2>2. M * (q - p) = -(M * (p - q))
    BY <1>1, <1>2
  <2>3. QED
    BY <1>1, <1>2, <1>3, <2>1, <2>2
<1>6. p - q \in {-1, 0, 1} /\ n - m = (n % M) - (m % M) + (p - q) * M
  BY <1>1, <1>2, <1>3, <1>4, <1>5
<1>7. QED
  BY <1>6

\* CompareSeq and SubSeq agree with the unwrapped numbers as long as the two
\* packets are fewer than Window apart, wherever the counter wraps.
THEOREM SeqArithmeticSound ==
  ASSUME NEW n \in Nat, NEW m \in Nat, -Window < n - m, n - m < Window
  PROVE  /\ SeqDiff(n % SeqModulus, m % SeqModulus) = n - m
         /\ CompareSeq(n % SeqModulus, m % SeqModulus) = Sign(n - m)
<1>1. SeqModulus \in Nat \ {0} /\ Window < SeqModulus
  BY WindowPositive DEF SeqModulus
<1>2. -SeqModulus < n - m /\ n - m < SeqModulus
  BY <1>1, WindowPositive
<1>3. PICK k \in {-1, 0, 1} : n - m = (n % SeqModulus) - (m % SeqModulus) + k * SeqModulus
  BY <1>1, <1>2, OneCycle
<1>4. n % SeqModulus \in 0 .. SeqModulus - 1 /\ m % SeqModulus \in 0 .. SeqModulus - 1
  BY <1>1
<1>5. QED
  BY <1>3, <1>4, WithinWindow

\* CompareSeq tells two different packets apart in one way only: exchanging
\* them exchanges "earlier" and "later", even outside the window.
THEOREM CompareAntisymmetric ==
  ASSUME NEW a \in 0 .. SeqModulus - 1, NEW b \in 0 .. SeqModulus - 1
  PROVE  CompareSeq(a, b) = -CompareSeq(b, a)
BY WindowPositive DEF CompareSeq, SeqModulus

----------------------------------------------------------------------------
(* What a receiver report says is lost.                                    *)

IsNewest(m) == m \in delivered /\ \A q \in delivered : q <= m

LEMMA Greatest ==
  ASSUME NEW S \in SUBSET Int, NEW m \in S, \A q \in S : q <= m
  PROVE  (IF S = {} THEN 0 ELSE CHOOSE p \in S : \A q \in S : q <= p) = m
<1> DEFINE g == CHOOSE p \in S : \A q \in S : q <= p
<1>1. g \in S /\ \A q \in S : q <= g
  OBVIOUS
<1> HIDE DEF g
<1>2. g = m
  BY <1>1
<1>3. QED
  BY <1>2 DEF g

Producer == [maxSeq : Int, baseSeq : Int, cycles : Int, received : Int, extendedSeq : Int,
             expectedPrior : Int, receivedPrior : Int]

\* The extended number is as far from the first packet's as the newest packet is.
Counted ==
  IF first = 0 THEN delivered = {} /\ rr.maxSeq = Unset /\ rr.baseSeq = Unset /\ rr.cycles = 0
  ELSE /\ first \in delivered /\ IsNewest(Newest)
       /\ rr.maxSeq = Seq16(Newest) /\ rr.baseSeq # Unset
       /\ rr.extendedSeq = rr.cycles * SeqModulus + rr.maxSeq
       /\ rr.extendedSeq - rr.baseSeq = Newest - first

ReceiverInv ==
  /\ delivered \subseteq 1 .. Total /\ dups \in Nat
  /\ first \in 0 .. Total /\ rr \in Producer
  /\ rr.received = Cardinality(delivered) + dups
  /\ Counted

LEMMA ReceiverInitInv == ReceiverInit => ReceiverInv
BY UnpackerConstants, FS_EmptySet
DEF ReceiverInit, Init, NewRRProducer, ReceiverInv, Counted, Producer, Unset

LEMMA Widths ==
  /\ Total \in Nat /\ Total < Window /\ Window \in Nat /\ Window < SeqModulus
  /\ SeqModulus \in Nat \ {0}
BY UnpackerConstants, WindowPositive DEF SeqModulus

\* A later packet's number, seen from the number of the one that was newest.
LEMMA LaterNumber ==
  ASSUME NEW p \in 1 .. Total, NEW m \in 1 .. Total
  PROVE  /\ CompareSeq(Seq16(p), Seq16(m)) > 0 <=> p > m
         /\ p > m => p - m = Seq16(p) - Seq16(m)
                             + (IF Seq16(p) < Seq16(m) THEN SeqModulus ELSE 0)
         /\ Seq16(p) \in 0 .. SeqModulus - 1
<1> DEFINE n == First + p
           o == First + m
<1>1. /\ n \in Nat /\ o \in Nat /\ n - o = p - m /\ -Window < n - o /\ n - o < Window
  BY Widths, UnpackerConstants
<1> HIDE DEF n, o
<1>2. CompareSeq(n % SeqModulus, o % SeqModulus) = Sign(n - o)
  BY <1>1, SeqArithmeticSound
<1>3. -SeqModulus < n - o /\ n - o < SeqModulus
  BY <1>1, Widths
<1>4. PICK k \in {-1, 0, 1} : n - o = (n % SeqModulus) - (o % SeqModulus) + k * SeqModulus
  BY <1>1, <1>3, Widths, OneCycle
<1>5. n % SeqModulus \in 0 .. SeqModulus - 1 /\ o % SeqModulus \in 0 .. SeqModulus - 1
  BY <1>1, Widths
<1>6. Seq16(p) = n % SeqModulus /\ Seq16(m) = o % SeqModulus
  BY DEF Seq16, n, o
<1>7. p > m => p - m = Seq16(p) - Seq16(m) + (IF Seq16(p) < Seq16(m) THEN SeqModulus ELSE 0)
  <2> DEFINE far == k * SeqModulus
  <2>1. far = IF k = 1 THEN SeqModulus ELSE IF k = 0 THEN 0 ELSE -SeqModulus
    <3>1. k = 1 \/ k = 0 \/ k = -1
      OBVIOUS
    <3>2. QED
      BY <3>1, Widths
  <2>2. p - m = Seq16(p) - Seq16(m) + far
    BY <1>1, <1>4, <1>6
  <2> HIDE DEF far
  <2>3. QED
    BY <1>5, <1>6, <2>1, <2>2, Widths
<1>8. QED
  BY <1>1, <1>2, <1>5, <1>6, <1>7 DEF Sign

\* The producer after packet p, for whatever delivered it.
LEMMA ReceiverFeeds ==
  ASSUME ReceiverInv, NEW p \in 1 .. Total,
         delivered' = delivered \cup {p}, dups' \in Nat,
         Cardinality(delivered') + dups' = Cardinality(delivered) + dups + 1,
         rr' = FeedRTPPacket(rr, Seq16(p)), first' = IF first = 0 THEN p ELSE first
  PROVE  ReceiverInv'
<1> DEFINE seq == Seq16(p)
           newer == rr.maxSeq = Unset \/ CompareSeq(seq, rr.maxSeq) > 0
           max == IF newer THEN seq ELSE rr.maxSeq
           cycles == IF newer /\ seq < rr.maxSeq THEN rr.cycles + 1 ELSE rr.cycles
           extended == cycles * SeqModulus + max
           base == IF rr.baseSeq = Unset THEN seq ELSE rr.baseSeq
<1>1. /\ delivered \subseteq Int /\ delivered' \subseteq 1 .. Total /\ delivered' \subseteq Int
      /\ first \in Int /\ first' \in 0 .. Total /\ rr \in Producer
      /\ rr.received = Cardinality(delivered) + dups
  BY Widths DEF ReceiverInv
<1>2. seq \in 0 .. SeqModulus - 1 /\ seq \in Int /\ SeqModulus \in Int
  BY LaterNumber, Widths
<1>3. max \in Int /\ cycles \in Int /\ extended \in Int /\ base \in Int
  BY <1>1, <1>2 DEF Producer
<1>4. rr' = [rr EXCEPT !.received = rr.received + 1,
                       !.baseSeq = base, !.maxSeq = max, !.cycles = cycles, !.extendedSeq = extended]
  BY DEF FeedRTPPacket
<1>5. /\ rr'.received = rr.received + 1
      /\ rr'.baseSeq = base
      /\ rr'.maxSeq = max /\ rr'.cycles = cycles /\ rr'.extendedSeq = extended
      /\ rr' \in Producer
  <2>1. rr.received + 1 \in Int
    BY <1>1 DEF Producer
  <2> HIDE DEF max, cycles, extended, seq, newer, base
  <2>2. QED
    BY <1>1, <1>3, <1>4, <2>1 DEF Producer
<1>6. CASE first = 0
  <2>1. /\ delivered' = {p} /\ first' = p /\ rr.maxSeq = Unset /\ rr.baseSeq = Unset
        /\ rr.cycles = 0
    BY <1>6 DEF ReceiverInv, Counted
  <2>2. Newest' = p /\ IsNewest(p)' /\ p # 0
    <3>1. \A q \in delivered' : q <= p
      BY <1>1, <2>1
    <3>2. QED
      BY <1>1, <2>1, <3>1, Greatest DEF Newest, IsNewest
  <2>3. newer /\ max = seq /\ cycles = 0 /\ ~(seq < rr.maxSeq)
    BY <1>2, <2>1 DEF Unset
  <2>4. extended = seq /\ 0 * SeqModulus = 0
    BY <1>2, <2>3
  <2>5. base = seq /\ seq - seq = p - p /\ seq # Unset /\ 0 + seq = seq
    BY <1>2, <2>1 DEF Unset
  <2> HIDE DEF max, cycles, extended, newer, base
  <2>6. first' # 0 /\ first' \in delivered' /\ IsNewest(Newest)'
    BY <2>1, <2>2
  <2>7. /\ rr'.maxSeq = Seq16(Newest)' /\ rr'.baseSeq # Unset
        /\ rr'.extendedSeq = rr'.cycles * SeqModulus + rr'.maxSeq
        /\ rr'.extendedSeq - rr'.baseSeq = Newest' - first'
    BY <1>5, <2>1, <2>2, <2>3, <2>4, <2>5
  <2>8. Counted'
    BY <2>6, <2>7 DEF Counted
  <2>9. QED
    BY <1>1, <1>5, <2>8 DEF ReceiverInv
<1>7. CASE first # 0
  <2>1. PICK m \in delivered :
          /\ m = Newest /\ first \in delivered /\ \A q \in delivered : q <= m
          /\ rr.maxSeq = Seq16(m) /\ rr.baseSeq # Unset
          /\ rr.extendedSeq = rr.cycles * SeqModulus + rr.maxSeq
          /\ rr.extendedSeq - rr.baseSeq = m - first
    BY <1>7 DEF ReceiverInv, Counted, IsNewest
  <2>2. m \in 1 .. Total /\ m \in Int /\ p \in Int
    BY <1>1, <2>1 DEF ReceiverInv
  <2>3. /\ CompareSeq(seq, Seq16(m)) > 0 <=> p > m
        /\ p > m => p - m = seq - Seq16(m) + (IF seq < Seq16(m) THEN SeqModulus ELSE 0)
        /\ Seq16(m) \in 0 .. SeqModulus - 1
    BY <2>2, LaterNumber
  <2> DEFINE n == IF p > m THEN p ELSE m
  <2>4. n \in delivered' /\ \A q \in delivered' : q <= n
    BY <1>1, <2>1, <2>2
  <2>5. Newest' = n /\ IsNewest(n)' /\ first' = first /\ first' \in delivered'
    <3> HIDE DEF n
    <3>1. QED
      BY <1>1, <1>7, <2>1, <2>4, Greatest DEF Newest, IsNewest
  <2>6. newer <=> p > m
    BY <1>2, <2>1, <2>3, Widths DEF Unset
  <2>7. max = Seq16(n)
    BY <2>1, <2>6
  <2>8. extended - rr.baseSeq = n - first
    <3> DEFINE laps == rr.cycles * SeqModulus
    <3>1. laps \in Int /\ rr.baseSeq \in Int /\ laps + Seq16(m) - rr.baseSeq = m - first
      BY <1>1, <1>2, <2>1 DEF Producer
    <3>2. extended = laps + max + (IF newer /\ seq < rr.maxSeq THEN SeqModulus ELSE 0)
      <4>1. (rr.cycles + 1) * SeqModulus = laps + SeqModulus
        BY <1>1, <1>2 DEF Producer
      <4> HIDE DEF newer, laps
      <4>2. CASE newer /\ seq < rr.maxSeq
        <5>1. cycles = rr.cycles + 1
          BY <4>2
        <5>2. extended = laps + SeqModulus + max
          BY <4>1, <5>1
        <5> HIDE DEF extended, max
        <5>3. QED
          BY <1>2, <1>3, <3>1, <4>2, <5>2
      <4>3. CASE ~(newer /\ seq < rr.maxSeq)
        BY <1>2, <1>3, <3>1, <4>3 DEF laps
      <4>4. QED
        BY <4>2, <4>3
    <3> HIDE DEF extended, laps, newer, max, seq
    <3>3. CASE p > m
      BY <1>1, <1>2, <2>1, <2>2, <2>3, <2>6, <2>7, <3>1, <3>2, <3>3 DEF seq
    <3>4. CASE ~(p > m)
      BY <1>1, <1>2, <2>1, <2>2, <2>3, <2>6, <2>7, <3>1, <3>2, <3>4
    <3>5. QED
      BY <3>3, <3>4
  <2> HIDE DEF n, extended, max, cycles
  <2>9. extended = cycles * SeqModulus + max
    BY DEF extended
  <2>10. Counted'
    BY <1>5, <1>7, <2>1, <2>5, <2>7, <2>8, <2>9 DEF Counted
  <2>11. QED
    BY <1>1, <1>5, <2>10 DEF ReceiverInv
<1>8. QED
  BY <1>6, <1>7

LEMMA ReceiverNextInv == ReceiverInv /\ [ReceiverNext]_receiverVars => ReceiverInv'
<1> SUFFICES ASSUME ReceiverInv, [ReceiverNext]_receiverVars PROVE ReceiverInv'
  OBVIOUS
<1>1. IsFiniteSet(delivered) /\ Cardinality(delivered) \in Nat
  <2>1. IsFiniteSet(1 .. Total)
    BY Widths, FS_Interval
  <2>2. delivered \in SUBSET (1 .. Total)
    BY DEF ReceiverInv
  <2>3. IsFiniteSet(delivered)
    BY <2>1, <2>2, FS_Subset
  <2>4. QED
    BY <2>3, FS_CardinalityType
<1>2. ASSUME NEW p \in 1 .. Total, handleRTPPacket(p) PROVE ReceiverInv'
  <2>1. /\ rr' = FeedRTPPacket(rr, Seq16(p)) /\ first' = IF first = 0 THEN p ELSE first
        /\ Arrives(p) \/ ArrivesAgain(p)
    BY <1>2 DEF handleRTPPacket
  <2>2. Cardinality(delivered \cup {p}) =
          IF p \in delivered THEN Cardinality(delivered) ELSE Cardinality(delivered) + 1
    BY <1>1, FS_AddElement
  <2>3. /\ delivered' = delivered \cup {p} /\ dups' \in Nat
        /\ Cardinality(delivered') + dups' = Cardinality(delivered) + dups + 1
    BY <1>1, <2>1, <2>2 DEF Arrives, ArrivesAgain, ReceiverInv
  <2>4. QED
    BY <2>1, <2>3, ReceiverFeeds
<1>3. CASE OnSR
  <2>1. /\ UNCHANGED <<delivered, dups, first>>
        /\ rr' = [rr EXCEPT !.expectedPrior = Expected, !.receivedPrior = rr.received]
    BY <1>3 DEF OnSR, vars
  <2>2. Newest' = Newest
    BY <2>1 DEF Newest
  <2>3. Expected \in Int
    <3>1. Word \in Nat \ {0}
      BY Widths DEF Word
    <3>2. QED
      BY <3>1 DEF Expected, ReceiverInv, Producer
  <2>4. QED
    BY <2>1, <2>2, <2>3 DEF ReceiverInv, Counted, Producer, IsNewest
<1>4. CASE UNCHANGED receiverVars
  <2>1. UNCHANGED <<delivered, dups, first, rr>>
    BY <1>4 DEF receiverVars, vars
  <2>2. Newest' = Newest
    BY <2>1 DEF Newest
  <2>3. QED
    BY <2>1, <2>2 DEF ReceiverInv, Counted, IsNewest
<1>5. QED
  BY <1>2, <1>3, <1>4 DEF ReceiverNext

LEMMA Counting ==
  ASSUME ReceiverInv, first # 0
  PROVE  /\ Newest \in 1 .. Total /\ first \in 1 .. Total /\ first <= Newest
         /\ rr.extendedSeq - rr.baseSeq = Newest - first /\ rr \in Producer
         /\ delivered \subseteq 1 .. Total /\ \A q \in delivered : q <= Newest
         /\ Newest \in Nat /\ first \in Nat
<1>1. /\ first \in delivered /\ IsNewest(Newest) /\ delivered \subseteq 1 .. Total /\ rr \in Producer
      /\ rr.extendedSeq - rr.baseSeq = Newest - first
  BY DEF ReceiverInv, Counted
<1>2. Newest \in delivered /\ \A q \in delivered : q <= Newest
  BY <1>1 DEF IsNewest
<1>3. \A q \in 1 .. Total : q \in Nat
  OBVIOUS
<1>4. QED
  BY <1>1, <1>2, <1>3

\* Expected counts the packets from the first to the newest; it is their number, not a
\* number modulo anything, for fewer than a quarter of the range are ever under way.
LEMMA ExpectedIs ==
  ASSUME ReceiverInv, first # 0
  PROVE  Expected = Newest - first + 1
<1> DEFINE x == Newest - first + 1
<1>1. rr.extendedSeq - rr.baseSeq + 1 = x
  BY Counting DEF Producer
<1>2. x \in Nat /\ x <= Window
  BY Counting, Widths
<1>3. Word \in Nat \ {0} /\ Window < Word
  <2>1. SeqModulus * SeqModulus \in Nat \ {0} /\ SeqModulus * SeqModulus >= SeqModulus
    BY Widths
  <2>2. QED
    BY <2>1, Widths DEF Word
<1> HIDE DEF x
<1>4. x % Word = x
  BY <1>2, <1>3, Widths
<1>5. QED
  BY <1>1, <1>4 DEF Expected, x

\* Of the packets from the first to the newest, what is not missing was delivered.
LEMMA MissingCount ==
  ASSUME ReceiverInv, first # 0
  PROVE  LET early == {p \in delivered : p < first}
         IN /\ Cardinality(early) \in Nat /\ Cardinality(Missing(first, Newest)) \in Nat
            /\ Cardinality(delivered) \in Nat
            /\ Cardinality(Missing(first, Newest)) + Cardinality(delivered)
                 = Newest - first + 1 + Cardinality(early)
<1> DEFINE early == {p \in delivered : p < first}
           late == {p \in delivered : first <= p}
           missing == Missing(first, Newest)
<1>1. PICK m \in Nat : m = Newest
  BY Counting
<1>2. /\ m \in 1 .. Total /\ first \in 1 .. Total /\ first <= m /\ Total \in Nat
      /\ delivered \subseteq 1 .. Total /\ \A q \in delivered : q <= m
      /\ missing = {p \in first .. m : p \notin delivered}
  BY <1>1, Counting, Widths DEF Missing
<1>3. IsFiniteSet(1 .. Total)
  BY <1>2, FS_Interval
<1>4. /\ early \in SUBSET (1 .. Total) /\ late \in SUBSET (1 .. Total)
      /\ missing \in SUBSET (1 .. Total)
  <2>1. early \in SUBSET (1 .. Total) /\ late \in SUBSET (1 .. Total)
    BY <1>2, Zenon
  <2>2. first .. m \subseteq 1 .. Total
    BY <1>2
  <2>3. QED
    BY <1>2, <2>1, <2>2, Zenon
<1>5. early \cup late = delivered /\ early \cap late = {}
  <2>1. \A q \in delivered : q < first <=> ~(first <= q)
    BY <1>2
  <2>2. QED
    BY <2>1, Zenon
<1>6. late \cup missing = first .. m /\ late \cap missing = {}
  <2>1. \A q \in delivered : first <= q <=> q \in first .. m
    BY <1>2
  <2>2. QED
    BY <1>2, <2>1, Zenon
<1>7. Cardinality(first .. m) = m - first + 1
  BY <1>2, FS_Interval
<1> HIDE DEF early, late, missing
<1>8. IsFiniteSet(early) /\ IsFiniteSet(late) /\ IsFiniteSet(missing)
  BY <1>3, <1>4, FS_Subset
<1>9. Cardinality(early) \in Nat /\ Cardinality(late) \in Nat /\ Cardinality(missing) \in Nat
  BY <1>8, FS_CardinalityType
<1>10. Cardinality(early \cup late) = Cardinality(early) + Cardinality(late) - Cardinality(early \cap late)
  BY <1>8, FS_Union
<1>11. Cardinality(late \cup missing) = Cardinality(late) + Cardinality(missing) - Cardinality(late \cap missing)
  BY <1>8, FS_Union
<1>12. Cardinality({}) = 0
  BY FS_EmptySet
<1>13. /\ Cardinality(delivered) = Cardinality(early) + Cardinality(late)
       /\ m - first + 1 = Cardinality(late) + Cardinality(missing)
  <2>1. Cardinality(delivered) = Cardinality(early) + Cardinality(late) - 0
    BY <1>5, <1>10, <1>12
  <2>2. m - first + 1 = Cardinality(late) + Cardinality(missing) - 0
    BY <1>6, <1>7, <1>11, <1>12
  <2>3. QED
    BY <1>9, <2>1, <2>2
<1>14. QED
  BY <1>1, <1>2, <1>9, <1>13 DEF early, missing

\* A receiver report never claims a loss that has not happened, and misses none but those
\* that late or repeated packets hide, wherever the sequence numbers wrap: for any width of
\* the numbers, any sender with fewer packets than a quarter of them, and any network.
THEOREM LossReportTrue == ReceiverSpec => []LossTrue
<1>1. ReceiverInv => LossTrue
  <2> SUFFICES ASSUME ReceiverInv, first # 0
               PROVE  LET missing == Cardinality(Missing(first, Newest))
                          hiding == dups + Cardinality({p \in delivered : p < first})
                      IN Lost <= missing /\ Lost + hiding >= missing
    BY DEF LossTrue
  <2>1. rr.received = Cardinality(delivered) + dups /\ dups \in Nat
    BY DEF ReceiverInv
  <2>2. Newest \in Int /\ first \in Int
    BY Counting
  <2>3. QED
    BY <2>1, <2>2, ExpectedIs, MissingCount DEF Lost
<1>2. QED
  BY <1>1, ReceiverInitInv, ReceiverNextInv, PTL DEF ReceiverSpec
----------------------------------------------------------------------------
(* Induction, for a set of numbers.                                        *)

LEMMA LeastNat ==
  ASSUME NEW T, T \subseteq Nat, T # {}
  PROVE  \E x \in T : \A y \in T : x <= y
<1> DEFINE R == {p \in Nat \X Nat : p[1] < p[2]}
<1>1. IsWellFoundedOn(R, Nat)
  BY NatLessThanWellFounded DEF OpToRel
<1>2. \A a, b \in Nat : a < b => <<a, b>> \in R
  OBVIOUS
<1> HIDE DEF R
<1>3. PICK x \in T : \A y \in T : ~ (<<y, x>> \in R)
  BY <1>1, WFMin
<1>4. ASSUME NEW y \in T PROVE x <= y
  <2>1. x \in Nat /\ y \in Nat /\ ~ (y < x)
    BY <1>2, <1>3
  <2>2. QED
    BY <2>1
<1>5. QED
  BY <1>4

LEMMA Induction ==
  ASSUME NEW S, S \subseteq Nat, 0 \in S, \A n \in S : n + 1 \in S
  PROVE  S = Nat
<1> SUFFICES ASSUME Nat \ S # {} PROVE FALSE
  OBVIOUS
<1>1. PICK x \in Nat \ S : \A y \in Nat \ S : x <= y
  BY LeastNat, Nat \ S \subseteq Nat
<1>2. x - 1 \in S
  BY <1>1
<1>3. QED
  BY <1>1, <1>2

\* The same up to a bound.
LEMMA InductionTo ==
  ASSUME NEW n \in Nat, NEW S, 0 \in S, \A i \in 0 .. n - 1 : i \in S => i + 1 \in S
  PROVE  \A i \in 0 .. n : i \in S
<1> DEFINE T == {i \in Nat : i <= n => i \in S}
<1>1. T \subseteq Nat /\ 0 \in T /\ \A i \in T : i + 1 \in T
  OBVIOUS
<1> HIDE DEF T
<1>2. T = Nat
  BY <1>1, Induction
<1>3. QED
  BY <1>2 DEF T

----------------------------------------------------------------------------
(* The loop around unpackOneSequential, and what it keeps.                 *)

IsTurns(t, r, n) == t = [i \in 0 .. n |-> IF i = 0 THEN r ELSE unpackOneSequential(t[i - 1])]

LEMMA TurnsExist ==
  ASSUME NEW r, NEW n \in Nat
  PROVE  \E t : IsTurns(t, r, n)
<1> DEFINE S == {k \in Nat : \E t : IsTurns(t, r, k)}
<1>1. 0 \in S
  <2> DEFINE t == [i \in 0 .. 0 |-> r]
  <2>1. \A i \in 0 .. 0 : i = 0
    OBVIOUS
  <2>2. IsTurns(t, r, 0)
    BY <2>1 DEF IsTurns
  <2>3. QED
    BY <2>2
<1>2. ASSUME NEW k \in S PROVE k + 1 \in S
  <2>1. PICK t : IsTurns(t, r, k)
    OBVIOUS
  <2> DEFINE u == [i \in 0 .. (k + 1) |-> IF i <= k THEN t[i] ELSE unpackOneSequential(t[k])]
  <2>2. \A i \in 0 .. k : t[i] = IF i = 0 THEN r ELSE unpackOneSequential(t[i - 1])
    BY <2>1 DEF IsTurns
  <2>3. \A i \in 0 .. (k + 1) : u[i] = IF i = 0 THEN r ELSE unpackOneSequential(u[i - 1])
    BY <2>2
  <2> DEFINE v == [i \in 0 .. (k + 1) |-> IF i = 0 THEN r ELSE unpackOneSequential(u[i - 1])]
  <2>4. u = v
    BY <2>3
  <2>5. IsTurns(u, r, k + 1)
    BY <2>4 DEF IsTurns
  <2>6. QED
    BY <2>5
<1>3. S \subseteq Nat
  OBVIOUS
<1> HIDE DEF S
<1>4. S = Nat
  BY <1>1, <1>2, <1>3, Induction
<1>5. QED
  BY <1>4 DEF S

LEMMA Turns ==
  ASSUME NEW r, Len(r.list) \in Nat
  PROVE  \E t : IsTurns(t, r, Len(r.list)) /\ unpackAll(r) = t[Len(r.list)]
<1>1. \E t : t = [i \in 0 .. Len(r.list) |-> IF i = 0 THEN r ELSE unpackOneSequential(t[i - 1])]
  BY TurnsExist DEF IsTurns
<1>2. QED
  BY <1>1 DEF unpackAll, IsTurns

\* What each turn keeps, the loop keeps.
LEMMA LoopKeeps ==
  ASSUME NEW r, Len(r.list) \in Nat,
         NEW S, r \in S, \A s \in S : unpackOneSequential(s) \in S
  PROVE  unpackAll(r) \in S
<1> DEFINE n == Len(r.list)
<1>1. PICK t : IsTurns(t, r, n) /\ unpackAll(r) = t[n]
  BY Turns
<1>2. \A i \in 0 .. n : t[i] = IF i = 0 THEN r ELSE unpackOneSequential(t[i - 1])
  BY <1>1 DEF IsTurns
<1> HIDE DEF n
<1> DEFINE T == {i \in 0 .. n : t[i] \in S}
<1>3. n \in Nat
  BY DEF n
<1>4. 0 \in T
  BY <1>2, <1>3
<1>5. ASSUME NEW i \in 0 .. n - 1, i \in T PROVE i + 1 \in T
  BY <1>2, <1>3, <1>5
<1> HIDE DEF T
<1>6. n \in T
  <2>1. \A i \in 0 .. n : i \in T
    BY <1>3, <1>4, <1>5, InductionTo
  <2>2. QED
    BY <1>3, <2>1
<1>7. QED
  BY <1>1, <1>6 DEF T

----------------------------------------------------------------------------
(* The sender's packets: which frame each of them belongs to.              *)

IsFlat(f, s, n) == f = [i \in 1 .. n |-> IF i = 1 THEN s[i] ELSE f[i - 1] \o s[i]]

LEMMA FlatExists ==
  ASSUME NEW s, NEW n \in Nat
  PROVE  \E f : IsFlat(f, s, n)
<1> DEFINE S == {k \in Nat : \E f : IsFlat(f, s, k)}
<1>1. 0 \in S
  <2> DEFINE f == [i \in 1 .. 0 |-> s[i]]
             g == [i \in 1 .. 0 |-> IF i = 1 THEN s[i] ELSE f[i - 1] \o s[i]]
  <2>1. \A i \in 1 .. 0 : FALSE
    OBVIOUS
  <2>2. f = g
    BY <2>1
  <2>3. IsFlat(f, s, 0)
    BY <2>2 DEF IsFlat
  <2>4. QED
    BY <2>3
<1>2. ASSUME NEW k \in S PROVE k + 1 \in S
  <2>1. PICK f : IsFlat(f, s, k)
    OBVIOUS
  <2> DEFINE g == [i \in 1 .. (k + 1) |-> IF i <= k THEN f[i]
                                          ELSE IF i = 1 THEN s[i] ELSE f[i - 1] \o s[i]]
             h == [i \in 1 .. (k + 1) |-> IF i = 1 THEN s[i] ELSE g[i - 1] \o s[i]]
  <2>2. \A i \in 1 .. k : f[i] = IF i = 1 THEN s[i] ELSE f[i - 1] \o s[i]
    BY <2>1 DEF IsFlat
  <2>3. ASSUME NEW i \in 1 .. (k + 1) PROVE g[i] = h[i]
    <3>1. CASE i <= k
      <4>1. g[i] = f[i] /\ (i # 1 => g[i - 1] = f[i - 1])
        BY <3>1
      <4>2. QED
        BY <3>1, <4>1, <2>2
    <3>2. CASE i > k
      <4>1. i # 1 => g[i - 1] = f[i - 1]
        BY <3>2
      <4>2. QED
        BY <3>2, <4>1
    <3>3. QED
      BY <3>1, <3>2
  <2>4. g = h
    BY <2>3
  <2>5. IsFlat(g, s, k + 1)
    BY <2>4 DEF IsFlat
  <2>6. QED
    BY <2>5
<1>3. S \subseteq Nat
  OBVIOUS
<1> HIDE DEF S
<1>4. S = Nat
  BY <1>1, <1>2, <1>3, Induction
<1>5. QED
  BY <1>4 DEF S

LEMMA FlatIs ==
  ASSUME NEW s, Len(s) \in Nat, Len(s) # 0
  PROVE  \E f : IsFlat(f, s, Len(s)) /\ FlattenSeq(s) = f[Len(s)]
<1>1. \E f : f = [i \in 1 .. Len(s) |-> IF i = 1 THEN s[i] ELSE f[i - 1] \o s[i]]
  BY FlatExists DEF IsFlat
<1>2. QED
  BY <1>1 DEF FlattenSeq, IsFlat

\* The beginning of a flattened sequence is its beginning flattened.
LEMMA FlatBegins ==
  ASSUME NEW s, NEW t, NEW n \in Nat, NEW k \in 0 .. n, \A i \in 1 .. k : t[i] = s[i],
         NEW f, IsFlat(f, s, n), NEW g, IsFlat(g, t, k)
  PROVE  \A i \in 1 .. k : g[i] = f[i]
<1>a. /\ \A i \in 1 .. n : f[i] = IF i = 1 THEN s[i] ELSE f[i - 1] \o s[i]
      /\ \A i \in 1 .. k : g[i] = IF i = 1 THEN t[i] ELSE g[i - 1] \o t[i]
  BY DEF IsFlat
<1> DEFINE T == {i \in 0 .. k : i > 0 => g[i] = f[i]}
<1>1. 0 \in T
  OBVIOUS
<1>2. ASSUME NEW i \in 0 .. k - 1, i \in T PROVE i + 1 \in T
  <2> DEFINE j == i + 1
  <2>1. j \in 1 .. n /\ j \in 1 .. k /\ j - 1 = i /\ (j # 1 => g[j - 1] = f[j - 1])
    BY <1>2
  <2>2. i + 1 \in 0 .. k
    OBVIOUS
  <2> HIDE DEF j
  <2>3. /\ f[j] = IF j = 1 THEN s[j] ELSE f[j - 1] \o s[j]
        /\ g[j] = IF j = 1 THEN t[j] ELSE g[j - 1] \o t[j]
    BY <1>a, <2>1
  <2>4. g[j] = f[j]
    BY <2>1, <2>3
  <2>5. QED
    BY <2>2, <2>4 DEF j
<1> HIDE DEF T
<1>3. \A i \in 0 .. k : i \in T
  BY <1>1, <1>2, InductionTo
<1>4. QED
  BY <1>3 DEF T

Before(j) == Len(FlattenSeq(SubSeq(Frames, 1, j - 1)))

\* Frame j is the packets that come after the frames before it.
LEMMA WhereFramesAre ==
  /\ Packets \in Seq(Positions)
  /\ \A j \in DOMAIN Frames : Before(j) \in Nat
  /\ \A p \in 1 .. Total : \E j \in DOMAIN Frames : \E k \in DOMAIN Frames[j] : p = Before(j) + k
  /\ \A j \in DOMAIN Frames : \A k \in DOMAIN Frames[j] :
       Before(j) + k \in 1 .. Total /\ Packets[Before(j) + k] = Frames[j][k]
<1> DEFINE n == Len(Frames)
<1>1. /\ n \in Nat /\ DOMAIN Frames = 1 .. n /\ Frames \in Seq(Seq(Positions))
      /\ \A j \in 1 .. n : /\ Frames[j] \in Seq(Positions) /\ Len(Frames[j]) \in Nat
                           /\ DOMAIN Frames[j] = 1 .. Len(Frames[j])
  BY UnpackerConstants, ElementOfSeq, LenProperties
<1> HIDE DEF n
<1>2. CASE n = 0
  <2>1. Packets = Frames /\ Frames = << >>
    BY <1>1, <1>2, EmptySeq DEF Packets, FlattenSeq, n
  <2>2. QED
    BY <2>1 DEF Total
<1>3. CASE n # 0
  <2>1. PICK f : IsFlat(f, Frames, n) /\ Packets = f[n]
    BY <1>1, <1>3, FlatIs DEF Packets, n
  <2> DEFINE B(j) == IF j = 1 THEN 0 ELSE Len(f[j - 1])
  <2>2. \A i \in 1 .. n : f[i] = IF i = 1 THEN Frames[i] ELSE f[i - 1] \o Frames[i]
    BY <2>1 DEF IsFlat
  <2>3. ASSUME NEW j \in 1 .. n PROVE Before(j) = B(j)
    <3>1. CASE j = 1
      <4>1. SubSeq(Frames, 1, j - 1) = << >>
        BY <1>1, <3>1, SubSeqEmpty
      <4>2. QED
        BY <3>1, <4>1 DEF Before, FlattenSeq
    <3>2. CASE j # 1
      <4> DEFINE k == j - 1
                 t == SubSeq(Frames, 1, k)
      <4>1. k \in 1 .. n /\ k \in Nat
        BY <1>1, <3>2
      <4>2. Len(t) = k /\ \A i \in 1 .. k : t[i] = Frames[i]
        BY <1>1, <4>1, SubSeqProperties DEF n
      <4> HIDE DEF t, k
      <4>3. PICK g : IsFlat(g, t, k) /\ FlattenSeq(t) = g[k]
        BY <4>1, <4>2, FlatIs
      <4>4. g[k] = f[k]
        <5>1. k \in 0 .. n
          BY <4>1, <1>1
        <5>2. \A i \in 1 .. k : g[i] = f[i]
          <6>1. /\ n \in Nat /\ k \in 0 .. n /\ (\A i \in 1 .. k : t[i] = Frames[i])
                /\ IsFlat(f, Frames, n) /\ IsFlat(g, t, k)
            BY <1>1, <2>1, <4>2, <4>3, <5>1
          <6>2. QED
            BY <6>1, FlatBegins
        <5>3. QED
          BY <4>1, <5>2
      <4>5. QED
        BY <3>2, <4>3, <4>4 DEF Before, t, k
    <3>3. QED
      BY <3>1, <3>2
  <2> DEFINE
        Good(i) == /\ f[i] \in Seq(Positions)
                   /\ \A p \in 1 .. Len(f[i]) : \E j \in 1 .. i : \E k \in DOMAIN Frames[j] : p = B(j) + k
                   /\ \A j \in 1 .. i : B(j) \in Nat
                   /\ \A j \in 1 .. i : \A k \in DOMAIN Frames[j] :
                        B(j) + k \in 1 .. Len(f[i]) /\ f[i][B(j) + k] = Frames[j][k]
  <2>4. Good(1)
    <3>1. f[1] = Frames[1] /\ B(1) = 0 /\ 1 \in 1 .. 1
      BY <1>1, <1>3, <2>2
    <3>2. 1 \in 1 .. n /\ \A j \in 1 .. 1 : j = 1
      BY <1>1, <1>3
    <3> DEFINE a == Frames[1]
    <3>3. a \in Seq(Positions) /\ Len(a) \in Nat /\ DOMAIN a = 1 .. Len(a)
      BY <1>1, <3>2
    <3> HIDE DEF B, a
    <3>4. ASSUME NEW p \in 1 .. Len(a) PROVE \E j \in 1 .. 1 : \E k \in DOMAIN Frames[j] : p = B(j) + k
      <4>1. 1 \in 1 .. 1 /\ p \in DOMAIN Frames[1] /\ p = B(1) + p
        BY <3>1, <3>3 DEF a
      <4>2. QED
        BY <4>1
    <3>5. ASSUME NEW j \in 1 .. 1, NEW k \in DOMAIN Frames[j]
          PROVE  B(j) \in Nat /\ B(j) + k \in 1 .. Len(a) /\ a[B(j) + k] = Frames[j][k]
      <4>1. j = 1 /\ k \in 1 .. Len(a) /\ Frames[j] = a
        BY <3>2, <3>3 DEF a
      <4>2. QED
        BY <3>1, <3>3, <4>1
    <3>6. \A j \in 1 .. 1 : B(j) \in Nat
      BY <3>1, <3>2
    <3>7. f[1] = a
      BY <3>1 DEF a
    <3>8. QED
      BY <3>3, <3>4, <3>5, <3>6, <3>7
  <2>5. ASSUME NEW i \in 1 .. n - 1, Good(i) PROVE Good(i + 1)
    <3> DEFINE a == f[i]
               e == Frames[i + 1]
    <3>1. i + 1 \in 1 .. n /\ i + 1 # 1 /\ (i + 1) - 1 = i
      BY <1>1
    <3>2. a \in Seq(Positions) /\ e \in Seq(Positions) /\ f[i + 1] = a \o e /\ B(i + 1) = Len(a)
      BY <1>1, <2>2, <2>5, <3>1
    <3> DEFINE b == f[i + 1]
    <3>a. a = f[i] /\ e = Frames[i + 1]
      OBVIOUS
    <3> HIDE DEF a, e
    <3>3. /\ Len(a) \in Nat /\ Len(e) \in Nat /\ DOMAIN e = 1 .. Len(e) /\ b \in Seq(Positions)
          /\ Len(b) = Len(a) + Len(e)
          /\ \A p \in 1 .. Len(a) + Len(e) : b[p] = IF p <= Len(a) THEN a[p] ELSE e[p - Len(a)]
      <4>1. /\ Len(a \o e) = Len(a) + Len(e) /\ a \o e \in Seq(Positions)
            /\ \A p \in 1 .. Len(a) + Len(e) : (a \o e)[p] = IF p <= Len(a) THEN a[p] ELSE e[p - Len(a)]
        BY <3>2, ConcatProperties
      <4>2. Len(a) \in Nat /\ Len(e) \in Nat /\ DOMAIN e = 1 .. Len(e)
        BY <3>2, LenProperties
      <4>3. QED
        BY <3>2, <4>1, <4>2
    <3>4. /\ \A p \in 1 .. Len(a) : \E j \in 1 .. i : \E k \in DOMAIN Frames[j] : p = B(j) + k
          /\ \A j \in 1 .. i : B(j) \in Nat
          /\ \A j \in 1 .. i : \A k \in DOMAIN Frames[j] :
               B(j) + k \in 1 .. Len(a) /\ a[B(j) + k] = Frames[j][k]
      BY <2>5, <3>a
    <3> HIDE DEF B, b
    <3>5. ASSUME NEW p \in 1 .. Len(b)
          PROVE  \E j \in 1 .. i + 1 : \E k \in DOMAIN Frames[j] : p = B(j) + k
      <4>1. CASE p <= Len(a)
        <5>1. PICK j \in 1 .. i : \E k \in DOMAIN Frames[j] : p = B(j) + k
          BY <3>3, <3>4, <4>1
        <5>2. j \in 1 .. i + 1
          OBVIOUS
        <5>3. QED
          BY <5>1, <5>2
      <4>2. CASE p > Len(a)
        <5>1. p - Len(a) \in 1 .. Len(e) /\ p = Len(a) + (p - Len(a))
          BY <3>3, <4>2
        <5>2. p - Len(a) \in DOMAIN Frames[i + 1] /\ p = B(i + 1) + (p - Len(a))
          BY <5>1, <3>2, <3>3, <3>a
        <5>3. i + 1 \in 1 .. i + 1
          OBVIOUS
        <5>4. QED
          BY <5>2, <5>3
      <4>3. QED
        BY <3>3, <4>1, <4>2
    <3>6. ASSUME NEW j \in 1 .. i + 1, NEW k \in DOMAIN Frames[j]
          PROVE  B(j) \in Nat /\ B(j) + k \in 1 .. Len(b) /\ b[B(j) + k] = Frames[j][k]
      <4>1. CASE j = i + 1
        <5>1. B(j) = Len(a) /\ k \in 1 .. Len(e) /\ Frames[j] = e
          BY <3>2, <3>3, <3>a, <4>1
        <5>2. /\ Len(a) + k \in 1 .. Len(a) + Len(e) /\ ~ (Len(a) + k <= Len(a))
              /\ (Len(a) + k) - Len(a) = k
          BY <5>1, <3>3
        <5>3. b[Len(a) + k] = e[k]
          BY <5>2, <3>3
        <5>4. QED
          BY <5>1, <5>2, <5>3, <3>3
      <4>2. CASE j # i + 1
        <5>1. j \in 1 .. i
          BY <4>2
        <5>2. B(j) \in Nat /\ B(j) + k \in 1 .. Len(a) /\ a[B(j) + k] = Frames[j][k]
          BY <5>1, <3>4
        <5>3. QED
          BY <5>2, <3>3
      <4>3. QED
        BY <4>1, <4>2
    <3>7. \A j \in 1 .. i + 1 : B(j) \in Nat
      <4>1. \A j \in 1 .. i + 1 : j = i + 1 \/ j \in 1 .. i
        OBVIOUS
      <4>2. QED
        BY <3>2, <3>3, <3>4, <4>1
    <3>8. QED
      BY <3>3, <3>5, <3>6, <3>7 DEF b
  <2> HIDE DEF Good
  <2>6. Good(n)
    <3> DEFINE T == {i \in 0 .. n - 1 : Good(i + 1)}
    <3>1. 0 \in T /\ n - 1 \in Nat
      BY <1>1, <1>3, <2>4
    <3>2. ASSUME NEW i \in 0 .. (n - 1) - 1, i \in T PROVE i + 1 \in T
      <4>1. i + 1 \in 1 .. n - 1
        BY <1>1
      <4>2. QED
        BY <2>5, <3>2, <4>1
    <3> HIDE DEF T
    <3>3. \A i \in 0 .. n - 1 : i \in T
      BY <3>1, <3>2, InductionTo
    <3>4. n - 1 \in T /\ (n - 1) + 1 = n
      BY <1>1, <3>1, <3>3
    <3>5. QED
      BY <3>4 DEF T
  <2>7. /\ Packets \in Seq(Positions)
        /\ \A p \in 1 .. Len(Packets) : \E j \in 1 .. n : \E k \in DOMAIN Frames[j] : p = B(j) + k
        /\ \A j \in 1 .. n : B(j) \in Nat
        /\ \A j \in 1 .. n : \A k \in DOMAIN Frames[j] :
             B(j) + k \in 1 .. Len(Packets) /\ Packets[B(j) + k] = Frames[j][k]
    BY <2>1, <2>6 DEF Good
  <2> HIDE DEF B
  <2>8. \A j \in 1 .. n : Before(j) \in Nat /\ Before(j) = B(j)
    BY <2>3, <2>7
  <2>9. ASSUME NEW p \in 1 .. Total
        PROVE  \E j \in DOMAIN Frames : \E k \in DOMAIN Frames[j] : p = Before(j) + k
    <3>1. p \in 1 .. Len(Packets)
      BY DEF Total
    <3>2. PICK j \in 1 .. n : \E k \in DOMAIN Frames[j] : p = B(j) + k
      BY <2>7, <3>1
    <3>3. j \in DOMAIN Frames /\ Before(j) = B(j)
      BY <1>1, <2>8
    <3>4. QED
      BY <3>2, <3>3
  <2>10. ASSUME NEW j \in DOMAIN Frames, NEW k \in DOMAIN Frames[j]
         PROVE  Before(j) + k \in 1 .. Total /\ Packets[Before(j) + k] = Frames[j][k]
    <3>1. j \in 1 .. n /\ Before(j) = B(j)
      BY <1>1, <2>8
    <3>2. B(j) + k \in 1 .. Len(Packets) /\ Packets[B(j) + k] = Frames[j][k]
      BY <2>7, <3>1
    <3>3. QED
      BY <3>1, <3>2 DEF Total
  <2>11. QED
    BY <1>1, <2>7, <2>8, <2>9, <2>10
<1>4. QED
  BY <1>2, <1>3

----------------------------------------------------------------------------
(* What goes out: whole frames, in order.                                  *)

LEMMA PacketOrder ==
  ASSUME NEW p \in 1 .. Total, NEW q \in 1 .. Total
  PROVE  /\ CompareSeq(Seq16(p), Seq16(q)) = Sign(p - q)
         /\ SeqDiff(Seq16(p), Seq16(q)) = p - q
<1> DEFINE n == First + p
           m == First + q
<1>1. n \in Nat /\ m \in Nat /\ n - m = p - q /\ -Window < n - m /\ n - m < Window
  BY Widths, UnpackerConstants
<1>2. Seq16(p) = n % SeqModulus /\ Seq16(q) = m % SeqModulus
  BY DEF Seq16
<1> HIDE DEF n, m
<1>3. QED
  BY <1>1, <1>2, SeqArithmeticSound

LEMMA Beginning ==
  ASSUME NEW S, NEW l \in Seq(S), NEW n \in 1 .. Len(l)
  PROVE  /\ SubSeq(l, 1, n) \in Seq(S) /\ Len(SubSeq(l, 1, n)) = n
         /\ SubSeq(l, 1, n) = [i \in 1 .. n |-> l[i]]
<1>1. Len(l) \in Nat /\ \A i \in 1 .. n : l[i] \in S
  BY ElementOfSeq, LenProperties
<1> DEFINE s == SubSeq(l, 1, n)
<1>2. /\ s \in Seq(S) /\ Len(s) = n - 1 + 1
      /\ \A i \in 1 .. n - 1 + 1 : s[i] = l[1 + i - 1]
  <2>1. 1 \in Int /\ n \in Int /\ 1 <= n /\ \A i \in 1 .. n : l[i] \in S
    BY <1>1
  <2>2. QED
    BY <2>1, SubSeqProperties
<1> HIDE DEF s
<1>3. Len(s) = n /\ \A i \in 1 .. n : s[i] = l[i]
  <2>1. n - 1 + 1 = n /\ \A i \in 1 .. n : 1 + i - 1 = i
    BY <1>1
  <2>2. QED
    BY <1>2, <2>1
<1>4. s = [i \in 1 .. Len(s) |-> s[i]]
  BY <1>2, LenProperties
<1>5. s = [i \in 1 .. n |-> l[i]]
  BY <1>3, <1>4
<1>6. QED
  BY <1>2, <1>3, <1>5 DEF s

LEMMA Remainder ==
  ASSUME NEW S, NEW l \in Seq(S), NEW n \in 1 .. Len(l)
  PROVE  LET s == SubSeq(l, n + 1, Len(l))
         IN s \in Seq(S) /\ Len(s) = Len(l) - n /\ \A i \in 1 .. Len(s) : s[i] = l[n + i]
<1>1. Len(l) \in Nat /\ \A i \in 1 .. Len(l) : l[i] \in S
  BY ElementOfSeq, LenProperties
<1> DEFINE s == SubSeq(l, n + 1, Len(l))
           k == Len(l)
           b == n + 1
<1>2. /\ s \in Seq(S) /\ Len(s) = IF b <= k THEN k - b + 1 ELSE 0
      /\ \A i \in 1 .. k - b + 1 : s[i] = l[b + i - 1]
  <2>1. b \in Int /\ k \in Int /\ \A i \in b .. k : l[i] \in S
    BY <1>1
  <2> HIDE DEF b, k
  <2>2. QED
    BY <2>1, SubSeqProperties DEF s, b, k
<1> HIDE DEF s
<1>3. Len(s) = Len(l) - n
  BY <1>1, <1>2
<1>4. ASSUME NEW i \in 1 .. Len(s) PROVE s[i] = l[n + i]
  <2>1. i \in 1 .. k - b + 1 /\ b + i - 1 = n + i
    BY <1>1, <1>3
  <2>2. QED
    BY <1>2, <2>1
<1>5. QED
  BY <1>2, <1>3, <1>4 DEF s

\* A packet's position tells where in which frame it is.
LEMMA FrameOfSingle ==
  ASSUME NEW p \in 1 .. Total, Packets[p] \in {"single", "stap"}
  PROVE  \E j \in DOMAIN Frames : Len(Frames[j]) = 1 /\ p = Before(j) + 1
<1>0. PICK j \in DOMAIN Frames : \E k \in DOMAIN Frames[j] : p = Before(j) + k
  BY WhereFramesAre
<1>1. PICK k \in DOMAIN Frames[j] : p = Before(j) + k
  BY <1>0
<1>2. Packets[p] = Frames[j][k]
  BY <1>1, WhereFramesAre
<1>3. /\ WellCut(Frames[j]) /\ Len(Frames[j]) \in Nat /\ DOMAIN Frames[j] = 1 .. Len(Frames[j])
  BY UnpackerConstants, ElementOfSeq, LenProperties
<1>4. Len(Frames[j]) = 1
  <2> SUFFICES ASSUME Len(Frames[j]) > 1 PROVE FALSE
    BY <1>3 DEF WellCut
  <2>1. k = 1 \/ k = Len(Frames[j]) \/ k \in 2 .. Len(Frames[j]) - 1
    BY <1>3
  <2>2. Frames[j][k] \in {"start", "end", "mid"}
    BY <1>3, <2>1 DEF WellCut
  <2>3. QED
    BY <1>2, <2>2
<1>5. QED
  BY <1>1, <1>3, <1>4

LEMMA FrameOfStart ==
  ASSUME NEW p \in 1 .. Total, Packets[p] = "start"
  PROVE  \E j \in DOMAIN Frames : Len(Frames[j]) > 1 /\ p = Before(j) + 1
<1>0. PICK j \in DOMAIN Frames : \E k \in DOMAIN Frames[j] : p = Before(j) + k
  BY WhereFramesAre
<1>1. PICK k \in DOMAIN Frames[j] : p = Before(j) + k
  BY <1>0
<1>2. Frames[j][k] = "start"
  BY <1>1, WhereFramesAre
<1>3. /\ WellCut(Frames[j]) /\ Len(Frames[j]) \in Nat /\ DOMAIN Frames[j] = 1 .. Len(Frames[j])
  BY UnpackerConstants, ElementOfSeq, LenProperties
<1>4. Len(Frames[j]) > 1
  <2> SUFFICES ASSUME Len(Frames[j]) = 1 PROVE FALSE
    BY <1>3 DEF WellCut
  <2>1. Frames[j][k] = Frames[j][1]
    BY <1>3
  <2>2. QED
    BY <1>2, <1>3, <2>1 DEF WellCut
<1>5. k = 1
  BY <1>2, <1>3, <1>4 DEF WellCut
<1>6. QED
  BY <1>1, <1>4, <1>5

Closes(l, n) ==
  /\ Packets[l[1]] = "start" /\ n > 1 /\ Packets[l[n]] = "end"
  /\ \A i \in 2 .. (n - 1) : Packets[l[i]] = "mid"
  /\ \A i \in 2 .. n : SeqDiff(Seq16(l[i]), Seq16(l[i - 1])) = 1

IsFrame(f) == \E j \in DOMAIN Frames : f = FrameAt(j)

LEMMA FrameIs ==
  ASSUME NEW j \in DOMAIN Frames
  PROVE  /\ FrameAt(j) = [k \in DOMAIN Frames[j] |-> Before(j) + k]
         /\ DOMAIN Frames[j] = 1 .. Len(Frames[j]) /\ Len(Frames[j]) \in Nat /\ Before(j) \in Nat
<1>1. DOMAIN Frames[j] = 1 .. Len(Frames[j]) /\ Len(Frames[j]) \in Nat
  BY UnpackerConstants, ElementOfSeq, LenProperties
<1>2. QED
  BY <1>1, WhereFramesAre DEF FrameAt, Before

\* Packets without a gap between them, from a start to the first end, are a frame.
LEMMA ClosedIsFrame ==
  ASSUME NEW l \in Seq(1 .. Total), NEW n \in 1 .. Len(l), Closes(l, n)
  PROVE  IsFrame(SubSeq(l, 1, n))
<1>1. /\ Len(l) \in Nat /\ n \in Nat /\ n > 1
      /\ \A i \in 1 .. n : l[i] \in 1 .. Total
  <2>1. Len(l) \in Nat /\ \A i \in 1 .. Len(l) : l[i] \in 1 .. Total
    BY ElementOfSeq, LenProperties
  <2>2. n > 1
    BY DEF Closes
  <2>3. QED
    BY <2>1, <2>2
<1>2. \A i \in 1 .. n : l[i] = l[1] + (i - 1)
  <2> DEFINE T == {i \in 0 .. n - 1 : l[i + 1] = l[1] + i}
  <2>1. 0 \in T /\ n - 1 \in Nat
    BY <1>1
  <2>2. ASSUME NEW i \in 0 .. (n - 1) - 1, i \in T PROVE i + 1 \in T
    <3> DEFINE k == i + 2
    <3>1. k \in 2 .. n /\ k \in 1 .. n /\ k - 1 = i + 1 /\ k - 1 \in 1 .. n /\ i + 1 \in 0 .. n - 1
      BY <1>1
    <3> HIDE DEF k
    <3>2. SeqDiff(Seq16(l[k]), Seq16(l[k - 1])) = 1 /\ l[k] \in 1 .. Total /\ l[k - 1] \in 1 .. Total
      BY <1>1, <3>1 DEF Closes
    <3>3. l[k] - l[k - 1] = 1
      BY <3>2, PacketOrder
    <3>4. l[k - 1] = l[1] + i
      BY <2>2, <3>1
    <3>5. l[k] = l[1] + (i + 1) /\ l[1] \in Nat
      <4>1. l[1] \in 1 .. Total /\ 1 .. Total \subseteq Nat
        BY <1>1, Widths
      <4>2. l[1] \in Nat /\ l[k] \in Nat /\ l[k - 1] \in Nat
        BY <3>2, <4>1
      <4>3. i \in Nat
        BY <1>1
      <4> DEFINE a == l[1]
                 b == l[k]
                 c == l[k - 1]
      <4>4. a \in Nat /\ b \in Nat /\ c \in Nat /\ b - c = 1 /\ c = a + i
        BY <3>3, <3>4, <4>2
      <4> HIDE DEF a, b, c
      <4>5. b = a + (i + 1)
        BY <4>3, <4>4
      <4>6. QED
        BY <4>4, <4>5 DEF a, b
    <3>6. k = (i + 1) + 1
      BY DEF k
    <3>7. QED
      BY <3>1, <3>5, <3>6
  <2> HIDE DEF T
  <2>3. \A i \in 0 .. n - 1 : i \in T
    BY <2>1, <2>2, InductionTo
  <2>4. ASSUME NEW i \in 1 .. n PROVE l[i] = l[1] + (i - 1)
    <3>1. i - 1 \in T /\ (i - 1) + 1 = i
      BY <1>1, <2>3
    <3>2. QED
      BY <3>1 DEF T
  <2>5. QED
    BY <2>4
<1>3. l[1] \in 1 .. Total /\ Packets[l[1]] = "start"
  BY <1>1 DEF Closes
<1>4. PICK j \in DOMAIN Frames : Len(Frames[j]) > 1 /\ l[1] = Before(j) + 1
  BY <1>3, FrameOfStart
<1> DEFINE L == Len(Frames[j])
           b == Before(j)
<1>5. L \in Nat /\ b \in Nat /\ DOMAIN Frames[j] = 1 .. L /\ L > 1
      /\ FrameAt(j) = [k \in 1 .. L |-> b + k]
  BY <1>4, FrameIs
<1>6. \A k \in 1 .. L : Packets[b + k] = Frames[j][k]
  BY <1>5, WhereFramesAre
<1>7. WellCut(Frames[j]) /\ l[1] = b + 1
  BY <1>4, UnpackerConstants
<1> HIDE DEF b
<1>8. \A i \in 1 .. n : l[i] = b + i
  BY <1>1, <1>2, <1>5, <1>7
<1>9. Frames[j][L] = "end" /\ \A k \in 2 .. L - 1 : Frames[j][k] = "mid"
  <2>1. WellCut(Frames[j]) /\ Len(Frames[j]) > 1
    BY <1>4, <1>7
  <2>2. QED
    BY <2>1 DEF WellCut
<1> HIDE DEF L
<1>10. n = L
  <2>1. CASE n < L
    <3>1. n \in 2 .. L - 1 /\ n \in 1 .. L /\ n \in 1 .. n
      BY <1>1, <1>5, <2>1
    <3>2. Packets[l[n]] = "mid"
      BY <1>6, <1>8, <1>9, <3>1
    <3>3. QED
      BY <3>2 DEF Closes
  <2>2. CASE n > L
    <3>1. L \in 2 .. n - 1 /\ L \in 1 .. n /\ L \in 1 .. L
      BY <1>1, <1>5, <2>2
    <3>2. Packets[l[L]] = "end"
      BY <1>6, <1>8, <1>9, <3>1
    <3>3. QED
      BY <3>1, <3>2 DEF Closes
  <2>3. QED
    BY <1>1, <1>5, <2>1, <2>2
<1>11. SubSeq(l, 1, n) = [k \in 1 .. L |-> b + k]
  <2>1. SubSeq(l, 1, n) = [k \in 1 .. n |-> l[k]]
    BY <1>1, Beginning
  <2>2. QED
    BY <1>8, <1>10, <2>1
<1>12. QED
  BY <1>5, <1>11 DEF IsFrame

LEMMA SingleIsFrame ==
  ASSUME NEW l \in Seq(1 .. Total), 1 \in 1 .. Len(l), Packets[l[1]] \in {"single", "stap"}
  PROVE  IsFrame(SubSeq(l, 1, 1))
<1>1. l[1] \in 1 .. Total
  BY ElementOfSeq
<1>2. PICK j \in DOMAIN Frames : Len(Frames[j]) = 1 /\ l[1] = Before(j) + 1
  BY <1>1, FrameOfSingle
<1>3. FrameAt(j) = [k \in 1 .. 1 |-> Before(j) + k]
  BY <1>2, FrameIs
<1>4. SubSeq(l, 1, 1) = [k \in 1 .. 1 |-> Before(j) + k]
  <2>1. SubSeq(l, 1, 1) = [k \in 1 .. 1 |-> l[k]]
    BY Beginning
  <2>2. \A k \in 1 .. 1 : l[k] = Before(j) + k
    BY <1>2
  <2>3. QED
    BY <2>1, <2>2
<1>5. QED
  BY <1>3, <1>4 DEF IsFrame

\* frontLen finds a frame at the head of the list, or nothing.
LEMMA FrontIsFrame ==
  ASSUME NEW l \in Seq(1 .. Total)
  PROVE  /\ frontLen(l) \in 0 .. Len(l)
         /\ frontLen(l) > 0 => IsFrame(SubSeq(l, 1, frontLen(l)))
<1>1. Len(l) \in Nat /\ DOMAIN l = 1 .. Len(l)
  BY LenProperties
<1>2. CASE l = << >>
  BY <1>1, <1>2 DEF frontLen
<1>3. CASE l # << >>
  <2>1. 1 \in 1 .. Len(l)
    BY <1>1, <1>3, EmptySeq
  <2>2. CASE Packets[l[1]] \in {"single", "stap"}
    <3>1. frontLen(l) = 1
      BY <1>3, <2>2 DEF frontLen
    <3>2. QED
      BY <2>1, <2>2, <3>1, SingleIsFrame
  <2>3. CASE Packets[l[1]] \notin {"single", "stap"}
    <3>1. frontLen(l) = IF \E n \in DOMAIN l : Closes(l, n)
                        THEN CHOOSE n \in DOMAIN l : Closes(l, n) ELSE 0
      BY <1>3, <2>3 DEF frontLen, Closes
    <3>2. CASE \E n \in DOMAIN l : Closes(l, n)
      <4>1. frontLen(l) \in DOMAIN l /\ Closes(l, frontLen(l))
        BY <3>1, <3>2
      <4>2. QED
        BY <1>1, <4>1, ClosedIsFrame
    <3>3. CASE ~ \E n \in DOMAIN l : Closes(l, n)
      BY <1>1, <3>1, <3>3
    <3>4. QED
      BY <3>2, <3>3
  <2>4. QED
    BY <2>2, <2>3
<1>4. QED
  BY <1>2, <1>3

Ordered(l) == \A i, j \in 1 .. Len(l) : i < j => l[i] < l[j]
InOrder(o) == \A i, j \in 1 .. Len(o) : i < j => Last(o[i]) < Head(o[j])
\* The packets p are newer than all that went out.
Newer(o, p) == o # << >> => p > Last(Last(o))

Sound(s) ==
  /\ s \in Unpacker
  /\ Len(s.list) <= s.size /\ Ordered(s.list)
  /\ s.flag = (s.out # << >>)
  /\ \A i \in 1 .. Len(s.out) : s.out[i] # << >> /\ IsFrame(s.out[i])
  /\ InOrder(s.out)
  /\ s.out # << >> => s.seq = Seq16(Last(Last(s.out)))
  /\ \A i \in 1 .. Len(s.list) : Newer(s.out, s.list[i])

LEMMA FieldTypes ==
  ASSUME NEW s \in Unpacker
  PROVE  /\ s.list \in Seq(1 .. Total) /\ s.size \in Nat /\ s.flag \in BOOLEAN
         /\ s.seq \in 0 .. SeqModulus - 1 /\ s.out \in Seq(Seq(1 .. Total))
         /\ Len(s.list) \in Nat /\ \A i \in 1 .. Len(s.list) : s.list[i] \in 1 .. Total
         /\ Len(s.out) \in Nat /\ \A i \in 1 .. Len(s.out) : s.out[i] \in Seq(1 .. Total)
<1>1. /\ s.list \in Seq(1 .. Total) /\ s.size \in Nat /\ s.flag \in BOOLEAN
      /\ s.seq \in 0 .. SeqModulus - 1 /\ s.out \in Seq(Seq(1 .. Total))
  BY DEF Unpacker
<1>2. QED
  BY <1>1, ElementOfSeq, LenProperties

\* The last packet that went out.
LEMMA LastOut ==
  ASSUME NEW o \in Seq(Seq(1 .. Total)), o # << >>, \A i \in 1 .. Len(o) : o[i] # << >>
  PROVE  /\ Len(o) \in 1 .. Len(o) /\ Last(o) = o[Len(o)] /\ Last(Last(o)) \in 1 .. Total
<1>1. Len(o) \in Nat /\ Len(o) # 0
  BY LenProperties, EmptySeq
<1>2. Last(o) \in Seq(1 .. Total) /\ Last(o) # << >> /\ Last(o) = o[Len(o)] /\ Len(o) \in 1 .. Len(o)
  BY <1>1, ElementOfSeq DEF Last
<1> DEFINE f == Last(o)
<1> HIDE DEF f
<1>3. Len(f) \in Nat /\ Len(f) # 0
  BY <1>2, LenProperties, EmptySeq DEF f
<1>4. f[Len(f)] \in 1 .. Total
  <2>1. f \in Seq(1 .. Total) /\ Len(f) \in 1 .. Len(f)
    BY <1>2, <1>3 DEF f
  <2>2. QED
    BY <2>1, ElementOfSeq
<1>5. QED
  BY <1>2, <1>4 DEF f, Last

LEMMA EndsOfFrame ==
  ASSUME NEW f \in Seq(1 .. Total), f # << >>
  PROVE  /\ Len(f) \in Nat /\ Len(f) >= 1 /\ Head(f) = f[1] /\ Last(f) = f[Len(f)]
         /\ Head(f) \in 1 .. Total /\ Last(f) \in 1 .. Total
<1>1. Len(f) \in Nat /\ Len(f) # 0
  BY LenProperties, EmptySeq
<1>2. \A i \in 1 .. Len(f) : f[i] \in 1 .. Total
  BY ElementOfSeq
<1>3. Head(f) = f[1]
  BY HeadTailProperties
<1>4. QED
  BY <1>1, <1>2, <1>3 DEF Last

LEMMA FrameAscends ==
  ASSUME NEW f \in Seq(1 .. Total), f # << >>, IsFrame(f)
  PROVE  Head(f) <= Last(f)
<1>1. PICK j \in DOMAIN Frames : f = FrameAt(j)
  BY DEF IsFrame
<1>2. f = [k \in 1 .. Len(Frames[j]) |-> Before(j) + k] /\ Len(Frames[j]) \in Nat /\ Before(j) \in Nat
  BY <1>1, FrameIs
<1>3. Len(f) \in Nat /\ Len(f) >= 1 /\ Head(f) = f[1] /\ Last(f) = f[Len(f)]
  BY EndsOfFrame
<1>4. DOMAIN f = 1 .. Len(f)
  BY LenProperties
<1>5. 1 \in DOMAIN f /\ Len(f) \in DOMAIN f
  BY <1>3, <1>4
<1>6. f[1] = Before(j) + 1 /\ f[Len(f)] = Before(j) + Len(f)
  BY <1>2, <1>5
<1>7. QED
  BY <1>2, <1>3, <1>6

\* A frame from the head of the list.
LEMMA unpackOneSound ==
  ASSUME NEW s, Sound(s)
  PROVE  /\ Sound(unpackOne(s))
         /\ unpackOne(s) = s \/ unpackOne(s).size < s.size
<1> DEFINE n == frontLen(s.list)
           l == s.list
           o == s.out
           f == SubSeq(l, 1, n)
           u == unpackOne(s)
<1>1. /\ s \in Unpacker /\ Len(l) <= s.size /\ Ordered(l) /\ s.flag = (o # << >>) /\ InOrder(o)
      /\ \A i \in 1 .. Len(o) : o[i] # << >> /\ IsFrame(o[i])
      /\ \A i \in 1 .. Len(l) : Newer(o, l[i])
  BY DEF Sound
<1>2. /\ l \in Seq(1 .. Total) /\ o \in Seq(Seq(1 .. Total)) /\ s.size \in Nat
      /\ Len(l) \in Nat /\ \A i \in 1 .. Len(l) : l[i] \in 1 .. Total
      /\ Len(o) \in Nat
  BY <1>1, FieldTypes
<1>3. n \in 0 .. Len(l) /\ (n > 0 => IsFrame(f))
  BY <1>2, FrontIsFrame
<1>4. CASE n = 0
  <2>1. u = s
    BY <1>4 DEF unpackOne
  <2>2. QED
    BY <2>1
<1>5. CASE n # 0
  <2> DEFINE r == SubSeq(l, n + 1, Len(l))
             q == Append(o, f)
  <2>1. n \in 1 .. Len(l) /\ n > 0
    BY <1>2, <1>3, <1>5
  <2>2. /\ u.list = r /\ u.size = s.size - n /\ u.flag = TRUE /\ u.seq = Seq16(l[n]) /\ u.out = q
        /\ u = [list |-> r, size |-> s.size - n, flag |-> TRUE, seq |-> Seq16(l[n]), out |-> q]
    BY <1>1, <1>5 DEF unpackOne, Unpacker
  <2> HIDE DEF n, u
  <2>3. f \in Seq(1 .. Total) /\ Len(f) = n /\ \A i \in 1 .. n : f[i] = l[i]
    BY <1>2, <2>1, Beginning
  <2>4. r \in Seq(1 .. Total) /\ Len(r) = Len(l) - n /\ \A i \in 1 .. Len(r) : r[i] = l[n + i]
    BY <1>2, <2>1, Remainder
  <2> HIDE DEF f, r
  <2>5. /\ q \in Seq(Seq(1 .. Total)) /\ Len(q) = Len(o) + 1 /\ q[Len(o) + 1] = f
        /\ \A i \in 1 .. Len(o) : q[i] = o[i]
    BY <1>2, <2>3, AppendProperties
  <2>6. f # << >> /\ Last(f) = l[n] /\ Head(f) = l[1] /\ l[1] \in 1 .. Total /\ l[n] \in 1 .. Total
    <3>1. f # << >>
      BY <2>1, <2>3, EmptySeq
    <3>2. Head(f) = f[1]
      BY <2>3, <3>1, HeadTailProperties
    <3>3. 1 \in 1 .. n /\ n \in 1 .. n /\ 1 \in 1 .. Len(l)
      BY <1>2, <2>1
    <3>4. QED
      BY <1>2, <2>1, <2>3, <3>1, <3>2, <3>3 DEF Last
  <2> HIDE DEF q, l, o
  <2>7. q # << >> /\ Last(q) = f /\ Last(Last(q)) = l[n]
    BY <1>2, <2>5, <2>6, EmptySeq DEF Last
  <2>8. u \in Unpacker /\ Len(u.list) <= u.size /\ u.size < s.size
    <3>1. s.size - n \in Nat /\ Len(r) <= s.size - n /\ s.size - n < s.size
      BY <1>1, <1>2, <2>1, <2>4 DEF l
    <3>2. Seq16(l[n]) \in 0 .. SeqModulus - 1
      BY <2>6, Widths, UnpackerConstants DEF Seq16
    <3>3. QED
      BY <2>2, <2>4, <2>5, <3>1, <3>2 DEF Unpacker
  <2>9. Ordered(u.list)
    <3>1. ASSUME NEW i \in 1 .. Len(r), NEW j \in 1 .. Len(r), i < j PROVE r[i] < r[j]
      <4>1. n + i \in 1 .. Len(l) /\ n + j \in 1 .. Len(l) /\ n + i < n + j
        BY <1>2, <2>1, <2>4, <3>1
      <4>2. l[n + i] < l[n + j]
        BY <1>1, <4>1 DEF Ordered
      <4>3. QED
        BY <2>4, <4>2
    <3>2. QED
      BY <2>2, <3>1 DEF Ordered
  <2>10. ASSUME NEW i \in 1 .. Len(q) PROVE q[i] # << >> /\ IsFrame(q[i])
    <3>1. CASE i = Len(o) + 1
      BY <1>3, <2>1, <2>5, <2>6, <3>1
    <3>2. CASE i # Len(o) + 1
      <4>1. i \in 1 .. Len(o)
        BY <1>2, <2>5, <3>2
      <4>2. QED
        BY <1>1, <2>5, <4>1 DEF o
    <3>3. QED
      BY <3>1, <3>2
  <2>11. InOrder(q)
    <3> SUFFICES ASSUME NEW i \in 1 .. Len(q), NEW j \in 1 .. Len(q), i < j
                 PROVE  Last(q[i]) < Head(q[j])
      BY DEF InOrder
    <3>0. i \in 1 .. Len(o)
      <4>1. Len(o) \in Nat /\ Len(q) = Len(o) + 1
        BY <1>2, <2>5
      <4>2. QED
        BY <4>1
    <3>1. i \in 1 .. Len(o) /\ q[i] = o[i]
      BY <2>5, <3>0
    <3>2. CASE j \in 1 .. Len(o)
      <4>1. q[j] = o[j]
        BY <2>5, <3>2
      <4>2. InOrder(o)
        BY <1>1 DEF o
      <4>3. QED
        BY <3>1, <3>2, <4>1, <4>2 DEF InOrder
    <3>3. CASE j = Len(o) + 1
      <4>1. o # << >> /\ o \in Seq(Seq(1 .. Total)) /\ \A k \in 1 .. Len(o) : o[k] # << >>
        BY <1>1, <1>2, <3>1, EmptySeq DEF o
      <4>2. Last(Last(o)) < l[1] /\ Last(Last(o)) \in 1 .. Total
        <5>1. Newer(o, l[1])
          BY <1>1, <1>2, <2>1 DEF o, l
        <5>2. QED
          BY <2>6, <4>1, <5>1, LastOut DEF Newer
      <4>3. Last(o) = o[Len(o)] /\ Len(o) \in 1 .. Len(o)
        BY <4>1, LastOut
      <4>4. i = Len(o) \/ Last(o[i]) < Head(o[Len(o)])
        <5>1. InOrder(o) /\ (i = Len(o) \/ i < Len(o))
          BY <1>1, <1>2, <3>1 DEF o
        <5>2. QED
          BY <3>1, <4>3, <5>1 DEF InOrder
      <4>5. Head(o[Len(o)]) <= Last(o[Len(o)])
        <5>1. IsFrame(o[Len(o)]) /\ o[Len(o)] # << >> /\ o[Len(o)] \in Seq(1 .. Total)
          BY <1>1, <1>2, <4>1, <4>3, ElementOfSeq DEF o
        <5>2. QED
          BY <5>1, FrameAscends
      <4>6. Last(o[i]) \in Int /\ Head(o[Len(o)]) \in Int /\ Last(o[Len(o)]) \in Int
        <5>1. \A k \in 1 .. Len(o) : o[k] \in Seq(1 .. Total) /\ o[k] # << >>
          BY <4>1, ElementOfSeq
        <5>2. /\ o[i] \in Seq(1 .. Total) /\ o[i] # << >>
              /\ o[Len(o)] \in Seq(1 .. Total) /\ o[Len(o)] # << >>
          BY <3>1, <4>3, <5>1
        <5>3. /\ Last(o[i]) \in 1 .. Total /\ Head(o[Len(o)]) \in 1 .. Total
              /\ Last(o[Len(o)]) \in 1 .. Total
          BY <5>2, EndsOfFrame
        <5>4. QED
          BY <5>3
      <4>7. Last(o[i]) < l[1]
        BY <2>6, <4>2, <4>3, <4>4, <4>5, <4>6
      <4>8. QED
        BY <2>5, <2>6, <3>1, <3>3, <4>7
    <3>4. j \in 1 .. Len(o) \/ j = Len(o) + 1
      <4>1. Len(q) = Len(o) + 1 /\ Len(o) \in Nat /\ j \in 1 .. Len(q)
        BY <1>2, <2>5
      <4>2. QED
        BY <4>1
    <3>5. QED
      BY <3>2, <3>3, <3>4
  <2>12. ASSUME NEW i \in 1 .. Len(r) PROVE Newer(q, r[i])
    <3>1. n + i \in 1 .. Len(l) /\ n \in 1 .. Len(l) /\ n < n + i
      BY <1>2, <2>1, <2>4
    <3>2. l[n] < l[n + i]
      BY <1>1, <3>1 DEF Ordered
    <3>3. r[i] > l[n]
      BY <1>2, <2>4, <2>6, <3>1, <3>2 DEF l
    <3>4. QED
      BY <2>7, <3>3 DEF Newer
  <2>13. QED
    BY <2>2, <2>7, <2>8, <2>9, <2>10, <2>11, <2>12 DEF Sound, u
<1>6. QED
  BY <1>4, <1>5

LEMMA unpackOneSequentialSound ==
  ASSUME NEW s, Sound(s)
  PROVE  /\ Sound(unpackOneSequential(s))
         /\ unpackOneSequential(s) = s \/ unpackOneSequential(s).size < s.size
BY unpackOneSound DEF unpackOneSequential

LEMMA unpackAllSound ==
  ASSUME NEW r, Sound(r)
  PROVE  /\ Sound(unpackAll(r))
         /\ unpackAll(r) = r \/ unpackAll(r).size < r.size
<1>1. r \in Unpacker /\ Len(r.list) \in Nat /\ r.size \in Nat
  BY FieldTypes DEF Sound
<1> DEFINE S == {s \in Unpacker : Sound(s) /\ (s = r \/ s.size < r.size)}
<1>2. r \in S
  BY <1>1
<1>3. ASSUME NEW s \in S PROVE unpackOneSequential(s) \in S
  <2> DEFINE t == unpackOneSequential(s)
  <2>1. Sound(t) /\ (t = s \/ t.size < s.size)
    BY unpackOneSequentialSound
  <2> HIDE DEF t
  <2>2. t \in Unpacker /\ t.size \in Nat /\ s.size \in Nat
    BY <2>1, FieldTypes DEF Sound
  <2>3. t = r \/ t.size < r.size
    BY <1>1, <2>1, <2>2
  <2>4. QED
    BY <2>1, <2>2, <2>3 DEF t
<1> HIDE DEF S
<1>4. unpackAll(r) \in S
  BY <1>1, <1>2, <1>3, LoopKeeps
<1>5. QED
  BY <1>4 DEF S

LEMMA InsertedAt ==
  ASSUME NEW S, NEW l \in Seq(S), NEW i \in 1 .. Len(l) + 1, NEW p \in S
  PROVE  LET k == InsertAt(l, i, p)
         IN  /\ k \in Seq(S) /\ Len(k) = Len(l) + 1
             /\ \A j \in 1 .. Len(l) + 1 :
                  k[j] = IF j < i THEN l[j] ELSE IF j = i THEN p ELSE l[j - 1]
<1> DEFINE a == SubSeq(l, 1, i - 1)
           b == SubSeq(l, i, Len(l))
           c == a \o << p >>
           k == c \o b
           h == i - 1
           n == Len(l)
<1>1. n \in Nat /\ \A j \in 1 .. n : l[j] \in S
  BY ElementOfSeq, LenProperties
<1>2. a \in Seq(S) /\ Len(a) = i - 1 /\ \A j \in 1 .. i - 1 : a[j] = l[j]
  <2>1. 1 \in Int /\ h \in Int /\ \A j \in 1 .. h : l[j] \in S
    BY <1>1
  <2> HIDE DEF h
  <2>2. /\ SubSeq(l, 1, h) \in Seq(S) /\ Len(SubSeq(l, 1, h)) = IF 1 <= h THEN h - 1 + 1 ELSE 0
        /\ \A j \in 1 .. h - 1 + 1 : SubSeq(l, 1, h)[j] = l[1 + j - 1]
    BY <2>1, SubSeqProperties
  <2>3. h = i - 1 /\ h >= 0
    BY <1>1 DEF h
  <2>4. h - 1 + 1 = h /\ \A j \in 1 .. h : 1 + j - 1 = j
    BY <2>1
  <2>5. QED
    BY <2>1, <2>2, <2>3, <2>4
<1>3. b \in Seq(S) /\ Len(b) = n - i + 1 /\ \A j \in 1 .. n - i + 1 : b[j] = l[i + j - 1]
  <2>1. i \in Int /\ n \in Int /\ \A j \in i .. n : l[j] \in S
    BY <1>1
  <2> HIDE DEF n
  <2>2. /\ SubSeq(l, i, n) \in Seq(S) /\ Len(SubSeq(l, i, n)) = IF i <= n THEN n - i + 1 ELSE 0
        /\ \A j \in 1 .. n - i + 1 : SubSeq(l, i, n)[j] = l[i + j - 1]
    BY <2>1, SubSeqProperties
  <2>3. i <= n + 1
    BY <1>1 DEF n
  <2>4. QED
    BY <2>1, <2>2, <2>3 DEF n
<1> HIDE DEF a, b, n
<1>4. << p >> \in Seq(S) /\ Len(<< p >>) = 1 /\ << p >>[1] = p
  OBVIOUS
<1>5. /\ c \in Seq(S) /\ Len(c) = i
      /\ \A j \in 1 .. i : c[j] = IF j < i THEN l[j] ELSE p
  <2> DEFINE z == << p >>
  <2>1. z \in Seq(S) /\ Len(z) = 1 /\ z[1] = p
    BY <1>4
  <2> HIDE DEF z
  <2>2. /\ a \o z \in Seq(S) /\ Len(a \o z) = Len(a) + Len(z)
        /\ \A j \in 1 .. Len(a) + Len(z) : (a \o z)[j] = IF j <= Len(a) THEN a[j] ELSE z[j - Len(a)]
    BY <1>2, <2>1, ConcatProperties
  <2>3. i \in Int /\ i >= 1
    BY <1>1 DEF n
  <2>4. ASSUME NEW j \in 1 .. i PROVE (a \o z)[j] = IF j < i THEN l[j] ELSE p
    <3>1. CASE j < i
      BY <1>2, <2>1, <2>2, <2>3, <3>1
    <3>2. CASE j = i
      <4>1. (a \o z)[j] = z[j - (i - 1)] /\ j - (i - 1) = 1
        BY <1>2, <2>1, <2>2, <2>3, <3>2
      <4>2. QED
        BY <2>1, <2>3, <3>2, <4>1
    <3>3. j < i \/ j = i
      BY <2>3
    <3>4. QED
      BY <3>1, <3>2, <3>3
  <2>5. QED
    BY <1>2, <2>1, <2>2, <2>3, <2>4 DEF z
<1> HIDE DEF c
<1>6. /\ k \in Seq(S) /\ Len(k) = Len(c) + Len(b)
      /\ \A j \in 1 .. Len(c) + Len(b) : k[j] = IF j <= Len(c) THEN c[j] ELSE b[j - Len(c)]
  BY <1>3, <1>5, ConcatProperties
<1> HIDE DEF k
<1>7. i \in Int /\ i >= 1 /\ i <= n + 1 /\ Len(c) + Len(b) = n + 1
  BY <1>1, <1>3, <1>5 DEF n
<1>8. ASSUME NEW j \in 1 .. n + 1
      PROVE  k[j] = IF j < i THEN l[j] ELSE IF j = i THEN p ELSE l[j - 1]
  <2>1. CASE j <= i
    BY <1>1, <1>5, <1>6, <1>7, <2>1
  <2>2. CASE j > i
    <3>1. j - i \in 1 .. n - i + 1 /\ i + (j - i) - 1 = j - 1
      BY <1>1, <1>7, <2>2
    <3>2. k[j] = b[j - i]
      <4>1. j \in 1 .. Len(c) + Len(b) /\ ~ (j <= Len(c)) /\ Len(c) = i
        BY <1>5, <1>7, <2>2
      <4>2. QED
        BY <1>6, <4>1
    <3>3. b[j - i] = l[i + (j - i) - 1]
      BY <1>3, <3>1
    <3>4. QED
      BY <1>7, <2>2, <3>1, <3>2, <3>3
  <2>3. QED
    BY <1>1, <1>7, <2>1, <2>2
<1>9. InsertAt(l, i, p) = k
  BY DEF InsertAt, k, c, a, b
<1>10. QED
  BY <1>6, <1>7, <1>8, <1>9 DEF n

InList(s, q) == \E i \in 1 .. Len(s.list) : s.list[i] = q

\* A packet that is not stale keeps the list sorted.
LEMMA insertSound ==
  ASSUME NEW s, Sound(s), NEW p \in 1 .. Total, Newer(s.out, p)
  PROVE  /\ Sound(insert(s, p)) /\ insert(s, p).size = s.size + 1 /\ insert(s, p).out = s.out
         /\ insert(s, p).list # << >>
         /\ \A q \in 1 .. Total : InList(insert(s, p), q) <=> InList(s, q) \/ q = p
         /\ \/ insert(s, p).list = s.list /\ InList(s, p)
            \/ Len(insert(s, p).list) = Len(s.list) + 1
<1> DEFINE l == s.list
           end == Len(l) + 1
           compared(i) == CompareSeq(Seq16(p), Seq16(l[i]))
           Place(i) == (i < end => compared(i) <= 0) /\ \A j \in 1 .. (i - 1) : compared(j) > 0
           place == CHOOSE i \in 1 .. end : Place(i)
           there == place < end /\ compared(place) = 0
           k == IF there THEN l ELSE InsertAt(l, place, p)
           r == insert(s, p)
<1>1. /\ s \in Unpacker /\ Len(l) <= s.size /\ Ordered(l) /\ s.size \in Nat
      /\ l \in Seq(1 .. Total) /\ Len(l) \in Nat /\ \A i \in 1 .. Len(l) : l[i] \in 1 .. Total
      /\ s.out \in Seq(Seq(1 .. Total))
  BY FieldTypes DEF Sound
<1>2. /\ r = [s EXCEPT !.size = @ + 1, !.list = k]
  BY <1>1 DEF insert
<1>3. r.list = k /\ r.size = s.size + 1 /\ r.flag = s.flag /\ r.seq = s.seq /\ r.out = s.out
      /\ r = [list |-> k, size |-> s.size + 1, flag |-> s.flag, seq |-> s.seq, out |-> s.out]
  BY <1>1, <1>2 DEF Unpacker
<1>4. \A i \in 1 .. Len(l) : /\ compared(i) > 0 <=> p > l[i]
                             /\ compared(i) = 0 <=> p = l[i]
                             /\ compared(i) <= 0 <=> p <= l[i]
  <2> TAKE i \in 1 .. Len(l)
  <2>1. l[i] \in 1 .. Total /\ compared(i) = Sign(p - l[i])
    BY <1>1, PacketOrder
  <2>2. p \in Int /\ l[i] \in Int
    BY <2>1, Widths
  <2>3. QED
    BY <2>1, <2>2 DEF Sign
<1> HIDE DEF compared, r
<1>5. \E i \in 1 .. end : Place(i)
  <2> DEFINE T == {i \in 1 .. end : i = end \/ compared(i) <= 0}
  <2>1. T \subseteq Nat /\ T # {}
    <3>1. end \in 1 .. end /\ 1 .. end \subseteq Nat
      BY <1>1
    <3>2. QED
      BY <3>1
  <2>2. PICK i \in T : \A j \in T : i <= j
    BY <2>1, LeastNat
  <2>3. i \in 1 .. end /\ (i < end => compared(i) <= 0)
    BY <1>1, <2>2
  <2>4. ASSUME NEW j \in 1 .. (i - 1) PROVE compared(j) > 0
    <3>1. j \in 1 .. Len(l) /\ j \in 1 .. end /\ j < i
      BY <1>1, <2>3
    <3>2. ~ (compared(j) <= 0)
      BY <2>2, <2>3, <3>1
    <3>3. l[j] \in Int /\ p \in Int
      BY <1>1, <3>1, Widths
    <3>4. ~ (p <= l[j])
      BY <1>4, <3>1, <3>2
    <3>5. p > l[j]
      BY <3>3, <3>4
    <3>6. QED
      BY <1>4, <3>1, <3>5
  <2>5. QED
    BY <2>3, <2>4
<1>6. place \in 1 .. end /\ Place(place)
  BY <1>5
<1> HIDE DEF place
<1>7. \A i \in 1 .. (place - 1) : i \in 1 .. Len(l) /\ l[i] < p
  <2> TAKE i \in 1 .. (place - 1)
  <2>1. i \in 1 .. Len(l) /\ compared(i) > 0
    BY <1>1, <1>6
  <2>2. l[i] \in 1 .. Total /\ p > l[i]
    BY <1>1, <1>4, <2>1
  <2>3. QED
    BY <2>1, <2>2, Widths
<1>8. CASE there
  <2>1. k = l /\ l # << >> /\ InList(s, p)
    <3>1. place \in 1 .. Len(l) /\ compared(place) = 0
      BY <1>1, <1>6, <1>8
    <3>2. l[place] = p
      BY <1>4, <3>1
    <3>3. QED
      BY <1>1, <1>8, <3>1, <3>2, EmptySeq DEF InList
  <2>2. s.size + 1 \in Nat /\ Len(k) <= s.size + 1
    BY <1>1, <2>1
  <2>3. r \in Unpacker
    BY <1>1, <1>3, <2>1, <2>2, FieldTypes DEF Unpacker
  <2> HIDE DEF k, l
  <2>4. Sound(r)
    BY <1>1, <1>3, <2>1, <2>2, <2>3 DEF Sound, l
  <2>5. r.list = s.list /\ InList(s, p)
    BY <1>3, <2>1 DEF l
  <2>6. \A q \in 1 .. Total : InList(r, q) <=> InList(s, q) \/ q = p
    BY <2>5 DEF InList
  <2>7. r.list # << >> /\ r.size = s.size + 1 /\ r.out = s.out
    BY <1>3, <2>1
  <2>8. QED
    BY <2>4, <2>5, <2>6, <2>7 DEF r
<1>9. CASE ~there
  <2>1. k = InsertAt(l, place, p)
    BY <1>9
  <2> HIDE DEF k
  <2>2. place = end \/ (place \in 1 .. Len(l) /\ p < l[place])
    <3>1. CASE place # end
      <4>1. place \in 1 .. Len(l) /\ place < end
        BY <1>1, <1>6, <3>1
      <4>2. compared(place) <= 0 /\ compared(place) # 0
        BY <1>6, <1>9, <4>1
      <4>3. p <= l[place] /\ p # l[place] /\ l[place] \in 1 .. Total
        BY <1>1, <1>4, <4>1, <4>2
      <4>4. QED
        BY <4>1, <4>3, Widths
    <3>2. QED
      BY <3>1
  <2>3. /\ k \in Seq(1 .. Total) /\ Len(k) = Len(l) + 1
        /\ \A i \in 1 .. Len(l) + 1 :
             k[i] = IF i < place THEN l[i] ELSE IF i = place THEN p ELSE l[i - 1]
    <3>1. l \in Seq(1 .. Total) /\ place \in 1 .. Len(l) + 1
      BY <1>1, <1>6
    <3> HIDE DEF l
    <3> DEFINE S == 1 .. Total
               m == InsertAt(l, place, p)
    <3>2. l \in Seq(S) /\ p \in S
      BY <3>1
    <3> HIDE DEF S
    <3>3. /\ m \in Seq(S) /\ Len(m) = Len(l) + 1
          /\ \A i \in 1 .. Len(l) + 1 :
               m[i] = IF i < place THEN l[i] ELSE IF i = place THEN p ELSE l[i - 1]
      BY <3>1, <3>2, InsertedAt
    <3>4. k = m
      BY <2>1
    <3> HIDE DEF m
    <3>5. QED
      BY <3>3, <3>4 DEF S
  <2>4. ASSUME NEW i \in 1 .. Len(l), place <= i PROVE p < l[i]
    <3>1. place \in 1 .. Len(l) /\ p < l[place] /\ l[i] \in 1 .. Total /\ l[place] \in 1 .. Total
      <4>1. place # end /\ place \in 1 .. Len(l)
        <5>1. Len(l) \in Nat /\ place \in 1 .. end /\ end = Len(l) + 1
          BY <1>1, <1>6
        <5> HIDE DEF end
        <5>2. QED
          BY <2>4, <5>1
      <4>2. p < l[place]
        BY <2>2, <4>1
      <4>3. QED
        BY <1>1, <4>1, <4>2
    <3>2. i = place \/ l[place] < l[i]
      BY <1>1, <2>4, <3>1 DEF Ordered
    <3>3. QED
      BY <3>1, <3>2, Widths
  <2>5. Ordered(k)
    <3> SUFFICES ASSUME NEW i \in 1 .. Len(k), NEW j \in 1 .. Len(k), i < j PROVE k[i] < k[j]
      BY DEF Ordered
    <3>0. i \in Int /\ j \in Int /\ place \in Int /\ Len(l) \in Nat /\ i <= Len(l) + 1 /\ j <= Len(l) + 1
          /\ i >= 1 /\ place >= 1 /\ place <= Len(l) + 1
          /\ i \in 1 .. Len(l) + 1 /\ j \in 1 .. Len(l) + 1
      BY <1>1, <1>6, <2>3
    <3>1. CASE j < place
      <4>1. k[i] = l[i] /\ k[j] = l[j] /\ i \in 1 .. Len(l) /\ j \in 1 .. Len(l)
        BY <2>3, <3>0, <3>1
      <4>2. QED
        BY <1>1, <4>1 DEF Ordered
    <3>2. CASE j = place
      <4>1. k[i] = l[i] /\ k[j] = p /\ i \in 1 .. (place - 1)
        BY <2>3, <3>0, <3>2
      <4>2. QED
        BY <1>7, <4>1
    <3>3. CASE j > place
      <4>1. k[j] = l[j - 1] /\ j - 1 \in 1 .. Len(l)
        BY <2>3, <3>0, <3>3
      <4>2. CASE i < place
        <5>1. k[i] = l[i] /\ i \in 1 .. Len(l) /\ i < j - 1
          BY <2>3, <3>0, <3>3, <4>2
        <5>2. QED
          BY <1>1, <4>1, <5>1 DEF Ordered
      <4>3. CASE i = place
        <5>1. k[i] = p /\ place <= j - 1
          BY <2>3, <3>0, <3>3, <4>3
        <5>2. QED
          BY <2>4, <4>1, <5>1
      <4>4. CASE i > place
        <5>1. k[i] = l[i - 1] /\ i - 1 \in 1 .. Len(l) /\ i - 1 < j - 1
          BY <2>3, <3>0, <4>4
        <5>2. QED
          BY <1>1, <4>1, <5>1 DEF Ordered
      <4>5. QED
        BY <3>0, <4>2, <4>3, <4>4
    <3>4. QED
      BY <3>0, <3>1, <3>2, <3>3
  <2>6. ASSUME NEW i \in 1 .. Len(k) PROVE k[i] = p \/ \E j \in 1 .. Len(l) : k[i] = l[j]
    <3>1. CASE i < place
      <4>1. i \in 1 .. Len(l) /\ k[i] = l[i]
        BY <1>1, <1>6, <2>3, <3>1
      <4>2. QED
        BY <4>1
    <3>2. CASE i > place
      <4>1. i - 1 \in 1 .. Len(l) /\ k[i] = l[i - 1]
        BY <1>1, <1>6, <2>3, <3>2
      <4>2. QED
        BY <4>1
    <3>3. CASE i = place
      BY <1>1, <1>6, <2>3, <3>3
    <3>4. QED
      BY <1>1, <1>6, <2>3, <3>1, <3>2, <3>3
  <2>7. ASSUME NEW i \in 1 .. Len(k) PROVE Newer(s.out, k[i])
    <3>1. \A j \in 1 .. Len(l) : Newer(s.out, l[j])
      BY DEF Sound
    <3>2. QED
      BY <2>6, <3>1
  <2>8. k # << >> /\ s.size + 1 \in Nat /\ Len(k) <= s.size + 1
    BY <1>1, <2>3, EmptySeq
  <2>9. r \in Unpacker
    BY <1>1, <1>3, <2>3, <2>8, FieldTypes DEF Unpacker
  <2>10. Sound(r)
    BY <1>3, <2>5, <2>7, <2>8, <2>9 DEF Sound
  <2>11. ASSUME NEW q \in 1 .. Total PROVE InList(r, q) <=> InList(s, q) \/ q = p
    <3>1. ASSUME InList(r, q) PROVE InList(s, q) \/ q = p
      BY <1>3, <2>6, <3>1 DEF InList
    <3>2. InList(r, p)
      <4>1. place \in 1 .. Len(k) /\ place \in 1 .. Len(l) + 1 /\ ~ (place < place)
        BY <1>1, <1>6, <2>3
      <4>2. k[place] = p
        BY <2>3, <4>1
      <4>3. QED
        BY <1>3, <4>1, <4>2 DEF InList
    <3>3. ASSUME NEW i \in 1 .. Len(l) PROVE InList(r, l[i])
      <4>1. CASE i < place
        <5>1. i \in 1 .. Len(k) /\ k[i] = l[i]
          BY <1>1, <1>6, <2>3, <4>1
        <5>2. QED
          BY <1>3, <5>1 DEF InList
      <4>2. CASE i >= place
        <5>1. i + 1 \in 1 .. Len(k) /\ ~ (i + 1 < place) /\ i + 1 # place /\ (i + 1) - 1 = i
              /\ i + 1 \in 1 .. Len(l) + 1
          BY <1>1, <1>6, <2>3, <4>2
        <5>2. k[i + 1] = l[i]
          BY <2>3, <5>1
        <5>3. QED
          BY <1>3, <5>1, <5>2 DEF InList
      <4>3. QED
        BY <1>1, <1>6, <4>1, <4>2
    <3>4. QED
      BY <3>1, <3>2, <3>3 DEF InList
  <2>12. QED
    BY <1>3, <2>3, <2>8, <2>10, <2>11 DEF r
<1>10. QED
  BY <1>8, <1>9

LEMMA NotStale ==
  ASSUME NEW s, Sound(s), NEW p \in 1 .. Total
  PROVE  (s.flag /\ CompareSeq(Seq16(p), s.seq) <= 0) <=> ~ Newer(s.out, p)
<1>1. s \in Unpacker /\ s.flag = (s.out # << >>) /\ \A i \in 1 .. Len(s.out) : s.out[i] # << >>
  BY DEF Sound
<1>2. CASE s.out = << >>
  BY <1>1, <1>2 DEF Newer
<1>3. CASE s.out # << >>
  <2> DEFINE m == Last(Last(s.out))
  <2>1. m \in 1 .. Total /\ s.seq = Seq16(m)
    BY <1>1, <1>3, FieldTypes, LastOut DEF Sound
  <2> HIDE DEF m
  <2>2. CompareSeq(Seq16(p), s.seq) = Sign(p - m) /\ p \in Int /\ m \in Int
    BY <2>1, PacketOrder, Widths
  <2>3. CompareSeq(Seq16(p), s.seq) <= 0 <=> ~ (p > m)
    BY <2>2 DEF Sign
  <2>4. QED
    BY <1>1, <1>3, <2>3 DEF Newer, m
<1>4. QED
  BY <1>2, <1>3

\* The head of the list is given up.
LEMMA DropSound ==
  ASSUME NEW r, Sound(r), r.list # << >>
  PROVE  LET t == [r EXCEPT !.list = Tail(@), !.size = @ - 1]
         IN  /\ Sound(t) /\ t.size = r.size - 1 /\ t.out = r.out /\ Len(t.list) = Len(r.list) - 1
             /\ \A i \in 1 .. Len(t.list) : t.list[i] = r.list[i + 1]
<1> DEFINE l == r.list
           k == Tail(l)
           t == [r EXCEPT !.list = Tail(@), !.size = @ - 1]
<1>1. /\ r \in Unpacker /\ Len(l) <= r.size /\ Ordered(l) /\ r.size \in Nat
      /\ l \in Seq(1 .. Total) /\ Len(l) \in Nat /\ \A i \in 1 .. Len(l) : l[i] \in 1 .. Total
      /\ \A i \in 1 .. Len(l) : Newer(r.out, l[i])
  BY FieldTypes DEF Sound
<1>2. Len(l) # 0
  BY <1>1, EmptySeq
<1>3. k \in Seq(1 .. Total) /\ Len(k) = Len(l) - 1 /\ \A i \in 1 .. Len(k) : k[i] = l[i + 1]
  BY <1>1, HeadTailProperties
<1>4. /\ t.list = k /\ t.size = r.size - 1 /\ t.flag = r.flag /\ t.seq = r.seq /\ t.out = r.out
      /\ t = [list |-> k, size |-> r.size - 1, flag |-> r.flag, seq |-> r.seq, out |-> r.out]
  <2>1. t = [r EXCEPT !.list = k, !.size = r.size - 1]
    BY <1>1 DEF Unpacker
  <2> HIDE DEF k, t
  <2>2. QED
    BY <1>1, <2>1 DEF Unpacker
<1> HIDE DEF t, k
<1>5. \A i \in 1 .. Len(k) : i + 1 \in 1 .. Len(l)
  BY <1>1, <1>3
<1>6. Ordered(k)
  <2> SUFFICES ASSUME NEW i \in 1 .. Len(k), NEW j \in 1 .. Len(k), i < j PROVE k[i] < k[j]
    BY DEF Ordered
  <2>1. i + 1 < j + 1 /\ i + 1 \in 1 .. Len(l) /\ j + 1 \in 1 .. Len(l)
    BY <1>1, <1>3
  <2>2. QED
    BY <1>1, <1>3, <2>1 DEF Ordered
<1>7. \A i \in 1 .. Len(k) : Newer(r.out, k[i])
  BY <1>1, <1>3, <1>5
<1>8. r.size - 1 \in Nat /\ Len(k) <= r.size - 1
  BY <1>1, <1>2, <1>3
<1>9. t \in Unpacker
  BY <1>1, <1>3, <1>4, <1>8, FieldTypes DEF Unpacker
<1>10. Sound(t)
  BY <1>4, <1>6, <1>7, <1>8, <1>9 DEF Sound
<1>11. QED
  BY <1>3, <1>4, <1>10 DEF t

\* The list does not grow beyond maxSize.
LEMMA feedSound ==
  ASSUME Sound(State), size <= maxSize, NEW p \in 1 .. Total, Newer(out, p)
  PROVE  Sound(feed(p)) /\ feed(p).size <= maxSize
<1> DEFINE r == insert(State, p)
           s == unpackAll(r)
           one == unpackOne(r)
           t == [r EXCEPT !.list = Tail(@), !.size = @ - 1]
<1>0. /\ State.list = list /\ State.size = size /\ State.out = out /\ State.flag = unpackedFlag
      /\ State.seq = unpackedSeq
  BY DEF State
<1>1. size \in Nat /\ maxSize \in Nat /\ maxSize > 0
  BY <1>0, FieldTypes, UnpackerConstants DEF Sound
<1>2. Sound(r) /\ r.size = size + 1 /\ r.list # << >>
  BY <1>0, insertSound
<1>3. Sound(s) /\ (s = r \/ s.size < r.size) /\ s.size \in Nat
  BY <1>2, unpackAllSound, FieldTypes DEF Sound
<1> HIDE DEF r, s
<1>4. CASE ~ (s = r /\ r.size > maxSize)
  <2>1. feed(p) = s
    BY <1>4 DEF feed, r, s
  <2>2. s.size <= maxSize
    BY <1>1, <1>2, <1>3, <1>4
  <2>3. QED
    BY <1>3, <2>1, <2>2
<1>5. CASE s = r /\ r.size > maxSize
  <2>1. feed(p) = unpackAll(IF one = r THEN t ELSE one)
    BY <1>5 DEF feed, r, s, overflow
  <2>2. CASE one = r
    <3>1. Sound(t) /\ t.size = r.size - 1
      BY <1>2, DropSound
    <3> HIDE DEF t
    <3>2. t.size = size
      BY <1>1, <1>2, <3>1
    <3>3. Sound(unpackAll(t)) /\ (unpackAll(t) = t \/ unpackAll(t).size < t.size)
      BY <3>1, unpackAllSound
    <3>4. unpackAll(t).size \in Nat
      BY <3>3, FieldTypes DEF Sound
    <3>5. QED
      BY <1>1, <2>1, <2>2, <3>2, <3>3, <3>4
  <2>3. CASE one # r
    <3>1. Sound(one) /\ one.size < size + 1
      BY <1>2, <2>3, unpackOneSound
    <3>2. Sound(unpackAll(one)) /\ (unpackAll(one) = one \/ unpackAll(one).size < one.size)
      BY <3>1, unpackAllSound
    <3>3. unpackAll(one).size \in Nat /\ one.size \in Nat
      BY <3>1, <3>2, FieldTypes DEF Sound
    <3> HIDE DEF one
    <3>4. QED
      BY <1>1, <2>1, <2>3, <3>1, <3>2, <3>3
  <2>4. QED
    BY <2>2, <2>3
<1>6. QED
  BY <1>4, <1>5

UnpackerInv == Sound(State) /\ size <= maxSize

LEMMA FeedKeepsSound ==
  ASSUME UnpackerInv, NEW p \in 1 .. Total, Feed(p)
  PROVE  UnpackerInv'
<1>0. /\ State.list = list /\ State.size = size /\ State.out = out /\ State.flag = unpackedFlag
      /\ State.seq = unpackedSeq
  BY DEF State
<1>1. CASE isStale(p)
  <2>1. UNCHANGED <<list, size, unpackedFlag, unpackedSeq, out>>
    BY <1>1 DEF Feed
  <2>2. QED
    BY <2>1 DEF UnpackerInv, State
<1>2. CASE ~isStale(p)
  <2> DEFINE r == feed(p)
  <2>1. Newer(out, p)
    BY <1>0, <1>2, NotStale DEF UnpackerInv, isStale
  <2>2. Sound(r) /\ r.size <= maxSize
    BY <2>1, feedSound DEF UnpackerInv
  <2>3. list' = r.list /\ size' = r.size /\ unpackedFlag' = r.flag /\ unpackedSeq' = r.seq /\ out' = r.out
    BY <1>2 DEF Feed
  <2> HIDE DEF r
  <2>4. State' = r
    BY <2>2, <2>3 DEF State, Sound, Unpacker
  <2>5. QED
    BY <2>2, <2>3, <2>4 DEF UnpackerInv
<1>3. QED
  BY <1>1, <1>2

LEMMA UnpackerInvHolds ==
  /\ ReceiverInit => UnpackerInv
  /\ UnpackerInv /\ [ReceiverNext]_receiverVars => UnpackerInv'
<1>1. ReceiverInit => UnpackerInv
  <2> SUFFICES ASSUME ReceiverInit PROVE UnpackerInv
    OBVIOUS
  <2>1. State = [list |-> << >>, size |-> 0, flag |-> FALSE, seq |-> 0, out |-> << >>] /\ size = 0
    BY DEF ReceiverInit, Init, State
  <2>2. State \in Unpacker
    BY <2>1, Widths DEF Unpacker
  <2>3. Len(State.list) = 0 /\ Len(State.out) = 0 /\ State.out = << >> /\ State.size = 0
        /\ State.flag = FALSE
    BY <2>1
  <2>4. Ordered(State.list) /\ InOrder(State.out)
    BY <2>3 DEF Ordered, InOrder
  <2>5. Sound(State)
    <3>1. /\ \A i \in 1 .. Len(State.list) : Newer(State.out, State.list[i])
          /\ \A i \in 1 .. Len(State.out) : State.out[i] # << >> /\ IsFrame(State.out[i])
      BY <2>3
    <3>2. Len(State.list) <= State.size
      BY <2>3
    <3>3. State.flag = (State.out # << >>)
      BY <2>3
    <3>4. QED
      BY <2>2, <2>3, <2>4, <3>1, <3>2, <3>3 DEF Sound
  <2>6. QED
    BY <2>1, <2>5, UnpackerConstants DEF UnpackerInv
<1>2. ASSUME UnpackerInv, [ReceiverNext]_receiverVars PROVE UnpackerInv'
  <2>1. CASE \E p \in 1 .. Total : handleRTPPacket(p)
    BY <1>2, <2>1, FeedKeepsSound DEF handleRTPPacket, Arrives, ArrivesAgain
  <2>2. CASE UNCHANGED vars
    BY <1>2, <2>2 DEF UnpackerInv, State, vars
  <2>3. QED
    BY <1>2, <2>1, <2>2 DEF ReceiverNext, OnSR, receiverVars
<1>3. QED
  BY <1>1, <1>2

\* For any sender, network, width of the numbers and length of the list: onAVPacket is
\* given frames as the sender cut them, and nothing else.
THEOREM WholeFramesOnly == ReceiverSpec => []FramesWhole
<1>1. UnpackerInv => FramesWhole
  <2> SUFFICES ASSUME UnpackerInv, NEW i \in DOMAIN out PROVE \E j \in DOMAIN Frames : out[i] = FrameAt(j)
    BY DEF FramesWhole
  <2>1. State.out = out /\ out \in Seq(Seq(1 .. Total)) /\ DOMAIN out = 1 .. Len(out)
    BY FieldTypes, LenProperties DEF UnpackerInv, Sound, State
  <2>2. IsFrame(out[i])
    BY <2>1 DEF UnpackerInv, Sound
  <2>3. QED
    BY <2>2 DEF IsFrame
<1>2. QED
  BY <1>1, UnpackerInvHolds, PTL DEF ReceiverSpec

\* For any sender, network, width of the numbers and length of the list: frames go out in
\* the order in which they were sent, each once.
THEOREM FramesInOrder == ReceiverSpec => []OutputInOrder
<1>1. UnpackerInv => OutputInOrder
  <2> SUFFICES ASSUME UnpackerInv PROVE OutputInOrder
    OBVIOUS
  <2>1. State.out = out /\ out \in Seq(Seq(1 .. Total)) /\ DOMAIN out = 1 .. Len(out)
    BY FieldTypes, LenProperties DEF UnpackerInv, Sound, State
  <2>2. InOrder(out)
    BY <2>1 DEF UnpackerInv, Sound
  <2>3. QED
    BY <2>1, <2>2 DEF OutputInOrder, InOrder
<1>2. QED
  BY <1>1, UnpackerInvHolds, PTL DEF ReceiverSpec

----------------------------------------------------------------------------
(* Nothing is given up needlessly.                                         *)

HH(o) == Head(Head(o))
LL(o) == Last(Last(o))
WentOut(s, q) == \E i \in 1 .. Len(s.out) : \E j \in 1 .. Len(s.out[i]) : s.out[i][j] = q
Held(s, q) == InList(s, q) \/ WentOut(s, q)
Slack(s) == s.size - Len(s.list)

\* D are the packets that came, N is the newest of them: one that neither waits nor went
\* out is before all that wait, and will not come again unless it is before all of them still;
\* if it is not before all that went out, it is one that nobody can parse.
Kept(s, D, N) ==
  /\ \A q \in 1 .. Total : Held(s, q) => q \in D
  /\ s.out # << >> => \A q \in HH(s.out) .. LL(s.out) : q \in D
  /\ \A g \in D : ~ Held(s, g) =>
       /\ s.out # << >> => g < HH(s.out) \/ Packets[g] = "bad"
       /\ \A i \in 1 .. Len(s.list) : g < s.list[i]
       /\ g <= N - Late \/ (s.out # << >> /\ g <= LL(s.out))

\* The packets of a frame that went out.
LEMMA FrameOut ==
  ASSUME NEW s, Sound(s), NEW i \in 1 .. Len(s.out)
  PROVE  /\ s.out[i] \in Seq(1 .. Total) /\ s.out[i] # << >> /\ Len(s.out[i]) \in Nat
         /\ \E j \in DOMAIN Frames :
              /\ Len(s.out[i]) = Len(Frames[j]) /\ Len(s.out[i]) >= 1
              /\ Head(s.out[i]) = Before(j) + 1 /\ Last(s.out[i]) = Before(j) + Len(Frames[j])
              /\ \A k \in 1 .. Len(s.out[i]) : s.out[i][k] = Before(j) + k
<1> DEFINE f == s.out[i]
<1>1. f \in Seq(1 .. Total) /\ f # << >> /\ IsFrame(f)
  <2>1. s \in Unpacker /\ \A k \in 1 .. Len(s.out) : s.out[k] # << >> /\ IsFrame(s.out[k])
    BY DEF Sound
  <2>2. QED
    BY <2>1, FieldTypes
<1> HIDE DEF f
<1>2. PICK j \in DOMAIN Frames : f = FrameAt(j)
  BY <1>1 DEF IsFrame
<1>3. /\ f = [k \in 1 .. Len(Frames[j]) |-> Before(j) + k]
      /\ Len(Frames[j]) \in Nat /\ Before(j) \in Nat
  BY <1>2, FrameIs
<1>4. Len(f) \in Nat /\ Len(f) >= 1 /\ Head(f) = f[1] /\ Last(f) = f[Len(f)] /\ DOMAIN f = 1 .. Len(f)
  BY <1>1, EndsOfFrame, LenProperties
<1>5. Len(f) = Len(Frames[j])
  <2>1. DOMAIN f = 1 .. Len(Frames[j])
    BY <1>3
  <2>2. QED
    BY <1>3, <1>4, <2>1
<1>6. \A k \in 1 .. Len(f) : f[k] = Before(j) + k
  BY <1>3, <1>5
<1>7. f[1] = Before(j) + 1 /\ f[Len(f)] = Before(j) + Len(f)
  BY <1>4, <1>6
<1>8. QED
  BY <1>1, <1>4, <1>5, <1>6, <1>7 DEF f

Placed(f) ==
  /\ Len(f) \in Nat
  /\ \E j \in DOMAIN Frames :
       /\ Len(f) = Len(Frames[j])
       /\ Head(f) = Before(j) + 1 /\ Last(f) = Before(j) + Len(Frames[j])
       /\ \A k \in 1 .. Len(f) : f[k] = Before(j) + k

LEMMA OutPlaced ==
  ASSUME NEW s, Sound(s), NEW i \in 1 .. Len(s.out)
  PROVE  Placed(s.out[i])
<1> DEFINE f == s.out[i]
<1>1. /\ Len(f) \in Nat
      /\ \E j \in DOMAIN Frames :
              /\ Len(f) = Len(Frames[j]) /\ Len(f) >= 1
              /\ Head(f) = Before(j) + 1 /\ Last(f) = Before(j) + Len(Frames[j])
              /\ \A k \in 1 .. Len(f) : f[k] = Before(j) + k
  BY FrameOut
<1> HIDE DEF f
<1>2. QED
  BY <1>1 DEF Placed, f

\* All that went out is between the first and the last.
LEMMA OutFacts ==
  ASSUME NEW s, Sound(s), s.out # << >>
  PROVE  /\ HH(s.out) \in 1 .. Total /\ LL(s.out) \in 1 .. Total /\ HH(s.out) <= LL(s.out)
         /\ \A i \in 1 .. Len(s.out) : HH(s.out) <= Head(s.out[i]) /\ Last(s.out[i]) <= LL(s.out)
         /\ \A q \in 1 .. Total : WentOut(s, q) => HH(s.out) <= q /\ q <= LL(s.out)
<1> DEFINE o == s.out
           n == Len(o)
<1>1. o \in Seq(Seq(1 .. Total)) /\ n \in Nat /\ n # 0 /\ InOrder(o)
  BY FieldTypes, EmptySeq DEF Sound
<1>2. Head(o) = o[1] /\ Last(o) = o[n] /\ 1 \in 1 .. n /\ n \in 1 .. n
  BY <1>1, HeadTailProperties DEF Last
<1>3. \A i \in 1 .. n : /\ Head(o[i]) \in 1 .. Total /\ Last(o[i]) \in 1 .. Total
                        /\ Head(o[i]) <= Last(o[i])
                        /\ o[i] \in Seq(1 .. Total) /\ o[i] # << >>
  <2> TAKE i \in 1 .. n
  <2>1. o[i] \in Seq(1 .. Total) /\ o[i] # << >> /\ IsFrame(o[i])
    <3>1. \A k \in 1 .. n : o[k] # << >> /\ IsFrame(o[k])
      BY DEF Sound
    <3>2. QED
      BY <1>1, <3>1, ElementOfSeq
  <2>2. QED
    BY <2>1, EndsOfFrame, FrameAscends
<1> DEFINE Places(i, j) ==
             /\ Len(o[i]) = Len(Frames[j])
             /\ Head(o[i]) = Before(j) + 1 /\ Last(o[i]) = Before(j) + Len(Frames[j])
             /\ \A x \in 1 .. Len(o[i]) : o[i][x] = Before(j) + x
<1>a. \A i \in 1 .. n : Len(o[i]) \in Nat /\ \E j \in DOMAIN Frames : Places(i, j)
  <2> TAKE i \in 1 .. n
  <2>1. Placed(s.out[i])
    BY OutPlaced
  <2>2. QED
    BY <2>1 DEF Placed
<1> HIDE DEF n, o
<1>4. \A i, j \in 1 .. n : i < j => Last(o[i]) < Head(o[j])
  BY <1>1 DEF InOrder, n
<1>5. HH(o) = Head(o[1]) /\ LL(o) = Last(o[n])
  BY <1>2 DEF HH, LL
<1>6. ASSUME NEW i \in 1 .. n PROVE HH(o) <= Head(o[i]) /\ Last(o[i]) <= LL(o)
  <2>1. HH(o) <= Head(o[i])
    <3>1. CASE i = 1
      BY <1>2, <1>3, <1>5, <3>1
    <3>2. CASE i # 1
      <4>0. 1 < i
        BY <1>1, <3>2
      <4>1. Last(o[1]) < Head(o[i])
        BY <1>2, <1>4, <4>0
      <4>2. Head(o[1]) <= Last(o[1]) /\ Head(o[1]) \in Int /\ Last(o[1]) \in Int /\ Head(o[i]) \in Int
        BY <1>2, <1>3
      <4>3. QED
        BY <1>5, <4>1, <4>2
    <3>3. QED
      BY <3>1, <3>2
  <2>2. Last(o[i]) <= LL(o)
    <3>1. CASE i = n
      BY <1>2, <1>3, <1>5, <3>1
    <3>2. CASE i # n
      <4>0. i < n
        BY <1>1, <3>2
      <4>1. Last(o[i]) < Head(o[n])
        BY <1>2, <1>4, <4>0
      <4>2. Head(o[n]) <= Last(o[n]) /\ Head(o[n]) \in Int /\ Last(o[n]) \in Int /\ Last(o[i]) \in Int
        BY <1>2, <1>3
      <4>3. QED
        BY <1>5, <4>1, <4>2
    <3>3. QED
      BY <3>1, <3>2
  <2>3. QED
    BY <2>1, <2>2
<1>7. HH(o) \in 1 .. Total /\ LL(o) \in 1 .. Total
  BY <1>2, <1>3, <1>5
<1>8. HH(o) <= LL(o)
  <2>1. HH(o) <= Head(o[n]) /\ Head(o[n]) <= LL(o) /\ Head(o[n]) \in Int
    BY <1>2, <1>3, <1>5, <1>6
  <2>2. QED
    BY <1>7, <2>1
<1>9. ASSUME NEW q \in 1 .. Total, WentOut(s, q) PROVE HH(o) <= q /\ q <= LL(o)
  <2>1. PICK i \in 1 .. n : \E k \in 1 .. Len(o[i]) : o[i][k] = q
    BY <1>9 DEF WentOut, o, n
  <2>2. PICK k \in 1 .. Len(o[i]) : o[i][k] = q
    BY <2>1
  <2>3. Len(o[i]) \in Nat
    BY <1>a
  <2>4. PICK j \in DOMAIN Frames : Places(i, j)
    BY <1>a
  <2>5. Before(j) \in Nat /\ q = Before(j) + k
    BY <2>2, <2>4, WhereFramesAre
  <2>6. Head(o[i]) <= q /\ q <= Last(o[i])
    BY <2>3, <2>4, <2>5
  <2>7. HH(o) <= Head(o[i]) /\ Last(o[i]) <= LL(o) /\ Head(o[i]) \in Int /\ Last(o[i]) \in Int
    BY <1>3, <1>6
  <2>8. HH(o) \in Int /\ LL(o) \in Int /\ q \in Int
    BY <1>7
  <2> HIDE DEF HH, LL
  <2>9. QED
    BY <2>6, <2>7, <2>8
<1>10. QED
  BY <1>6, <1>7, <1>8, <1>9 DEF o, n

\* What the unpacker takes is there, and without a gap.
LEMMA Takes ==
  ASSUME NEW s, Sound(s), unpackOne(s) # s
  PROVE  LET u == unpackOne(s)
             l == s.list
         IN  \E n \in 1 .. Len(l) :
               /\ u.size = s.size - n /\ Len(u.list) = Len(l) - n
               /\ \A i \in 1 .. Len(u.list) : u.list[i] = l[n + i]
               /\ \A i \in 1 .. n : l[i] = l[1] + (i - 1)
               /\ u.out # << >> /\ LL(u.out) = l[n]
               /\ HH(u.out) = IF s.out = << >> THEN l[1] ELSE HH(s.out)
               /\ \A q \in 1 .. Total : WentOut(u, q) <=> WentOut(s, q) \/ \E i \in 1 .. n : l[i] = q
<1> DEFINE n == frontLen(s.list)
           l == s.list
           o == s.out
           f == SubSeq(l, 1, n)
           r == SubSeq(l, n + 1, Len(l))
           q == Append(o, f)
           u == unpackOne(s)
<1>1. /\ s \in Unpacker /\ l \in Seq(1 .. Total) /\ o \in Seq(Seq(1 .. Total))
      /\ Len(l) \in Nat /\ Len(o) \in Nat
  BY FieldTypes DEF Sound
<1>2. n \in 0 .. Len(l) /\ (n > 0 => IsFrame(f))
  BY <1>1, FrontIsFrame
<1>3. n # 0
  BY DEF unpackOne
<1>4. u.list = r /\ u.size = s.size - n /\ u.out = q
  BY <1>1, <1>3 DEF unpackOne, Unpacker
<1> HIDE DEF n, u
<1>5. n \in 1 .. Len(l) /\ IsFrame(f)
  BY <1>1, <1>2, <1>3
<1>6. f \in Seq(1 .. Total) /\ Len(f) = n /\ \A i \in 1 .. n : f[i] = l[i]
  BY <1>1, <1>5, Beginning
<1>7. Len(r) = Len(l) - n /\ \A i \in 1 .. Len(r) : r[i] = l[n + i]
  BY <1>1, <1>5, Remainder
<1> HIDE DEF f, r
<1>8. /\ q \in Seq(Seq(1 .. Total)) /\ Len(q) = Len(o) + 1 /\ q[Len(o) + 1] = f
      /\ \A i \in 1 .. Len(o) : q[i] = o[i]
  BY <1>1, <1>6, AppendProperties
<1> HIDE DEF q, l, o
<1>9. \A i \in 1 .. n : l[i] = l[1] + (i - 1)
  <2>1. PICK j \in DOMAIN Frames : f = FrameAt(j)
    BY <1>5 DEF IsFrame
  <2>2. /\ f = [k \in 1 .. Len(Frames[j]) |-> Before(j) + k]
        /\ Len(Frames[j]) \in Nat /\ Before(j) \in Nat
    BY <2>1, FrameIs
  <2>3. DOMAIN f = 1 .. n /\ DOMAIN f = 1 .. Len(Frames[j]) /\ n \in Nat
    BY <1>1, <1>5, <1>6, <2>2, LenProperties
  <2>4. \A i \in 1 .. n : f[i] = Before(j) + i
    BY <2>2, <2>3
  <2>5. 1 \in 1 .. n
    BY <1>1, <1>5
  <2>6. l[1] = Before(j) + 1
    BY <1>6, <2>4, <2>5
  <2>7. ASSUME NEW i \in 1 .. n PROVE l[i] = l[1] + (i - 1)
    <3>1. l[i] = Before(j) + i /\ i \in Nat
      BY <1>6, <2>3, <2>4
    <3>2. QED
      BY <2>2, <2>6, <3>1
  <2>8. QED
    BY <2>7
<1>10. q # << >> /\ Last(q) = f /\ f # << >> /\ Last(f) = l[n] /\ Head(f) = l[1]
  <2>1. f # << >> /\ 1 \in 1 .. n /\ n \in 1 .. n
    BY <1>1, <1>5, <1>6, EmptySeq
  <2>2. Head(f) = f[1] /\ Last(f) = f[n]
    BY <1>6, <2>1, HeadTailProperties DEF Last
  <2>3. q # << >> /\ Last(q) = f
    BY <1>1, <1>8, EmptySeq DEF Last
  <2>4. QED
    BY <1>6, <2>1, <2>2, <2>3
<1>11. HH(q) = IF o = << >> THEN l[1] ELSE HH(o)
  <2>1. Head(q) = q[1]
    BY <1>8, <1>10, HeadTailProperties
  <2>2. CASE o = << >>
    <3>1. Len(o) = 0
      BY <2>2
    <3>2. q[1] = f
      BY <1>8, <3>1
    <3>3. QED
      BY <1>10, <2>1, <2>2, <3>2 DEF HH
  <2>3. CASE o # << >>
    <3>1. 1 \in 1 .. Len(o)
      BY <1>1, <2>3, EmptySeq
    <3>2. q[1] = o[1]
      BY <1>8, <3>1
    <3>3. Head(o) = o[1]
      BY <1>1, <2>3, HeadTailProperties
    <3>4. QED
      BY <2>1, <2>3, <3>2, <3>3 DEF HH
  <2>4. QED
    BY <2>2, <2>3
<1>12. ASSUME NEW p \in 1 .. Total
       PROVE  WentOut(u, p) <=> WentOut(s, p) \/ \E i \in 1 .. n : l[i] = p
  <2>1. ASSUME WentOut(u, p) PROVE WentOut(s, p) \/ \E i \in 1 .. n : l[i] = p
    <3>1. PICK i \in 1 .. Len(q) : \E j \in 1 .. Len(q[i]) : q[i][j] = p
      BY <1>4, <2>1 DEF WentOut
    <3>2. CASE i \in 1 .. Len(o)
      <4>1. q[i] = o[i]
        BY <1>8, <3>2
      <4>2. QED
        BY <3>1, <3>2, <4>1 DEF WentOut, o
    <3>3. CASE i \notin 1 .. Len(o)
      <4>1. i = Len(o) + 1
        BY <1>1, <1>8, <3>1, <3>3
      <4>2. QED
        BY <1>6, <1>8, <3>1, <4>1
    <3>4. QED
      BY <3>2, <3>3
  <2>2. ASSUME WentOut(s, p) PROVE WentOut(u, p)
    <3>1. PICK i \in 1 .. Len(o) : \E j \in 1 .. Len(o[i]) : o[i][j] = p
      BY <2>2 DEF WentOut, o
    <3>2. q[i] = o[i] /\ i \in 1 .. Len(q)
      BY <1>1, <1>8, <3>1
    <3>3. QED
      BY <1>4, <3>1, <3>2 DEF WentOut
  <2>3. ASSUME NEW i \in 1 .. n, l[i] = p PROVE WentOut(u, p)
    <3>1. Len(o) + 1 \in 1 .. Len(q) /\ i \in 1 .. Len(q[Len(o) + 1]) /\ q[Len(o) + 1][i] = p
      BY <1>1, <1>6, <1>8, <2>3
    <3>2. QED
      BY <1>4, <3>1 DEF WentOut
  <2>4. QED
    BY <2>1, <2>2, <2>3
<1>13. LL(q) = l[n]
  BY <1>10 DEF LL
<1>14. QED
  BY <1>4, <1>5, <1>7, <1>9, <1>10, <1>11, <1>12, <1>13 DEF l, o, u

LEMMA Offset ==
  ASSUME NEW a \in Int, NEW q \in Int, NEW n \in Nat, a <= q, q <= a + (n - 1)
  PROVE  (q - a) + 1 \in 1 .. n /\ q = a + (((q - a) + 1) - 1)
OBVIOUS

\* A frame taken from the head of the list, when nothing before it can still come.
LEMMA TakeKept ==
  ASSUME NEW s, Sound(s), NEW D \in SUBSET (1 .. Total), NEW N \in Int, Kept(s, D, N),
         unpackOne(s) # s,
         s.out # << >> => \A q \in LL(s.out) + 1 .. s.list[1] - 1 : q \in D
  PROVE  Kept(unpackOne(s), D, N) /\ Slack(unpackOne(s)) = Slack(s)
<1> DEFINE u == unpackOne(s)
           l == s.list
           o == s.out
           v == u.out
<1>1. PICK n \in 1 .. Len(l) :
        /\ u.size = s.size - n /\ Len(u.list) = Len(l) - n
        /\ \A i \in 1 .. Len(u.list) : u.list[i] = l[n + i]
        /\ \A i \in 1 .. n : l[i] = l[1] + (i - 1)
        /\ v # << >> /\ LL(v) = l[n]
        /\ HH(v) = IF o = << >> THEN l[1] ELSE HH(o)
        /\ \A q \in 1 .. Total : WentOut(u, q) <=> WentOut(s, q) \/ \E i \in 1 .. n : l[i] = q
  BY Takes
<1>2. /\ s.size \in Nat /\ Len(l) \in Nat /\ \A i \in 1 .. Len(l) : l[i] \in 1 .. Total
      /\ Ordered(l) /\ \A i \in 1 .. Len(l) : Newer(o, l[i])
  BY FieldTypes DEF Sound
<1>3. o # << >> => /\ HH(o) \in 1 .. Total /\ LL(o) \in 1 .. Total /\ HH(o) <= LL(o)
  BY OutFacts
<1>4. /\ \A q \in 1 .. Total : Held(s, q) => q \in D
      /\ o # << >> => \A q \in HH(o) .. LL(o) : q \in D
      /\ \A g \in D : ~ Held(s, g) =>
           /\ o # << >> => g < HH(o) \/ Packets[g] = "bad"
           /\ \A i \in 1 .. Len(l) : g < l[i]
           /\ g <= N - Late \/ (o # << >> /\ g <= LL(o))
  BY DEF Kept
<1> HIDE DEF u, v
<1>5. Slack(u) = Slack(s)
  <2>1. n \in Nat /\ (s.size - n) - (Len(l) - n) = s.size - Len(l)
    BY <1>1, <1>2
  <2>2. u.size - Len(u.list) = s.size - Len(l)
    BY <1>1, <2>1
  <2>3. QED
    BY <2>2 DEF Slack
<1>6. ASSUME NEW q \in 1 .. Total PROVE Held(u, q) <=> Held(s, q)
  <2>1. ASSUME Held(u, q) PROVE Held(s, q)
    <3>1. CASE WentOut(u, q)
      <4>1. CASE WentOut(s, q)
        BY <4>1 DEF Held
      <4>2. CASE \E i \in 1 .. n : l[i] = q
        <5>1. \A i \in 1 .. n : i \in 1 .. Len(l)
          BY <1>1, <1>2
        <5>2. QED
          BY <4>2, <5>1 DEF Held, InList
      <4>3. QED
        BY <1>1, <3>1, <4>1, <4>2
    <3>2. CASE InList(u, q)
      <4>1. PICK i \in 1 .. Len(u.list) : u.list[i] = q
        BY <3>2 DEF InList
      <4>0. n \in Int /\ n >= 1 /\ Len(l) \in Nat /\ i \in 1 .. Len(l) - n
        BY <1>1, <1>2, <4>1
      <4>2. n + i \in 1 .. Len(l) /\ l[n + i] = q
        BY <1>1, <4>0, <4>1
      <4>3. QED
        BY <4>2 DEF Held, InList
    <3>3. QED
      BY <2>1, <3>1, <3>2 DEF Held
  <2>2. ASSUME Held(s, q) PROVE Held(u, q)
    <3>1. CASE WentOut(s, q)
      BY <1>1, <3>1 DEF Held
    <3>2. CASE InList(s, q)
      <4>1. PICK i \in 1 .. Len(l) : l[i] = q
        BY <3>2 DEF InList
      <4>2. CASE i <= n
        <5>1. i \in 1 .. n
          BY <1>1, <1>2, <4>1, <4>2
        <5>2. QED
          BY <1>1, <4>1, <5>1 DEF Held
      <4>3. CASE i > n
        <5>1. i - n \in 1 .. Len(u.list) /\ n + (i - n) = i
          BY <1>1, <1>2, <4>1, <4>3
        <5>2. u.list[i - n] = q
          BY <1>1, <4>1, <5>1
        <5>3. QED
          BY <5>1, <5>2 DEF Held, InList
      <4>4. QED
        BY <1>1, <1>2, <4>2, <4>3
    <3>3. QED
      BY <2>2, <3>1, <3>2 DEF Held
  <2>3. QED
    BY <2>1, <2>2
<1>7. /\ l[1] \in 1 .. Total /\ l[n] \in 1 .. Total /\ l[n] = l[1] + (n - 1) /\ n \in Nat /\ n >= 1
      /\ o # << >> => LL(o) < l[1]
  <2>1. 1 \in 1 .. Len(l) /\ 1 \in 1 .. n /\ n \in 1 .. n
    BY <1>1, <1>2
  <2>2. Newer(o, l[1]) /\ l[1] \in 1 .. Total /\ l[n] \in 1 .. Total
    BY <1>1, <1>2, <2>1
  <2>3. l[n] = l[1] + (n - 1)
    BY <1>1, <2>1
  <2>4. o # << >> => LL(o) < l[1]
    BY <1>3, <2>2 DEF Newer, LL
  <2>5. QED
    BY <1>1, <1>2, <2>2, <2>3, <2>4
<1>8. ASSUME NEW q \in HH(v) .. LL(v) PROVE q \in D
  <2>1. CASE q \in Int /\ l[1] <= q /\ q <= l[n]
    <3>0. q \in Int /\ l[1] \in Int /\ l[1] <= q /\ q <= l[1] + (n - 1) /\ n \in Nat
      BY <1>7, <2>1
    <3>1. (q - l[1]) + 1 \in 1 .. n /\ q = l[1] + (((q - l[1]) + 1) - 1)
      BY <3>0, Offset
    <3>a. q \in 1 .. Total
      <4>1. q \in Int /\ l[1] <= q /\ q <= l[n] /\ l[1] \in 1 .. Total /\ l[n] \in 1 .. Total
        BY <1>7, <2>1
      <4>2. QED
        BY <4>1, Widths
    <3>2. l[(q - l[1]) + 1] = q
      BY <1>1, <3>1
    <3>3. (q - l[1]) + 1 \in 1 .. Len(l)
      BY <1>1, <1>2, <3>1
    <3>4. QED
      BY <1>4, <3>a, <3>2, <3>3 DEF Held, InList
  <2>2. CASE o # << >> /\ q < l[1]
    <3>5. HH(v) = HH(o)
      BY <1>1, <2>2
    <3>6. HH(o) \in Int /\ q \in HH(o) .. LL(v)
      BY <1>3, <2>2, <3>5
    <3>1. HH(v) = HH(o) /\ q \in Int /\ HH(o) <= q
      BY <3>5, <3>6
    <3>2. q \in HH(o) .. LL(o) \/ q \in LL(o) + 1 .. l[1] - 1
      BY <1>3, <1>7, <2>2, <3>1
    <3>3. QED
      BY <1>4, <2>2, <3>2
  <2>3. q \in Int /\ q <= l[n] /\ (o = << >> => l[1] <= q)
    BY <1>1, <1>3, <1>7
  <2>4. QED
    BY <1>7, <2>1, <2>2, <2>3
<1>9. ASSUME NEW g \in D, ~ Held(u, g)
      PROVE  /\ g < HH(v) \/ Packets[g] = "bad"
             /\ \A i \in 1 .. Len(u.list) : g < u.list[i]
             /\ g <= N - Late \/ g <= LL(v)
  <2>1. ~ Held(s, g) /\ g \in Int
    BY <1>6, <1>9
  <2>2. /\ o # << >> => g < HH(o) \/ Packets[g] = "bad"
        /\ \A i \in 1 .. Len(l) : g < l[i]
        /\ g <= N - Late \/ (o # << >> /\ g <= LL(o))
    BY <1>4, <2>1
  <2>3. g < HH(v) \/ Packets[g] = "bad"
    <3>1. 1 \in 1 .. Len(l)
      BY <1>1, <1>2
    <3>2. QED
      BY <1>1, <2>2, <3>1
  <2>4. \A i \in 1 .. Len(u.list) : g < u.list[i]
    <3> TAKE i \in 1 .. Len(u.list)
    <3>0. n \in Int /\ n >= 1 /\ Len(l) \in Nat /\ i \in 1 .. Len(l) - n
      BY <1>1, <1>2
    <3>1. n + i \in 1 .. Len(l)
      BY <3>0
    <3>2. QED
      BY <1>1, <2>2, <3>1
  <2>5. g <= N - Late \/ g <= LL(v)
    BY <1>1, <1>3, <1>7, <2>1, <2>2
  <2>6. QED
    BY <2>3, <2>4, <2>5
<1>10. Kept(u, D, N)
  <2>1. \A q \in 1 .. Total : Held(u, q) => q \in D
    BY <1>4, <1>6
  <2>2. QED
    BY <1>1, <1>8, <1>9, <2>1 DEF Kept, v
<1>11. QED
  BY <1>5, <1>10 DEF u

\* The next frame after the one that went out last.
LEMMA SeqKept ==
  ASSUME NEW s, Sound(s), NEW D \in SUBSET (1 .. Total), NEW N \in Int, Kept(s, D, N)
  PROVE  Kept(unpackOneSequential(s), D, N) /\ Slack(unpackOneSequential(s)) = Slack(s)
<1>1. CASE unpackOneSequential(s) = s
  BY <1>1
<1>2. CASE unpackOneSequential(s) # s
  <2>1. /\ unpackOneSequential(s) = unpackOne(s) /\ unpackOne(s) # s
        /\ ~ (s.flag /\ (s.list = << >> \/ SeqDiff(Seq16(Head(s.list)), s.seq) # 1))
    BY <1>2 DEF unpackOneSequential
  <2>2. ASSUME s.out # << >> PROVE s.list[1] = LL(s.out) + 1 /\ LL(s.out) \in Int
    <3>1. s.flag /\ s.seq = Seq16(LL(s.out)) /\ s.list \in Seq(1 .. Total)
      BY <2>2, FieldTypes DEF Sound, LL
    <3>2. s.list # << >> /\ SeqDiff(Seq16(Head(s.list)), Seq16(LL(s.out))) = 1
      BY <2>1, <3>1
    <3>3. Head(s.list) = s.list[1] /\ Head(s.list) \in 1 .. Total
      BY <3>1, <3>2, EndsOfFrame
    <3>4. LL(s.out) \in 1 .. Total
      BY <2>2, OutFacts
    <3>5. Head(s.list) - LL(s.out) = 1
      BY <3>2, <3>3, <3>4, PacketOrder
    <3>6. QED
      BY <3>3, <3>4, <3>5
  <2>3. s.out # << >> => \A q \in LL(s.out) + 1 .. s.list[1] - 1 : q \in D
    BY <2>2
  <2>4. QED
    BY <2>1, <2>3, TakeKept
<1>3. QED
  BY <1>1, <1>2

LEMMA AllKept ==
  ASSUME NEW r, Sound(r), NEW D \in SUBSET (1 .. Total), NEW N \in Int, Kept(r, D, N)
  PROVE  Kept(unpackAll(r), D, N) /\ Slack(unpackAll(r)) = Slack(r)
<1> DEFINE S == {s \in Unpacker : Sound(s) /\ Kept(s, D, N) /\ Slack(s) = Slack(r)}
<1>1. r \in S /\ Len(r.list) \in Nat
  BY FieldTypes DEF Sound
<1>2. ASSUME NEW s \in S PROVE unpackOneSequential(s) \in S
  <2>1. Sound(unpackOneSequential(s)) /\ unpackOneSequential(s) \in Unpacker
    BY unpackOneSequentialSound DEF Sound
  <2>2. Kept(unpackOneSequential(s), D, N) /\ Slack(unpackOneSequential(s)) = Slack(r)
    BY SeqKept
  <2>3. QED
    BY <2>1, <2>2
<1> HIDE DEF S
<1>3. unpackAll(r) \in S
  BY <1>1, <1>2, LoopKeeps
<1>4. QED
  BY <1>3 DEF S

\* A packet that is not stale, whether it came before or not.
LEMMA InsertKept ==
  ASSUME NEW s, Sound(s), NEW D \in SUBSET (1 .. Total), NEW N \in Int, Kept(s, D, N),
         NEW p \in 1 .. Total, Newer(s.out, p), p + Late >= N,
         NEW M \in Int, M >= N
  PROVE  /\ Kept(insert(s, p), D \cup {p}, M)
         /\ p \notin D => Slack(insert(s, p)) = Slack(s)
         /\ Slack(insert(s, p)) <= Slack(s) + 1
<1> DEFINE r == insert(s, p)
           o == s.out
<1>1. /\ Sound(r) /\ r.size = s.size + 1 /\ r.out = o
      /\ \A q \in 1 .. Total : InList(r, q) <=> InList(s, q) \/ q = p
      /\ \/ r.list = s.list /\ InList(s, p)
         \/ Len(r.list) = Len(s.list) + 1
  BY insertSound
<1>2. /\ s.size \in Nat /\ Len(s.list) \in Nat /\ Len(r.list) \in Nat
      /\ \A i \in 1 .. Len(r.list) : r.list[i] \in 1 .. Total
  BY <1>1, FieldTypes DEF Sound
<1> HIDE DEF r
<1>3. /\ \A q \in 1 .. Total : Held(s, q) => q \in D
      /\ o # << >> => \A q \in HH(o) .. LL(o) : q \in D
      /\ \A g \in D : ~ Held(s, g) =>
           /\ o # << >> => g < HH(o) \/ Packets[g] = "bad"
           /\ \A i \in 1 .. Len(s.list) : g < s.list[i]
           /\ g <= N - Late \/ (o # << >> /\ g <= LL(o))
  BY DEF Kept
<1>4. \A q \in 1 .. Total : Held(r, q) <=> Held(s, q) \/ q = p
  BY <1>1 DEF Held, WentOut
<1>5. Slack(r) = Slack(s) \/ (InList(s, p) /\ Slack(r) = Slack(s) + 1)
  <2>1. CASE r.list = s.list /\ InList(s, p)
    <3>1. (s.size + 1) - Len(s.list) = (s.size - Len(s.list)) + 1
      BY <1>2
    <3>2. QED
      BY <1>1, <2>1, <3>1 DEF Slack
  <2>2. CASE Len(r.list) = Len(s.list) + 1
    <3>1. (s.size + 1) - (Len(s.list) + 1) = s.size - Len(s.list)
      BY <1>2
    <3>2. QED
      BY <1>1, <2>2, <3>1 DEF Slack
  <2>3. QED
    BY <1>1, <2>1, <2>2
<1>6. p \notin D => Slack(r) = Slack(s)
  BY <1>3, <1>5 DEF Held
<1>7. Slack(r) <= Slack(s) + 1
  <2>1. Slack(s) \in Int
    BY <1>2 DEF Slack
  <2>2. QED
    BY <1>5, <2>1
<1>8. ASSUME NEW g \in D \cup {p}, ~ Held(r, g)
      PROVE  /\ o # << >> => g < HH(o) \/ Packets[g] = "bad"
             /\ \A i \in 1 .. Len(r.list) : g < r.list[i]
             /\ g <= M - Late \/ (o # << >> /\ g <= LL(o))
  <2>1. g \in D /\ ~ Held(s, g) /\ g # p /\ g \in 1 .. Total
    BY <1>4, <1>8
  <2>2. /\ o # << >> => g < HH(o) \/ Packets[g] = "bad"
        /\ \A i \in 1 .. Len(s.list) : g < s.list[i]
        /\ g <= N - Late \/ (o # << >> /\ g <= LL(o))
    BY <1>3, <2>1
  <2>3. Late \in Nat /\ g \in Int /\ p \in Int /\ (o # << >> => LL(o) \in Int)
    <3>1. o # << >> => LL(o) \in 1 .. Total
      BY OutFacts
    <3>2. QED
      BY <2>1, <3>1, UnpackerConstants
  <2>4. g < p
    <3>1. o # << >> => p > LL(o)
      BY DEF Newer, LL
    <3>2. CASE g <= N - Late
      BY <2>1, <2>3, <3>2
    <3>3. CASE o # << >> /\ g <= LL(o)
      BY <2>3, <3>1, <3>3
    <3>4. QED
      BY <2>2, <3>2, <3>3
  <2>5. ASSUME NEW i \in 1 .. Len(r.list) PROVE g < r.list[i]
    <3>1. r.list[i] \in 1 .. Total /\ InList(r, r.list[i])
      BY <1>2 DEF InList
    <3>2. r.list[i] = p \/ \E j \in 1 .. Len(s.list) : s.list[j] = r.list[i]
      BY <1>1, <3>1 DEF InList
    <3>3. QED
      BY <2>2, <2>4, <3>2
  <2>6. g <= M - Late \/ (o # << >> /\ g <= LL(o))
    <3>1. g <= N - Late => g <= M - Late
      BY <2>3
    <3>2. QED
      BY <2>2, <3>1
  <2>7. QED
    BY <2>2, <2>5, <2>6
<1>9. Kept(r, D \cup {p}, M)
  <2>1. \A q \in 1 .. Total : Held(r, q) => q \in D \cup {p}
    BY <1>3, <1>4
  <2>2. o # << >> => \A q \in HH(o) .. LL(o) : q \in D \cup {p}
    BY <1>3
  <2>3. QED
    BY <1>1, <1>8, <2>1, <2>2 DEF Kept
<1>10. QED
  BY <1>6, <1>7, <1>9 DEF r

\* A stale packet: it came before, or it is before all that went out.
LEMMA StaleKept ==
  ASSUME NEW s, Sound(s), NEW D \in SUBSET (1 .. Total), NEW N \in Int, Kept(s, D, N),
         NEW p \in 1 .. Total, ~ Newer(s.out, p), NEW M \in Int, M >= N
  PROVE  Kept(s, D \cup {p}, M)
<1> DEFINE o == s.out
           l == s.list
<1>1. /\ o # << >> /\ HH(o) \in 1 .. Total /\ LL(o) \in 1 .. Total /\ p <= LL(o)
      /\ \A i \in 1 .. Len(l) : Newer(o, l[i]) /\ l[i] \in 1 .. Total
  <2>1. o # << >> /\ ~ (p > LL(o))
    BY DEF Newer, LL
  <2>2. HH(o) \in 1 .. Total /\ LL(o) \in 1 .. Total
    BY <2>1, OutFacts
  <2>3. \A i \in 1 .. Len(l) : Newer(o, l[i]) /\ l[i] \in 1 .. Total
    BY FieldTypes DEF Sound
  <2>4. QED
    BY <2>1, <2>2, <2>3
<1>2. /\ \A q \in 1 .. Total : Held(s, q) => q \in D
      /\ o # << >> => \A q \in HH(o) .. LL(o) : q \in D
      /\ \A g \in D : ~ Held(s, g) =>
           /\ o # << >> => g < HH(o) \/ Packets[g] = "bad"
           /\ \A i \in 1 .. Len(l) : g < l[i]
           /\ g <= N - Late \/ (o # << >> /\ g <= LL(o))
  BY DEF Kept
<1>3. ASSUME p \notin D
      PROVE  p < HH(o) /\ \A i \in 1 .. Len(l) : p < l[i]
  <2>1. p < HH(o)
    BY <1>1, <1>2, <1>3
  <2>2. \A i \in 1 .. Len(l) : l[i] > LL(o)
    BY <1>1 DEF Newer, LL
  <2>3. QED
    BY <1>1, <2>1, <2>2
<1>4. ASSUME NEW g \in D \cup {p}, ~ Held(s, g)
      PROVE  /\ o # << >> => g < HH(o) \/ Packets[g] = "bad"
             /\ \A i \in 1 .. Len(l) : g < l[i]
             /\ g <= M - Late \/ (o # << >> /\ g <= LL(o))
  <2>1. Late \in Nat /\ g \in Int /\ (g <= N - Late => g <= M - Late)
    BY UnpackerConstants
  <2>2. QED
    BY <1>1, <1>2, <1>3, <1>4, <2>1
<1>5. QED
  BY <1>2, <1>4 DEF Kept

----------------------------------------------------------------------------
(* A full list has lost something, or nobody can parse its head.           *)

\* A sorted list spans as many numbers as it is long, and one more for each it lacks.
LEMMA Spread ==
  ASSUME NEW l \in Seq(1 .. Total), Ordered(l), NEW i \in 1 .. Len(l)
  PROVE  /\ l[i] >= l[1] + (i - 1)
         /\ \A q \in Int : l[1] <= q /\ q < l[i] /\ (\A j \in 1 .. Len(l) : l[j] # q) => l[i] >= l[1] + i
<1>1. /\ Len(l) \in Nat /\ i \in Nat /\ i >= 1 /\ 1 \in 1 .. Len(l) /\ i <= Len(l)
      /\ \A j \in 1 .. Len(l) : l[j] \in 1 .. Total /\ l[j] \in Int
  <2>1. Len(l) \in Nat /\ \A j \in 1 .. Len(l) : l[j] \in 1 .. Total
    BY ElementOfSeq, LenProperties
  <2>2. QED
    BY <2>1
<1>2. \A j \in 0 .. i - 2 : l[j + 1] < l[j + 2] /\ l[j + 1] \in Int /\ l[j + 2] \in Int
  <2> TAKE j \in 0 .. i - 2
  <2>1. j + 1 \in 1 .. Len(l) /\ j + 2 \in 1 .. Len(l) /\ j + 1 < j + 2
    BY <1>1
  <2>2. QED
    BY <1>1, <2>1 DEF Ordered
<1>3. \A j \in 0 .. i - 1 : l[j + 1] >= l[1] + j
  <2> DEFINE T == {j \in 0 .. i - 1 : l[j + 1] >= l[1] + j}
  <2>1. 0 \in T /\ i - 1 \in Nat
    BY <1>1
  <2>2. ASSUME NEW j \in 0 .. (i - 1) - 1, j \in T PROVE j + 1 \in T
    <3>1. j \in 0 .. i - 2 /\ j + 1 \in 0 .. i - 1 /\ (j + 1) + 1 = j + 2 /\ j \in Nat
      BY <1>1
    <3>2. l[j + 1] < l[j + 2] /\ l[j + 1] \in Int /\ l[j + 2] \in Int /\ l[j + 1] >= l[1] + j
      BY <1>2, <2>2, <3>1
    <3>3. l[j + 2] >= l[1] + (j + 1)
      BY <1>1, <3>1, <3>2
    <3>4. QED
      BY <3>1, <3>3
  <2> HIDE DEF T
  <2>3. \A j \in 0 .. i - 1 : j \in T
    BY <2>1, <2>2, InductionTo
  <2>4. QED
    BY <2>3 DEF T
<1>4. ASSUME NEW q \in Int, l[1] <= q, q < l[i], \A j \in 1 .. Len(l) : l[j] # q
      PROVE  l[i] >= l[1] + i
  <2> DEFINE T == {j \in 0 .. i - 1 : l[j + 1] > q => l[j + 1] >= l[1] + (j + 1)}
  <2>1. 0 \in T /\ i - 1 \in Nat
    BY <1>1, <1>4
  <2>2. ASSUME NEW j \in 0 .. (i - 1) - 1, j \in T PROVE j + 1 \in T
    <3>1. /\ j \in 0 .. i - 2 /\ j + 1 \in 0 .. i - 1 /\ (j + 1) + 1 = j + 2 /\ j \in Nat
          /\ j + 1 \in 1 .. Len(l)
      BY <1>1
    <3>2. l[j + 1] < l[j + 2] /\ l[j + 1] \in Int /\ l[j + 2] \in Int
      BY <1>2, <3>1
    <3>3. l[j + 1] # q /\ (l[j + 1] > q => l[j + 1] >= l[1] + (j + 1)) /\ l[j + 1] >= l[1] + j
      BY <1>3, <1>4, <2>2, <3>1
    <3>4. l[j + 2] > q => l[j + 2] >= l[1] + (j + 2)
      <4>1. CASE l[j + 1] > q
        BY <1>1, <3>1, <3>2, <3>3, <4>1
      <4>2. CASE l[j + 1] < q
        BY <1>1, <3>1, <3>2, <3>3, <4>2
      <4>3. QED
        BY <1>4, <3>2, <3>3, <4>1, <4>2
    <3>5. QED
      BY <3>1, <3>4
  <2> HIDE DEF T
  <2>3. i - 1 \in T
    <3>1. \A j \in 0 .. i - 1 : j \in T
      BY <2>1, <2>2, InductionTo
    <3>2. QED
      BY <2>1, <3>1
  <2>4. (i - 1) + 1 = i
    BY <1>1
  <2>5. QED
    BY <1>4, <2>3, <2>4 DEF T
<1>5. l[i] >= l[1] + (i - 1)
  <2>1. i - 1 \in 0 .. i - 1 /\ (i - 1) + 1 = i
    BY <1>1
  <2>2. QED
    BY <1>3, <2>1
<1>6. QED
  BY <1>4, <1>5

\* A sorted list that lacks none of n numbers begins with them.
LEMMA Gapless ==
  ASSUME NEW l \in Seq(1 .. Total), Ordered(l), NEW n \in Nat, n >= 1, 1 \in 1 .. Len(l),
         \A k \in 0 .. n - 1 : \E i \in 1 .. Len(l) : l[i] = l[1] + k
  PROVE  n <= Len(l) /\ \A i \in 1 .. n : l[i] = l[1] + (i - 1)
<1>1. Len(l) \in Nat /\ \A j \in 1 .. Len(l) : l[j] \in 1 .. Total /\ l[j] \in Int
  <2>1. Len(l) \in Nat /\ \A j \in 1 .. Len(l) : l[j] \in 1 .. Total
    BY ElementOfSeq, LenProperties
  <2>2. QED
    BY <2>1
<1> DEFINE T == {k \in 0 .. n - 1 : k + 1 <= Len(l) /\ l[k + 1] = l[1] + k}
<1>2. 0 \in T /\ n - 1 \in Nat
  BY <1>1
<1>3. ASSUME NEW k \in 0 .. (n - 1) - 1, k \in T PROVE k + 1 \in T
  <2>1. /\ k \in Nat /\ k + 1 \in 0 .. n - 1 /\ k + 1 \in 1 .. Len(l) /\ (k + 1) + 1 = k + 2
        /\ l[k + 1] = l[1] + k /\ l[1] \in Int
    BY <1>1, <1>3
  <2>2. PICK i \in 1 .. Len(l) : l[i] = l[1] + (k + 1)
    BY <2>1
  <2>3. i > k + 1
    <3>1. ~ (i < k + 1)
      <4>1. i < k + 1 => l[i] < l[k + 1]
        BY <2>1 DEF Ordered
      <4>2. QED
        BY <2>1, <2>2, <4>1
    <3>2. i # k + 1
      BY <2>1, <2>2
    <3>3. QED
      BY <1>1, <2>1, <3>1, <3>2
  <2>4. k + 2 \in 1 .. Len(l) /\ k + 2 <= i
    BY <1>1, <2>1, <2>3
  <2>5. l[k + 1] < l[k + 2] /\ l[k + 2] \in Int
    BY <1>1, <2>1, <2>4 DEF Ordered
  <2>6. i = k + 2
    <3>1. k + 2 < i => l[k + 2] < l[i]
      BY <2>4 DEF Ordered
    <3>2. ~ (k + 2 < i)
      BY <2>1, <2>2, <2>5, <3>1
    <3>3. QED
      BY <1>1, <2>1, <2>4, <3>2
  <2>7. QED
    BY <2>1, <2>2, <2>4, <2>6
<1> HIDE DEF T
<1>4. \A k \in 0 .. n - 1 : k \in T
  BY <1>2, <1>3, InductionTo
<1>5. n <= Len(l)
  <2>1. n - 1 \in T /\ (n - 1) + 1 = n
    BY <1>2, <1>4
  <2>2. QED
    BY <2>1 DEF T
<1>6. ASSUME NEW i \in 1 .. n PROVE l[i] = l[1] + (i - 1)
  <2>1. i - 1 \in 0 .. n - 1 /\ (i - 1) + 1 = i
    OBVIOUS
  <2>2. i - 1 \in T
    BY <1>4, <2>1
  <2>3. QED
    BY <2>1, <2>2 DEF T
<1>7. QED
  BY <1>5, <1>6

LEMMA Room ==
  ASSUME RoomForLate, NEW j \in DOMAIN Frames
  PROVE  /\ Len(Frames[j]) \in Nat /\ Late \in Nat /\ MaxDups \in Nat /\ maxSize \in Nat
         /\ Len(Frames[j]) - 1 + Late + MaxDups <= maxSize
<1>1. Len(Frames[j]) \in Nat
  BY FrameIs
<1>2. QED
  BY <1>1, UnpackerConstants DEF RoomForLate

\* How far a full list reaches.
LEMMA FullList ==
  ASSUME RoomForLate, NEW r, Sound(r), r.list # << >>,
         NEW D \in SUBSET (1 .. Total), NEW N \in Int, Kept(r, D, N), \A q \in D : q <= N,
         r.size > maxSize, Slack(r) <= MaxDups
  PROVE  LET l == r.list
             n == Len(l)
         IN  /\ n \in Nat /\ n >= maxSize + 1 - MaxDups /\ 1 \in 1 .. n /\ n \in 1 .. n
             /\ l \in Seq(1 .. Total) /\ Ordered(l)
             /\ l[1] \in 1 .. Total /\ l[n] \in 1 .. Total /\ l[n] <= N
             /\ l[1] + (n - 1) <= N /\ l[1] <= N - Late
<1> DEFINE l == r.list
           n == Len(l)
<1>1. /\ l \in Seq(1 .. Total) /\ r.size \in Nat /\ n \in Nat /\ Ordered(l)
      /\ \A i \in 1 .. n : l[i] \in 1 .. Total
  BY FieldTypes DEF Sound
<1>2. maxSize \in Nat /\ MaxDups \in Nat /\ Late \in Nat
  BY UnpackerConstants
<1>3. n >= maxSize + 1 - MaxDups
  BY <1>1, <1>2 DEF Slack
<1>4. 1 \in 1 .. n /\ n \in 1 .. n
  BY <1>1, EmptySeq
<1>5. l[1] \in 1 .. Total /\ l[n] \in 1 .. Total /\ l[n] >= l[1] + (n - 1)
  <2>1. l[n] >= l[1] + (n - 1)
    BY <1>1, <1>4, Spread
  <2>2. QED
    BY <1>1, <1>4, <2>1
<1>6. l[n] \in D
  BY <1>4, <1>5 DEF Kept, Held, InList
<1>7. l[1] + (n - 1) <= N /\ l[n] <= N
  BY <1>1, <1>5, <1>6
<1>8. maxSize - MaxDups >= Late
  <2>1. PICK j \in DOMAIN Frames : \E k \in DOMAIN Frames[j] : l[1] = Before(j) + k
    BY <1>5, WhereFramesAre
  <2>2. DOMAIN Frames[j] = 1 .. Len(Frames[j]) /\ Len(Frames[j]) \in Nat
    BY FrameIs
  <2>3. Len(Frames[j]) >= 1
    BY <2>1, <2>2
  <2>4. /\ Late \in Nat /\ MaxDups \in Nat /\ maxSize \in Nat
        /\ Len(Frames[j]) - 1 + Late + MaxDups <= maxSize
    BY Room
  <2>5. QED
    BY <2>2, <2>3, <2>4
<1>9. l[1] <= N - Late
  BY <1>1, <1>2, <1>3, <1>5, <1>7, <1>8
<1>10. QED
  BY <1>1, <1>3, <1>4, <1>5, <1>7, <1>9

\* The head of a full list that makes no frame, behind frames that went out.
LEMMA HeadIsBad ==
  ASSUME RoomForLate, NEW r, Sound(r), r.list # << >>, r.out # << >>, unpackOne(r) = r,
         NEW D \in SUBSET (1 .. Total), NEW N \in Int, Kept(r, D, N), \A q \in D : q <= N,
         \A q \in 1 .. N - Late - 1 : q \in D,
         r.size > maxSize, Slack(r) <= MaxDups
  PROVE  Packets[r.list[1]] = "bad"
<1> DEFINE l == r.list
           n == Len(l)
           h == l[1]
           o == r.out
<1>1. /\ n \in Nat /\ n >= maxSize + 1 - MaxDups /\ 1 \in 1 .. n /\ n \in 1 .. n
      /\ l \in Seq(1 .. Total) /\ Ordered(l)
      /\ h \in 1 .. Total /\ l[n] \in 1 .. Total /\ l[n] <= N
      /\ h + (n - 1) <= N /\ h <= N - Late
  BY FullList
<1>2. frontLen(l) = 0
  <2> DEFINE k == frontLen(l)
  <2> SUFFICES ASSUME k # 0 PROVE FALSE
    OBVIOUS
  <2>1. r \in Unpacker /\ r.size \in Nat
    BY FieldTypes DEF Sound
  <2>2. unpackOne(r).size = r.size - k
    BY <2>1 DEF unpackOne, Unpacker
  <2>3. k \in 0 .. n
    BY <1>1, FrontIsFrame
  <2> HIDE DEF k
  <2>4. QED
    BY <1>1, <2>1, <2>2, <2>3
<1>3. l # << >> /\ Packets[h] \notin {"single", "stap"} /\ \A k \in 1 .. n : ~ Closes(l, k)
  <2>1. l # << >> /\ DOMAIN l = 1 .. n
    BY <1>1, LenProperties
  <2>2. Packets[h] \notin {"single", "stap"}
    BY <1>2, <2>1 DEF frontLen
  <2>3. frontLen(l) = IF \E k \in DOMAIN l : Closes(l, k)
                      THEN CHOOSE k \in DOMAIN l : Closes(l, k) ELSE 0
    BY <2>1, <2>2 DEF frontLen, Closes
  <2>4. ASSUME \E k \in DOMAIN l : Closes(l, k) PROVE FALSE
    <3>1. frontLen(l) \in DOMAIN l
      BY <2>3, <2>4
    <3>2. QED
      BY <1>1, <1>2, <2>1, <3>1
  <2>5. QED
    BY <2>1, <2>2, <2>4
<1>4. /\ HH(o) \in 1 .. Total /\ LL(o) \in 1 .. Total /\ HH(o) <= LL(o) /\ LL(o) < h
      /\ \A q \in 1 .. Total : WentOut(r, q) => q <= LL(o)
      /\ \A i \in 1 .. Len(o) : Last(o[i]) <= LL(o)
  <2>1. Newer(o, h)
    BY <1>1 DEF Sound
  <2>2. h > LL(o)
    BY <2>1 DEF Newer, LL
  <2>3. /\ HH(o) \in 1 .. Total /\ LL(o) \in 1 .. Total /\ HH(o) <= LL(o)
        /\ \A q \in 1 .. Total : WentOut(r, q) => q <= LL(o)
        /\ \A i \in 1 .. Len(o) : Last(o[i]) <= LL(o)
    BY OutFacts
  <2>4. QED
    BY <1>1, <2>2, <2>3
<1>5. ASSUME NEW q \in 1 .. Total, ~ InList(r, q), ~ WentOut(r, q), Packets[q] # "bad", HH(o) <= q
      PROVE  q >= N - Late
  <2>1. q \notin D
    <3>1. ~ Held(r, q)
      BY <1>5 DEF Held
    <3>2. q \in D => q < HH(o) \/ Packets[q] = "bad"
      BY <3>1 DEF Kept
    <3>3. QED
      BY <1>4, <1>5, <3>2
  <2>2. q \notin 1 .. N - Late - 1
    BY <2>1
  <2>3. QED
    BY <2>2, UnpackerConstants
<1>6. PICK j \in DOMAIN Frames : \E k \in DOMAIN Frames[j] : h = Before(j) + k
  BY <1>1, WhereFramesAre
<1>7. PICK k \in DOMAIN Frames[j] : h = Before(j) + k
  BY <1>6
<1> DEFINE L == Len(Frames[j])
           F == Frames[j]
<1>8. /\ L \in Nat /\ DOMAIN F = 1 .. L /\ Before(j) \in Nat /\ k \in 1 .. L /\ WellCut(F)
      /\ \A x \in 1 .. L : Before(j) + x \in 1 .. Total /\ Packets[Before(j) + x] = F[x]
      /\ L - 1 + Late + MaxDups <= maxSize /\ Late \in Nat /\ MaxDups \in Nat /\ maxSize \in Nat
  BY <1>7, FrameIs, WhereFramesAre, Room, UnpackerConstants
<1>a. /\ n \in Nat /\ L \in Nat /\ h \in Int /\ h >= 1 /\ l[n] \in Int /\ Late \in Nat /\ k \in Int
      /\ Before(j) \in Nat /\ k >= 1 /\ k <= L /\ n >= L + Late
  <2>1. n >= maxSize + 1 - MaxDups /\ n \in Nat /\ h \in Int /\ h >= 1 /\ l[n] \in Int
    BY <1>1
  <2>2. /\ L - 1 + Late + MaxDups <= maxSize /\ Late \in Nat /\ MaxDups \in Nat /\ maxSize \in Nat
        /\ L \in Nat /\ Before(j) \in Nat /\ k \in 1 .. L
    BY <1>8
  <2> HIDE DEF n, L, h, l
  <2>3. k \in Int /\ k >= 1 /\ k <= L
    BY <2>2
  <2>4. n >= L + Late
    BY <2>1, <2>2
  <2>5. QED
    BY <2>1, <2>2, <2>3, <2>4
<1>9. CASE L = 1
  <2>1. k = 1 /\ F[1] \in {"single", "stap", "bad"}
    BY <1>8, <1>9 DEF WellCut
  <2>2. Packets[h] = F[1]
    BY <1>7, <1>8, <2>1
  <2>3. QED
    BY <1>3, <2>1, <2>2
<1>10. CASE L > 1
  <2>1. F[1] = "start" /\ F[L] = "end" /\ \A i \in 2 .. L - 1 : F[i] = "mid"
    BY <1>8, <1>10 DEF WellCut
  <2> HIDE DEF l, n, h, o, L, F
  <2>2. \A x \in 1 .. L : x = 1 \/ x = L \/ x \in 2 .. L - 1
    BY <1>a
  <2>3. \A x \in 1 .. L : F[x] # "bad"
    <3> TAKE x \in 1 .. L
    <3>1. F[x] \in {"start", "end", "mid"}
      BY <2>1, <2>2
    <3>2. QED
      BY <3>1
  <2>4. CASE k = 1
    <3>1. ASSUME \A x \in 0 .. L - 1 : \E i \in 1 .. n : l[i] = h + x PROVE FALSE
      <4>1. L <= n /\ \A i \in 1 .. L : l[i] = h + (i - 1)
        <5>1. l \in Seq(1 .. Total) /\ Ordered(l) /\ 1 \in 1 .. Len(l)
          BY <1>1 DEF n
        <5>a. L \in Nat /\ L >= 1
          BY <1>a, <1>10
        <5>b. \A x \in 0 .. L - 1 : \E i \in 1 .. Len(l) : l[i] = l[1] + x
          BY <3>1 DEF n, h
        <5>2. L <= Len(l) /\ \A i \in 1 .. L : l[i] = l[1] + (i - 1)
          BY <5>1, <5>a, <5>b, Gapless
        <5>3. QED
          BY <5>2 DEF n, h
      <4>2. \A i \in 1 .. L : l[i] = Before(j) + i /\ l[i] \in 1 .. Total /\ Packets[l[i]] = F[i]
        <5> TAKE i \in 1 .. L
        <5>1. h + (i - 1) = Before(j) + i
          BY <1>7, <1>8, <2>4
        <5>2. QED
          BY <1>8, <4>1, <5>1
      <4>3. L \in 1 .. n /\ 1 \in 1 .. L /\ L \in 1 .. L /\ \A i \in 2 .. L - 1 : i \in 1 .. L
        BY <1>1, <1>8, <1>10, <4>1
      <4>4. Packets[l[1]] = "start" /\ Packets[l[L]] = "end" /\ \A i \in 2 .. L - 1 : Packets[l[i]] = "mid"
        BY <2>1, <4>2, <4>3
      <4>5. ASSUME NEW i \in 2 .. L PROVE SeqDiff(Seq16(l[i]), Seq16(l[i - 1])) = 1
        <5>1. i \in 1 .. L /\ i - 1 \in 1 .. L
          BY <1>8
        <5>2. l[i] = Before(j) + i /\ l[i - 1] = Before(j) + (i - 1)
              /\ l[i] \in 1 .. Total /\ l[i - 1] \in 1 .. Total
          BY <4>2, <5>1
        <5>3. SeqDiff(Seq16(l[i]), Seq16(l[i - 1])) = l[i] - l[i - 1]
          BY <5>2, PacketOrder
        <5>4. l[i] - l[i - 1] = 1
          BY <1>8, <5>2
        <5>5. QED
          BY <5>3, <5>4
      <4>6. Closes(l, L)
        BY <1>10, <4>4, <4>5 DEF Closes
      <4>7. QED
        BY <1>3, <4>3, <4>6
    <3>2. PICK x \in 0 .. L - 1 : \A i \in 1 .. n : l[i] # h + x
      BY <3>1
    <3> DEFINE q == h + x
    <3>3. /\ q = Before(j) + (x + 1) /\ x + 1 \in 1 .. L /\ x \in Nat /\ h \in Nat /\ q \in Int
          /\ h <= q /\ q <= h + (L - 1)
      BY <1>a, <1>7, <2>4
    <3>4. q \in 1 .. Total /\ Packets[q] # "bad"
      BY <1>8, <2>3, <3>3
    <3>5. ~ InList(r, q)
      BY <3>2 DEF InList, l, n
    <3> HIDE DEF q
    <3>6. ~ WentOut(r, q) /\ HH(o) <= q
      BY <1>1, <1>4, <3>3, <3>4
    <3>7. q >= N - Late
      BY <1>5, <3>4, <3>5, <3>6
    <3>8. CASE q < l[n]
      <4>1. l[n] >= h + n
        BY <1>1, <3>2, <3>3, <3>8, Spread DEF q, h, n
      <4>2. N >= l[n]
        BY <1>1
      <4>3. QED
        BY <1>a, <3>3, <3>7, <4>1, <4>2
    <3>9. CASE q > l[n]
      <4>1. l[n] >= h + (n - 1)
        BY <1>1, Spread DEF h, n
      <4>2. QED
        BY <1>a, <3>3, <3>9, <4>1
    <3>10. q # l[n]
      BY <1>1, <3>2 DEF q
    <3>11. QED
      BY <1>1, <3>3, <3>8, <3>9, <3>10
  <2>5. CASE k # 1
    <3> DEFINE q == h - 1
    <3>1. q = Before(j) + (k - 1) /\ k - 1 \in 1 .. L /\ k - 1 # L /\ h = q + 1 /\ h \in Int /\ q \in Int
      BY <1>a, <1>7, <2>5
    <3>2. q \in 1 .. Total /\ Packets[q] = F[k - 1]
      BY <1>8, <3>1
    <3>3. Packets[q] \in {"start", "mid"}
      BY <2>1, <2>2, <3>1, <3>2
    <3> HIDE DEF q
    <3>4. ~ InList(r, q)
      <4> SUFFICES ASSUME NEW i \in 1 .. n, l[i] = q PROVE FALSE
        BY DEF InList, l, n
      <4>1. l[i] >= h + (i - 1)
        BY <1>1, Spread DEF h, n
      <4>2. QED
        BY <1>1, <3>1, <4>1
    <3>5. ~ WentOut(r, q)
      <4> SUFFICES ASSUME WentOut(r, q) PROVE FALSE
        OBVIOUS
      <4>1. PICK i \in 1 .. Len(o) : \E x \in 1 .. Len(o[i]) : o[i][x] = q
        BY DEF WentOut, o
      <4>2. PICK x \in 1 .. Len(o[i]) : o[i][x] = q
        BY <4>1
      <4>3. /\ Len(o[i]) \in Nat
            /\ \E y \in DOMAIN Frames :
                 /\ Len(o[i]) = Len(Frames[y]) /\ Len(o[i]) >= 1
                 /\ Head(o[i]) = Before(y) + 1 /\ Last(o[i]) = Before(y) + Len(Frames[y])
                 /\ \A z \in 1 .. Len(o[i]) : o[i][z] = Before(y) + z
        <5>1. i \in 1 .. Len(r.out)
          BY DEF o
        <5>2. QED
          BY <5>1, FrameOut DEF o
      <4>4. PICK y \in DOMAIN Frames :
              /\ Len(o[i]) = Len(Frames[y]) /\ Last(o[i]) = Before(y) + Len(Frames[y])
              /\ \A z \in 1 .. Len(o[i]) : o[i][z] = Before(y) + z
        BY <4>3
      <4> DEFINE G == Frames[y]
      <4>a. DOMAIN G = 1 .. Len(G) /\ Before(y) \in Nat /\ Len(G) \in Nat /\ WellCut(G)
        BY FrameIs, UnpackerConstants
      <4>b. x \in 1 .. Len(G) /\ q = Before(y) + x
        BY <4>2, <4>4
      <4>c. Packets[Before(y) + x] = G[x]
        BY <4>a, <4>b, WhereFramesAre
      <4>5. /\ q = Before(y) + x /\ Before(y) \in Nat /\ DOMAIN G = 1 .. Len(G) /\ x \in 1 .. Len(G)
            /\ Packets[q] = G[x] /\ WellCut(G) /\ Len(G) \in Nat
        BY <4>a, <4>b, <4>c
      <4>6. x # Len(G)
        <5> SUFFICES ASSUME x = Len(G) PROVE FALSE
          OBVIOUS
        <5>1. G[Len(G)] \in {"single", "stap", "bad", "end"}
          BY <4>5 DEF WellCut
        <5>2. QED
          BY <3>3, <4>5, <5>1
      <4> HIDE DEF G
      <4>d. Last(o[i]) = Before(y) + Len(G)
        BY <4>4 DEF G
      <4>7. h <= Last(o[i])
        <5>1. x \in Nat /\ x + 1 <= Len(G)
          BY <4>a, <4>b, <4>6
        <5>2. h = Before(y) + (x + 1)
          BY <3>1, <4>a, <4>b, <5>1
        <5>3. QED
          BY <4>a, <4>d, <5>1, <5>2
      <4>8. Last(o[i]) <= LL(o) /\ Last(o[i]) \in Int
        BY <1>4, <4>5, <4>d
      <4>9. QED
        BY <1>4, <3>1, <4>7, <4>8
    <3>6. HH(o) <= q
      BY <1>4, <3>1
    <3>7. q >= N - Late
      BY <1>5, <3>2, <3>3, <3>4, <3>5, <3>6
    <3>8. QED
      BY <1>1, <1>8, <3>1, <3>7
  <2>6. QED
    BY <2>4, <2>5
<1>11. QED
  BY <1>8, <1>9, <1>10

\* A full list: a frame from its head although packets before it are missing, or else the
\* head is given up.
LEMMA OverflowKept ==
  ASSUME RoomForLate, NEW r, Sound(r), r.list # << >>,
         NEW D \in SUBSET (1 .. Total), NEW N \in Int, Kept(r, D, N), \A q \in D : q <= N,
         \A q \in 1 .. N - Late - 1 : q \in D,
         r.size > maxSize, Slack(r) <= MaxDups
  PROVE  Kept(overflow(r), D, N) /\ Slack(overflow(r)) = Slack(r)
<1> DEFINE one == unpackOne(r)
           t == [r EXCEPT !.list = Tail(@), !.size = @ - 1]
           l == r.list
           o == r.out
<1>0. overflow(r) = unpackAll(IF one = r THEN t ELSE one)
  BY DEF overflow
<1>1. /\ Len(l) \in Nat /\ 1 \in 1 .. Len(l) /\ l \in Seq(1 .. Total) /\ Ordered(l)
      /\ l[1] \in 1 .. Total /\ l[1] <= N - Late /\ Late \in Nat /\ r.size \in Int
      /\ \A i \in 1 .. Len(l) : l[i] \in 1 .. Total
  <2>1. /\ Len(l) \in Nat /\ 1 \in 1 .. Len(l) /\ l \in Seq(1 .. Total) /\ Ordered(l)
        /\ l[1] \in 1 .. Total /\ l[1] <= N - Late
    BY FullList
  <2>2. r.size \in Int /\ \A i \in 1 .. Len(l) : l[i] \in 1 .. Total
    BY FieldTypes DEF Sound
  <2>3. QED
    BY <2>1, <2>2, UnpackerConstants
<1>2. CASE one # r
  <2>1. ASSUME o # << >>, NEW q \in LL(o) + 1 .. l[1] - 1 PROVE q \in D
    <3>1. LL(o) \in 1 .. Total
      BY <2>1, OutFacts
    <3>2. q \in 1 .. N - Late - 1
      BY <1>1, <2>1, <3>1
    <3>3. QED
      BY <3>2
  <2>2. Sound(one) /\ Kept(one, D, N) /\ Slack(one) = Slack(r)
    BY <1>2, <2>1, TakeKept, unpackOneSound
  <2> HIDE DEF one
  <2>3. Kept(unpackAll(one), D, N) /\ Slack(unpackAll(one)) = Slack(one)
    BY <2>2, AllKept
  <2>4. QED
    BY <1>0, <1>2, <2>2, <2>3
<1>3. CASE one = r
  <2>1. /\ Sound(t) /\ t.size = r.size - 1 /\ t.out = o /\ Len(t.list) = Len(l) - 1
        /\ \A i \in 1 .. Len(t.list) : t.list[i] = l[i + 1]
    BY DropSound
  <2>2. o # << >> => Packets[l[1]] = "bad"
    BY <1>3, HeadIsBad
  <2> HIDE DEF t, one
  <2>3. Slack(t) = Slack(r)
    <3>0. r.size \in Int /\ Len(l) \in Int
      BY <1>1
    <3>1. (r.size - 1) - (Len(l) - 1) = r.size - Len(l)
      BY <3>0
    <3>2. QED
      BY <2>1, <3>1 DEF Slack
  <2>4. \A i \in 1 .. Len(t.list) : i + 1 \in 1 .. Len(l) /\ 1 < i + 1
    BY <1>1, <2>1
  <2>5. \A q \in 1 .. Total : InList(r, q) <=> InList(t, q) \/ q = l[1]
    <3> TAKE q \in 1 .. Total
    <3>1. ASSUME InList(t, q) PROVE InList(r, q)
      BY <2>1, <2>4, <3>1 DEF InList
    <3>2. InList(r, l[1])
      BY <1>1 DEF InList
    <3>3. ASSUME NEW i \in 1 .. Len(l), i # 1 PROVE InList(t, l[i])
      <4>1. i - 1 \in 1 .. Len(t.list) /\ (i - 1) + 1 = i
        BY <1>1, <2>1, <3>3
      <4>2. t.list[i - 1] = l[i]
        BY <2>1, <4>1
      <4>3. QED
        BY <4>1, <4>2 DEF InList
    <3>4. QED
      BY <3>1, <3>2, <3>3 DEF InList
  <2>6. \A q \in 1 .. Total : Held(r, q) <=> Held(t, q) \/ q = l[1]
    BY <2>1, <2>5 DEF Held, WentOut
  <2>7. /\ \A q \in 1 .. Total : Held(r, q) => q \in D
        /\ o # << >> => \A q \in HH(o) .. LL(o) : q \in D
        /\ \A g \in D : ~ Held(r, g) =>
             /\ o # << >> => g < HH(o) \/ Packets[g] = "bad"
             /\ \A i \in 1 .. Len(l) : g < l[i]
             /\ g <= N - Late \/ (o # << >> /\ g <= LL(o))
    BY DEF Kept
  <2>8. ASSUME NEW g \in D, ~ Held(t, g)
        PROVE  /\ o # << >> => g < HH(o) \/ Packets[g] = "bad"
               /\ \A i \in 1 .. Len(t.list) : g < t.list[i]
               /\ g <= N - Late \/ (o # << >> /\ g <= LL(o))
    <3>1. CASE g = l[1]
      <4>1. \A i \in 1 .. Len(t.list) : l[1] < l[i + 1]
        BY <1>1, <2>4 DEF Ordered
      <4>2. QED
        BY <1>1, <2>1, <2>2, <3>1, <4>1
    <3>2. CASE g # l[1]
      <4>1. ~ Held(r, g)
        BY <2>6, <2>8, <3>2
      <4>2. /\ o # << >> => g < HH(o) \/ Packets[g] = "bad"
            /\ \A i \in 1 .. Len(l) : g < l[i]
            /\ g <= N - Late \/ (o # << >> /\ g <= LL(o))
        BY <2>7, <4>1
      <4>3. QED
        BY <2>1, <2>4, <4>2
    <3>3. QED
      BY <3>1, <3>2
  <2>9. Kept(t, D, N)
    <3>1. \A q \in 1 .. Total : Held(t, q) => q \in D
      BY <2>6, <2>7
    <3>2. QED
      BY <2>1, <2>7, <2>8, <3>1 DEF Kept
  <2>10. Kept(unpackAll(t), D, N) /\ Slack(unpackAll(t)) = Slack(t)
    BY <2>1, <2>9, AllKept
  <2>11. QED
    BY <1>0, <1>3, <2>3, <2>10
<1>4. QED
  BY <1>2, <1>3

\* What Feed does with a packet that is not stale.
LEMMA FeedKept ==
  ASSUME RoomForLate, Sound(State), NEW p \in 1 .. Total, Newer(out, p),
         NEW D \in SUBSET (1 .. Total), NEW N \in Int, Kept(State, D, N), p + Late >= N,
         NEW M \in Int, M >= N, \A q \in D \cup {p} : q <= M,
         \A q \in 1 .. M - Late - 1 : q \in D \cup {p},
         Slack(State) <= MaxDups, p \in D => Slack(State) + 1 <= MaxDups
  PROVE  /\ Kept(feed(p), D \cup {p}, M)
         /\ p \notin D => Slack(feed(p)) = Slack(State)
         /\ Slack(feed(p)) <= Slack(State) + 1
<1> DEFINE r == insert(State, p)
           E == D \cup {p}
<1>0. State.out = out /\ State.size \in Nat /\ Len(State.list) \in Nat /\ MaxDups \in Nat
  BY FieldTypes, UnpackerConstants DEF State, Sound
<1>1. /\ Kept(r, E, M)
      /\ p \notin D => Slack(r) = Slack(State)
      /\ Slack(r) <= Slack(State) + 1 /\ Sound(r) /\ r.list # << >>
      /\ E \in SUBSET (1 .. Total)
  BY <1>0, InsertKept, insertSound
<1>2. Slack(r) <= MaxDups /\ Slack(r) \in Int
  <2>1. Slack(r) \in Int /\ Slack(State) \in Int
    <3>1. r.size \in Nat /\ Len(r.list) \in Nat
      BY <1>1, FieldTypes DEF Sound
    <3> HIDE DEF r
    <3>2. QED
      BY <1>0, <3>1 DEF Slack
  <2> HIDE DEF r
  <2>2. QED
    BY <1>0, <1>1, <2>1
<1> HIDE DEF r, E
<1>3. Kept(unpackAll(r), E, M) /\ Slack(unpackAll(r)) = Slack(r)
  BY <1>1, AllKept
<1>4. CASE unpackAll(r) = r /\ r.size > maxSize
  <2>1. feed(p) = overflow(r)
    BY <1>4 DEF feed, r
  <2>2. Kept(overflow(r), E, M) /\ Slack(overflow(r)) = Slack(r)
    <3>1. (\A q \in E : q <= M) /\ \A q \in 1 .. M - Late - 1 : q \in E
      BY DEF E
    <3>2. QED
      BY <1>1, <1>2, <1>4, <3>1, OverflowKept
  <2>3. QED
    BY <1>1, <2>1, <2>2 DEF E
<1>5. CASE ~ (unpackAll(r) = r /\ r.size > maxSize)
  <2>1. feed(p) = unpackAll(r)
    BY <1>5 DEF feed, r
  <2>2. QED
    BY <1>1, <1>3, <2>1 DEF E
<1>6. QED
  BY <1>4, <1>5

\* What came is kept as long as nothing was lost, and the list's length and the size that is
\* compared with maxSize differ by the packets that came twice at most.
NothingDroppedInv ==
  /\ UnpackerInv /\ ReceiverInv /\ dups <= MaxDups
  /\ NoLossSoFar => Kept(State, delivered, Newest) /\ Slack(State) <= dups

LEMMA NewestIs ==
  ASSUME ReceiverInv
  PROVE  /\ Newest \in 0 .. Total /\ \A q \in delivered : q <= Newest
         /\ delivered # {} => Newest \in delivered
         /\ delivered = {} => Newest = 0
<1>1. CASE delivered = {}
  BY <1>1, Widths DEF Newest
<1>2. CASE delivered # {}
  <2>1. IsNewest(Newest) /\ delivered \subseteq 1 .. Total
    BY <1>2 DEF ReceiverInv, Counted
  <2>2. QED
    BY <1>2, <2>1, Widths DEF IsNewest
<1>3. QED
  BY <1>1, <1>2

LEMMA PacketKept ==
  ASSUME RoomForLate, NothingDroppedInv, NEW p \in 1 .. Total, handleRTPPacket(p),
         ReceiverInv', NoLossSoFar'
  PROVE  Kept(State', delivered', Newest') /\ Slack(State') <= dups'
<1> DEFINE D == delivered
           N == Newest
           M == Newest'
<1>1. /\ D \in SUBSET (1 .. Total) /\ N \in Int /\ \A q \in D : q <= N
      /\ D # {} => N \in D
      /\ D = {} => N = 0
  BY NewestIs DEF NothingDroppedInv, ReceiverInv
<1>2. delivered' = D \cup {p} /\ p + Late >= N /\ Feed(p)
  BY DEF handleRTPPacket, Arrives, ArrivesAgain
<1>3. M \in Int /\ \A q \in D \cup {p} : q <= M
  <2>1. first' # 0 => IsNewest(Newest)'
    BY DEF ReceiverInv, Counted
  <2>2. first' # 0 /\ delivered' \subseteq 1 .. Total
    BY <1>2 DEF ReceiverInv, Counted
  <2>3. Newest' \in delivered' /\ \A q \in delivered' : q <= Newest'
    BY <2>1, <2>2 DEF IsNewest
  <2>4. Newest' \in 1 .. Total
    BY <2>2, <2>3
  <2>5. QED
    BY <1>2, <2>3, <2>4
<1>4. M >= N
  <2>1. CASE D = {}
    <3>1. p <= M /\ p \in Nat
      BY <1>3
    <3>2. QED
      BY <1>1, <1>3, <2>1, <3>1
  <2>2. CASE D # {}
    BY <1>1, <1>3, <2>2
  <2>3. QED
    BY <2>1, <2>2
<1>5. Late \in Nat /\ MaxDups \in Nat /\ dups \in Nat /\ dups <= MaxDups
  BY UnpackerConstants DEF NothingDroppedInv, ReceiverInv
<1>6. \A q \in 1 .. M - Late - 1 : q \in D \cup {p}
  BY <1>2 DEF NoLossSoFar
<1> HIDE DEF D, N, M
<1>7. \A q \in 1 .. N - Late - 1 : q \in D
  <2> TAKE q \in 1 .. N - Late - 1
  <2>1. q \in 1 .. M - Late - 1
    BY <1>1, <1>3, <1>4, <1>5
  <2>2. q # p
    BY <1>1, <1>2, <1>5
  <2>3. QED
    BY <1>6, <2>1, <2>2
<1>8. Kept(State, D, N) /\ Slack(State) <= dups
  BY <1>7 DEF NothingDroppedInv, NoLossSoFar, D, N
<1>9. /\ Sound(State) /\ State.out = out /\ State.flag = unpackedFlag /\ State.seq = unpackedSeq
      /\ Slack(State) \in Int
  <2>1. Sound(State) /\ State.size \in Nat /\ Len(State.list) \in Nat
    BY FieldTypes DEF NothingDroppedInv, UnpackerInv, Sound
  <2>2. QED
    BY <2>1 DEF State, Slack
<1>10. \/ p \notin D /\ dups' = dups
       \/ p \in D /\ dups < MaxDups /\ dups' = dups + 1
  BY DEF handleRTPPacket, Arrives, ArrivesAgain, D
<1>11. CASE isStale(p)
  <2>1. UNCHANGED <<list, size, unpackedFlag, unpackedSeq, out>>
    BY <1>2, <1>11 DEF Feed
  <2>2. State' = State
    BY <2>1 DEF State
  <2>3. ~ Newer(State.out, p)
    BY <1>9, <1>11, NotStale DEF isStale
  <2>4. Kept(State, D \cup {p}, M)
    BY <1>1, <1>3, <1>4, <1>8, <1>9, <2>3, StaleKept
  <2>5. Slack(State) <= dups'
    BY <1>5, <1>8, <1>9, <1>10
  <2>6. QED
    BY <1>2, <2>2, <2>4, <2>5 DEF D, M
<1>12. CASE ~ isStale(p)
  <2> DEFINE r == feed(p)
  <2>1. Newer(out, p)
    BY <1>9, <1>12, NotStale DEF isStale
  <2>2. Sound(r)
    BY <1>9, <2>1, feedSound DEF NothingDroppedInv, UnpackerInv
  <2>3. /\ Kept(r, D \cup {p}, M)
        /\ p \notin D => Slack(r) = Slack(State)
        /\ Slack(r) <= Slack(State) + 1
    <3>1. Slack(State) <= MaxDups /\ (p \in D => Slack(State) + 1 <= MaxDups)
      BY <1>5, <1>8, <1>9, <1>10
    <3>2. QED
      BY <1>1, <1>2, <1>3, <1>4, <1>6, <1>8, <1>9, <2>1, <3>1, FeedKept
  <2>4. list' = r.list /\ size' = r.size /\ unpackedFlag' = r.flag /\ unpackedSeq' = r.seq /\ out' = r.out
    BY <1>2, <1>12 DEF Feed
  <2>5. Slack(r) \in Int
    <3>1. r.size \in Nat /\ Len(r.list) \in Nat
      BY <2>2, FieldTypes DEF Sound
    <3> HIDE DEF r
    <3>2. QED
      BY <3>1 DEF Slack
  <2> HIDE DEF r
  <2>6. State' = r
    BY <2>2, <2>4 DEF State, Sound, Unpacker
  <2>7. Slack(r) <= dups'
    BY <1>5, <1>8, <1>9, <1>10, <2>3, <2>5
  <2>8. QED
    BY <1>2, <2>3, <2>6, <2>7 DEF D, M
<1>13. QED
  BY <1>11, <1>12

LEMMA NothingDroppedInit == ReceiverInit => NothingDroppedInv
<1> SUFFICES ASSUME ReceiverInit PROVE NothingDroppedInv
  OBVIOUS
<1>1. UnpackerInv /\ ReceiverInv
  BY UnpackerInvHolds, ReceiverInitInv
<1>2. /\ State = [list |-> << >>, size |-> 0, flag |-> FALSE, seq |-> 0, out |-> << >>]
      /\ delivered = {} /\ dups = 0
  BY DEF ReceiverInit, Init, State
<1>3. /\ State.list = << >> /\ State.out = << >> /\ State.size = 0
      /\ Len(State.list) = 0 /\ Len(State.out) = 0
  BY <1>2
<1>4. \A q \in 1 .. Total : ~ Held(State, q)
  BY <1>3 DEF Held, InList, WentOut
<1>5. Kept(State, delivered, Newest)
  BY <1>2, <1>3, <1>4 DEF Kept
<1>6. Slack(State) = 0
  <2>1. State.size - Len(State.list) = 0 - 0
    BY <1>3
  <2>2. QED
    BY <2>1 DEF Slack
<1>7. QED
  BY <1>1, <1>2, <1>5, <1>6, UnpackerConstants DEF NothingDroppedInv

LEMMA NothingDroppedNext ==
  ASSUME RoomForLate, NothingDroppedInv, [ReceiverNext]_receiverVars
  PROVE  NothingDroppedInv'
<1>1. UnpackerInv' /\ ReceiverInv'
  BY UnpackerInvHolds, ReceiverNextInv DEF NothingDroppedInv
<1>2. CASE \E p \in 1 .. Total : handleRTPPacket(p)
  <2>1. PICK p \in 1 .. Total : handleRTPPacket(p)
    BY <1>2
  <2>2. dups' <= MaxDups
    <3>1. dups \in Nat /\ MaxDups \in Nat /\ dups <= MaxDups
      BY UnpackerConstants DEF NothingDroppedInv, ReceiverInv
    <3>2. dups' = dups \/ (dups < MaxDups /\ dups' = dups + 1)
      BY <2>1 DEF handleRTPPacket, Arrives, ArrivesAgain
    <3>3. QED
      BY <3>1, <3>2
  <2>3. NoLossSoFar' => Kept(State', delivered', Newest') /\ Slack(State') <= dups'
    BY <1>1, <2>1, PacketKept
  <2>4. QED
    BY <1>1, <2>2, <2>3 DEF NothingDroppedInv
<1>3. CASE UNCHANGED vars
  <2>1. UNCHANGED <<list, size, unpackedFlag, unpackedSeq, out, delivered, dups>>
    BY <1>3 DEF vars
  <2>2. State' = State /\ Newest' = Newest /\ (NoLossSoFar' <=> NoLossSoFar)
    BY <2>1 DEF State, Newest, NoLossSoFar
  <2>3. QED
    BY <1>1, <2>1, <2>2 DEF NothingDroppedInv
<1>4. QED
  BY <1>2, <1>3 DEF ReceiverNext, OnSR, receiverVars

LEMMA ListIsBounded ==
  ASSUME UnpackerInv
  PROVE  BufferBounded
<1>1. /\ Sound(State) /\ State.list = list /\ State.out = out /\ State.size = size
      /\ size <= maxSize
  BY DEF UnpackerInv, State
<1>2. list \in Seq(1 .. Total) /\ Len(list) \in Nat /\ DOMAIN list = 1 .. Len(list)
  BY <1>1, FieldTypes, LenProperties DEF Sound
<1>3. Len(list) <= size /\ Ordered(list) /\ \A i \in 1 .. Len(list) : Newer(out, list[i])
  BY <1>1 DEF Sound
<1>4. \A i \in 1 .. Len(list) - 1 : list[i] < list[i + 1]
  <2> TAKE i \in 1 .. Len(list) - 1
  <2>1. i \in 1 .. Len(list) /\ i + 1 \in 1 .. Len(list) /\ i < i + 1
    BY <1>2
  <2>2. QED
    BY <1>3, <2>1 DEF Ordered
<1>5. QED
  BY <1>1, <1>2, <1>3, <1>4 DEF BufferBounded, Newer

\* Even with a list that is too short for the network: it never exceeds maxSize, stays sorted,
\* and holds nothing that is not newer than what went out (insert, isStale, Feed).
THEOREM ListBounded == ReceiverSpec => []BufferBounded
BY ListIsBounded, UnpackerInvHolds, PTL DEF ReceiverSpec

\* For any sender, any width of the numbers, and a list that has room for the longest frame
\* and for what the network delivers late or twice beside it: as long as the network has lost
\* nothing, no packet that came after the first frame that went out is given up, be it late,
\* repeated, or at the head of a list that is full (Feed's second loop).
THEOREM NothingGivenUpNeedlessly ==
  ASSUME RoomForLate
  PROVE  ReceiverSpec => []BufferSound
<1>1. ReceiverInit => NothingDroppedInv
  BY NothingDroppedInit
<1>2. NothingDroppedInv /\ [ReceiverNext]_receiverVars => NothingDroppedInv'
  BY NothingDroppedNext
<1>3. NothingDroppedInv => BufferSound
  <2> SUFFICES ASSUME NothingDroppedInv PROVE BufferSound
    OBVIOUS
  <2>1. /\ Sound(State) /\ State.list = list /\ State.out = out /\ State.size = size
        /\ size <= maxSize
    BY DEF NothingDroppedInv, UnpackerInv, State
  <2>2. /\ list \in Seq(1 .. Total) /\ Len(list) \in Nat /\ DOMAIN list = 1 .. Len(list)
        /\ out \in Seq(Seq(1 .. Total)) /\ DOMAIN out = 1 .. Len(out)
        /\ \A i \in 1 .. Len(out) : out[i] \in Seq(1 .. Total)
    BY <2>1, FieldTypes, LenProperties DEF Sound
  <2>3. BufferBounded
    BY ListIsBounded DEF NothingDroppedInv
  <2>4. NothingDropped
    <3> SUFFICES ASSUME NoLossSoFar, out # << >>, NEW p \in delivered,
                        ~ (p < Head(Head(out))), Packets[p] # "bad"
                 PROVE  p \in ToSet(list) \/ \E i \in DOMAIN out : p \in ToSet(out[i])
      BY DEF NothingDropped
    <3>1. Kept(State, delivered, Newest)
      BY DEF NothingDroppedInv
    <3>2. Held(State, p)
      BY <2>1, <3>1 DEF Kept, HH
    <3>3. CASE InList(State, p)
      BY <2>1, <2>2, <3>3 DEF InList, ToSet
    <3>4. CASE WentOut(State, p)
      <4>1. PICK i \in 1 .. Len(out) : \E j \in 1 .. Len(out[i]) : out[i][j] = p
        BY <2>1, <3>4 DEF WentOut
      <4>2. DOMAIN out[i] = 1 .. Len(out[i])
        BY <2>2, LenProperties
      <4>3. p \in ToSet(out[i])
        BY <4>1, <4>2 DEF ToSet
      <4>4. QED
        BY <2>2, <4>1, <4>3
    <3>5. QED
      BY <3>2, <3>3, <3>4 DEF Held
  <2>5. QED
    BY <2>3, <2>4 DEF BufferSound
<1>4. QED
  BY <1>1, <1>2, <1>3, PTL DEF ReceiverSpec
----------------------------------------------------------------------------
(* Sequences and clocks.                                                   *)

LEMMA PopKeeps ==
  ASSUME NEW S, NEW e \in Seq(S), NEW q \in Seq(S), q # <<>>
  PROVE  /\ Append(e, Head(q)) \o Tail(q) = e \o q
         /\ Head(q) \in S /\ Tail(q) \in Seq(S)
         /\ Append(e, Head(q)) \in Seq(S)
         /\ Head(q) = q[1] /\ Len(Tail(q)) = Len(q) - 1
         /\ \A i \in 1..(Len(q) - 1) : Tail(q)[i] = q[i + 1]
<1>1. Len(q) \in Nat /\ Len(q) > 0 /\ Len(e) \in Nat
  BY EmptySeq
<1>2. /\ Head(q) \in S /\ Tail(q) \in Seq(S)
      /\ Append(e, Head(q)) \in Seq(S)
      /\ Head(q) = q[1] /\ Len(Tail(q)) = Len(q) - 1
      /\ \A i \in 1..(Len(q) - 1) : Tail(q)[i] = q[i + 1]
  BY <1>1, HeadTailProperties, AppendProperties
<1>3. Append(e, Head(q)) \o Tail(q) = e \o q
  <2> DEFINE a == Append(e, Head(q)) \o Tail(q)
             b == e \o q
  <2>1. a \in Seq(S) /\ b \in Seq(S)
    BY <1>2, ConcatProperties
  <2>2. Len(a) = Len(e) + Len(q) /\ Len(b) = Len(e) + Len(q)
    BY <1>1, <1>2, ConcatProperties, AppendProperties
  <2>3. ASSUME NEW i \in 1..(Len(e) + Len(q)) PROVE a[i] = b[i]
    BY <1>1, <1>2, ConcatProperties, AppendProperties
  <2>4. QED
    BY <2>1, <2>2, <2>3, SeqEqual
<1>4. QED
  BY <1>2, <1>3

Popped(e, q) == /\ Append(e, Head(q)) \o Tail(q) = e \o q /\ Tail(q) \in Seq(Timestamps)
                /\ Len(Tail(q)) = Len(q) - 1

LEMMA PoppedTimestamps ==
  ASSUME NEW e \in Seq(Timestamps), NEW q \in Seq(Timestamps), q # <<>>
  PROVE  Popped(e, q)
BY PopKeeps DEF Popped

LEMMA PushKeeps ==
  ASSUME NEW S, NEW e \in Seq(S), NEW q \in Seq(S), NEW t \in S
  PROVE  e \o Append(q, t) = Append(e \o q, t)
<1> DEFINE a == e \o Append(q, t)
           b == Append(e \o q, t)
<1>1. a \in Seq(S) /\ b \in Seq(S) /\ Len(e) \in Nat /\ Len(q) \in Nat
  BY ConcatProperties, AppendProperties
<1>2. Len(a) = Len(e) + Len(q) + 1 /\ Len(b) = Len(e) + Len(q) + 1
  BY <1>1, ConcatProperties, AppendProperties
<1>3. ASSUME NEW i \in 1..(Len(e) + Len(q) + 1) PROVE a[i] = b[i]
  BY <1>1, ConcatProperties, AppendProperties
<1>4. QED
  BY <1>1, <1>2, <1>3, SeqEqual

LEMMA UnpackedTyped ==
  ASSUME NEW m \in Media, NEW t \in Clocks(m)
  PROVE  unpacked(m, t) \in Timestamps
<1>1. /\ Wrap[m] \in Nat \ {0} /\ Wrap[m] <= TsMod /\ TsMod \in Nat
      /\ start[m] \in Nat /\ t \in Nat
  BY QueueConstants DEF Clocks
<1>2. start[m] + t \in Nat
  BY <1>1
<1>3. ASSUME NEW a \in Nat, NEW w \in Nat \ {0} PROVE (a % w) \in 0..(w - 1)
  OBVIOUS
<1>4. unpacked(m, t) \in 0..(Wrap[m] - 1)
  BY <1>1, <1>2, <1>3 DEF unpacked
<1>5. QED
  BY <1>1, <1>4 DEF Timestamps

\* Before a wrap, subtracting the base gives the medium's own clock back.
LEMMA RebaseIsClock ==
  ASSUME NoWrap, NEW m \in Media, NEW t \in Clocks(m)
  PROVE  /\ unpacked(m, t) = start[m] + t
         /\ (unpacked(m, t) - start[m]) % TsMod = t
<1>1. /\ Wrap[m] \in Nat \ {0} /\ start[m] \in Nat /\ start[m] + t < Wrap[m]
      /\ t \in 0..(TsMod - 1) /\ TsMod \in Nat \ {0}
  BY QueueConstants DEF Clocks, NoWrap
<1>2. ASSUME NEW w \in Nat \ {0}, NEW a \in Nat, a < w PROVE (a % w) = a
  BY <1>2
<1>3. start[m] + t \in Nat
  BY <1>1
<1>4. unpacked(m, t) = start[m] + t
  BY <1>1, <1>2, <1>3 DEF unpacked
<1>5. (start[m] + t) - start[m] = t /\ t \in Nat /\ t < TsMod
  BY <1>1
<1>6. (t % TsMod) = t
  BY <1>1, <1>2, <1>5
<1>7. QED
  BY <1>4, <1>5, <1>6

----------------------------------------------------------------------------
(* Types, with any number of goroutines.                                   *)

LEMMA PushTyped ==
  ASSUME QueueTypeOK, NEW g \in Goroutines, NEW m \in Media, Push(g, m)
  PROVE  QueueTypeOK'
<1> USE QueueConstants DEF Timestamps
<1>1. PICK t \in Clocks(m) :
        LET raw == unpacked(m, t)
            q == IF Len(queue[m]) = maxQueueSize THEN queue[m]
                 ELSE Append(queue[m], Rebase(m, raw))
        IN
        /\ baseTS' = [baseTS EXCEPT ![m] = IF @ = -1 THEN raw ELSE @]
        /\ fed' = [fed EXCEPT ![m] = Append(@, t)]
        /\ \/ /\ Len(q) = maxQueueSize
              /\ pushFull(m, q)
              /\ overflowed' = TRUE /\ UNCHANGED pc
           \/ /\ Len(q) < maxQueueSize
              /\ queue' = [queue EXCEPT ![m] = q]
              /\ pc' = [pc EXCEPT ![g] = "loop"]
              /\ UNCHANGED <<emitted, lastTs, backwards, overflowed>>
  BY DEF Push
<1> DEFINE raw == unpacked(m, t)
           q == IF Len(queue[m]) = maxQueueSize THEN queue[m]
                ELSE Append(queue[m], Rebase(m, raw))
<1>2. t \in Timestamps
  BY DEF Clocks
<1>3. raw \in Timestamps
  BY UnpackedTyped
<1>4. baseTS' \in [Media -> Timestamps \cup {-1}]
  BY <1>1, <1>3 DEF QueueTypeOK
<1>5. Rebase(m, raw) \in Timestamps
  BY <1>3, <1>4 DEF Rebase
<1>6. q \in Seq(Timestamps)
  BY <1>5, AppendProperties DEF QueueTypeOK
<1>7. fed' \in [Media -> Seq(Timestamps)]
  BY <1>1, <1>2, AppendProperties DEF QueueTypeOK
<1> HIDE DEF q, raw
<1>8. /\ queue' \in [Media -> Seq(Timestamps)]
      /\ emitted' \in [Media -> Seq(Timestamps)]
      /\ lastTs' \in Timestamps /\ backwards' \in BOOLEAN /\ overflowed' \in BOOLEAN
      /\ pc' \in [Goroutines -> {"idle", "loop", "front", "pop"}]
      /\ \A h \in Goroutines : pc'[h] = "pop" => pc[h] = "pop"
  <2>1. CASE Len(q) = maxQueueSize /\ pushFull(m, q) /\ overflowed' = TRUE /\ UNCHANGED pc
    <3>1. q # <<>>
      BY <2>1, <1>6, EmptySeq
    <3>2. Head(q) \in Timestamps /\ Tail(q) \in Seq(Timestamps)
          /\ Append(emitted[m], Head(q)) \in Seq(Timestamps)
      BY <3>1, <1>6, PopKeeps DEF QueueTypeOK
    <3>3. queue' \in [Media -> Seq(Timestamps)]
      BY <2>1, <3>2 DEF pushFull, QueueTypeOK
    <3>4. emitted' \in [Media -> Seq(Timestamps)] /\ lastTs' \in Timestamps
      BY <2>1, <3>2 DEF pushFull, Emit, QueueTypeOK
    <3>5. backwards' \in BOOLEAN /\ overflowed' \in BOOLEAN
      BY <2>1, <3>2, Zenon DEF pushFull, Emit, QueueTypeOK
    <3>6. QED
      BY <2>1, <3>3, <3>4, <3>5 DEF QueueTypeOK
  <2>2. CASE /\ queue' = [queue EXCEPT ![m] = q]
             /\ pc' = [pc EXCEPT ![g] = "loop"]
             /\ UNCHANGED <<emitted, lastTs, backwards, overflowed>>
    BY <2>2, <1>6 DEF QueueTypeOK
  <2>3. QED
    BY <1>1, <2>1, <2>2 DEF q, raw
<1>9. front' = front /\ panicked' = panicked
  BY DEF Push
<1>10. QED
  BY <1>4, <1>7, <1>8, <1>9 DEF QueueTypeOK

LEMMA StepTyped ==
  ASSUME QueueTypeOK, NEW g \in Goroutines, Step(g)
  PROVE  QueueTypeOK'
<1> USE QueueConstants DEF Timestamps
<1>1. CASE LoopTest(g)
  BY <1>1 DEF LoopTest, QueueTypeOK
<1>2. CASE Fronts(g)
  <2>1. CASE \A m \in Media : queue[m] # <<>>
    <3>1. \A m \in Media : Head(queue[m]) \in Timestamps
      BY <2>1, PopKeeps DEF QueueTypeOK
    <3>2. [m \in Media |-> Head(queue[m])] \in [Media -> Timestamps]
      BY <3>1
    <3>3. /\ front' \in [Goroutines -> [Media -> Timestamps] \cup {None}]
          /\ \A h \in Goroutines : pc'[h] = "pop" => front'[h] \in [Media -> Timestamps]
      BY <1>2, <2>1, <3>2 DEF Fronts, QueueTypeOK
    <3>4. QED
      BY <1>2, <2>1, <3>3 DEF Fronts, QueueTypeOK
  <2>2. CASE ~\A m \in Media : queue[m] # <<>>
    BY <1>2, <2>2 DEF Fronts, QueueTypeOK
  <2>3. QED
    BY <2>1, <2>2
<1>3. CASE Pop(g)
  <2> DEFINE m == earlier(front[g])
             v == front[g][m]
  <2>1. m \in Media
    BY DEF earlier, Media
  <2>2. v \in Timestamps
    BY <1>3, <2>1 DEF Pop, QueueTypeOK
  <2>3. queue[m] # <<>> => Tail(queue[m]) \in Seq(Timestamps)
    BY <2>1, PopKeeps DEF QueueTypeOK
  <2>4. Append(emitted[m], v) \in Seq(Timestamps)
    BY <2>1, <2>2, AppendProperties DEF QueueTypeOK
  <2> HIDE DEF m, v
  <2>5. queue' \in [Media -> Seq(Timestamps)]
    BY <1>3, <2>1, <2>3 DEF Pop, QueueTypeOK, m
  <2>6. emitted' \in [Media -> Seq(Timestamps)] /\ lastTs' \in Timestamps
    BY <1>3, <2>1, <2>2, <2>4 DEF Pop, Emit, QueueTypeOK, m, v
  <2>7. backwards' \in BOOLEAN
    BY <1>3, Zenon DEF Pop, Emit, QueueTypeOK
  <2>8. /\ pc' \in [Goroutines -> {"idle", "loop", "front", "pop"}]
        /\ front' \in [Goroutines -> [Media -> Timestamps] \cup {None}]
        /\ \A h \in Goroutines : pc'[h] = "pop" => front'[h] \in [Media -> Timestamps]
    BY <1>3 DEF Pop, QueueTypeOK
  <2>9. QED
    BY <1>3, <2>5, <2>6, <2>7, <2>8 DEF Pop, QueueTypeOK
<1>4. CASE \E m \in Media : Push(g, m)
  BY <1>4, PushTyped
<1>5. QED
  BY <1>1, <1>2, <1>3, <1>4 DEF Step

\* Every step of any number of goroutines, racing or not, keeps the types.
THEOREM TypeCorrect == QueueSpec => []QueueTypeOK
<1>1. QueueInit => QueueTypeOK
  <2>1. <<>> \in Seq(Timestamps) /\ 0 \in Timestamps
    BY QueueConstants, EmptySeq DEF Timestamps
  <2>2. QED
    BY <2>1 DEF QueueInit, QueueTypeOK
<1>2. QueueTypeOK /\ [QueueNext]_queueVars => QueueTypeOK'
  <2> SUFFICES ASSUME QueueTypeOK, [QueueNext]_queueVars PROVE QueueTypeOK'
    OBVIOUS
  <2>1. CASE \E g \in Goroutines : Step(g)
    BY <2>1, StepTyped
  <2>2. CASE UNCHANGED queueVars
    BY <2>2 DEF queueVars, QueueTypeOK
  <2>3. QED
    BY <2>1, <2>2 DEF QueueNext
<1>3. QED
  BY <1>1, <1>2, PTL DEF QueueSpec

----------------------------------------------------------------------------
(* The invariant of a queue with one reader.                               *)

Clock == \A m \in Media : baseTS[m] = IF fed[m] = <<>> THEN -1 ELSE start[m]

Heads ==
  \A g \in Goroutines :
    /\ pc[g] \in {"front", "pop"} => BothWait
    /\ pc[g] = "pop" => front[g] = [m \in Media |-> Head(queue[m])]

Drained == BothWait => \E g \in Goroutines : pc[g] # "idle"

Short == \A m \in Media : Len(queue[m]) < maxQueueSize

FedSorted ==
  \A m \in Media : \A i, j \in 1..Len(fed[m]) : i <= j => fed[m][i] <= fed[m][j]

\* Nothing that waits, and no clock, is before the last packet that went out.
InTimeOrder ==
  ~overflowed => \A m \in Media :
    /\ \A i \in 1..Len(queue[m]) : lastTs <= queue[m][i]
    /\ IF fed[m] = <<>> THEN lastTs = 0 ELSE lastTs <= fed[m][Len(fed[m])]

QInv ==
  /\ QueueTypeOK /\ Clock /\ NothingLost /\ Heads /\ Drained /\ Short /\ NeverPanics
  /\ FedSorted /\ InTimeOrder /\ InterleavedUnlessFull

\* What a call of Feed does up to its loop: the packet is queued with its
\* clock's time, and the head goes out at once if that fills the queue.
PushEffect(g, m, t) ==
  /\ t \in Clocks(m)
  /\ fed' = [fed EXCEPT ![m] = Append(@, t)]
  /\ baseTS' = [baseTS EXCEPT ![m] = start[m]]
  /\ \/ /\ queue' = [queue EXCEPT ![m] = Tail(Append(queue[m], t))]
        /\ emitted' = [emitted EXCEPT ![m] = Append(@, Head(Append(queue[m], t)))]
        /\ Len(queue[m]) + 1 = maxQueueSize
        /\ overflowed' = TRUE /\ pc' = pc
     \/ /\ queue' = [queue EXCEPT ![m] = Append(@, t)]
        /\ Len(queue[m]) + 1 < maxQueueSize
        /\ pc' = [pc EXCEPT ![g] = "loop"]
        /\ UNCHANGED <<emitted, lastTs, backwards, overflowed>>

LEMMA PushDoes ==
  ASSUME NoWrap, QueueTypeOK, Clock, Short, NEW g \in Goroutines, NEW m \in Media, Push(g, m)
  PROVE  \E t \in Timestamps : PushEffect(g, m, t)
<1> USE QueueConstants DEF Timestamps
<1>1. PICK t \in Clocks(m) :
        LET raw == unpacked(m, t)
            q == IF Len(queue[m]) = maxQueueSize THEN queue[m]
                 ELSE Append(queue[m], Rebase(m, raw))
        IN
        /\ baseTS' = [baseTS EXCEPT ![m] = IF @ = -1 THEN raw ELSE @]
        /\ fed' = [fed EXCEPT ![m] = Append(@, t)]
        /\ \/ /\ Len(q) = maxQueueSize
              /\ pushFull(m, q)
              /\ overflowed' = TRUE /\ UNCHANGED pc
           \/ /\ Len(q) < maxQueueSize
              /\ queue' = [queue EXCEPT ![m] = q]
              /\ pc' = [pc EXCEPT ![g] = "loop"]
              /\ UNCHANGED <<emitted, lastTs, backwards, overflowed>>
  BY DEF Push
<1> DEFINE raw == unpacked(m, t)
           q == IF Len(queue[m]) = maxQueueSize THEN queue[m]
                ELSE Append(queue[m], Rebase(m, raw))
<1>2. t \in 0..(TsMod - 1) /\ start[m] \in Nat
  BY DEF Clocks
<1>3. raw = start[m] + t /\ (raw - start[m]) % TsMod = t
  BY RebaseIsClock
<1>4. baseTS'[m] = start[m]
  <2>1. CASE fed[m] = <<>>
    <3>1. t = 0
      BY <2>1 DEF Clocks
    <3>2. raw = start[m]
      BY <3>1, <1>2, <1>3
    <3>3. QED
      BY <1>1, <2>1, <3>2 DEF Clock, QueueTypeOK
  <2>2. CASE fed[m] # <<>>
    BY <1>1, <1>2, <2>2 DEF Clock, QueueTypeOK
  <2>3. QED
    BY <2>1, <2>2
<1>5. baseTS' = [baseTS EXCEPT ![m] = start[m]]
  BY <1>1, <1>4 DEF QueueTypeOK
<1>6. Rebase(m, raw) = t
  BY <1>3, <1>4 DEF Rebase
<1>7. q = Append(queue[m], t) /\ Len(q) = Len(queue[m]) + 1
  BY <1>2, <1>6, AppendProperties DEF Short, QueueTypeOK
<1> HIDE DEF raw
<1>8. \/ /\ Len(q) = maxQueueSize
         /\ pushFull(m, q)
         /\ overflowed' = TRUE /\ UNCHANGED pc
      \/ /\ Len(q) < maxQueueSize
         /\ queue' = [queue EXCEPT ![m] = q]
         /\ pc' = [pc EXCEPT ![g] = "loop"]
         /\ UNCHANGED <<emitted, lastTs, backwards, overflowed>>
  BY <1>1 DEF raw
<1> HIDE DEF q
<1>9. PushEffect(g, m, t)
  BY <1>1, <1>5, <1>7, <1>8 DEF PushEffect, pushFull, Emit
<1>10. QED
  BY <1>2, <1>9

\* A queue is the end of what was fed, hence sorted like it.
LEMMA QueueSorted ==
  ASSUME QueueTypeOK, NothingLost, FedSorted, NEW m \in Media
  PROVE  /\ \A i, j \in 1..Len(queue[m]) : i <= j => queue[m][i] <= queue[m][j]
         /\ queue[m] # <<>> => /\ fed[m] # <<>> /\ Len(queue[m]) >= 1
                              /\ queue[m][1] <= fed[m][Len(fed[m])]
<1> DEFINE e == emitted[m]
           q == queue[m]
<1>1. e \in Seq(Timestamps) /\ q \in Seq(Timestamps) /\ fed[m] = e \o q
  BY DEF QueueTypeOK, NothingLost
<1> HIDE DEF e, q
<1>2. Len(e) \in Nat /\ Len(q) \in Nat /\ Len(fed[m]) = Len(e) + Len(q)
  BY <1>1, ConcatProperties
<1>3. ASSUME NEW i \in 1..Len(q) PROVE fed[m][Len(e) + i] = q[i]
  <2>1. Len(e) + i \in 1..(Len(e) + Len(q)) /\ ~(Len(e) + i <= Len(e)) /\ (Len(e) + i) - Len(e) = i
    BY <1>2
  <2>2. (e \o q)[Len(e) + i] = q[(Len(e) + i) - Len(e)]
    BY <1>1, <2>1, ConcatProperties
  <2>3. QED
    BY <1>1, <2>1, <2>2
<1>4. ASSUME NEW i \in 1..Len(q), NEW j \in 1..Len(q), i <= j
      PROVE  q[i] <= q[j]
  <2>1. Len(e) + i \in 1..Len(fed[m]) /\ Len(e) + j \in 1..Len(fed[m])
    BY <1>2
  <2>2. fed[m][Len(e) + i] <= fed[m][Len(e) + j]
    BY <1>2, <1>4, <2>1 DEF FedSorted
  <2>3. QED
    BY <1>3, <2>2
<1>5. ASSUME q # <<>>
      PROVE  fed[m] # <<>> /\ Len(q) >= 1 /\ q[1] <= fed[m][Len(fed[m])]
  <2>1. Len(q) >= 1
    BY <1>1, <1>2, <1>5, EmptySeq
  <2>2. fed[m][Len(fed[m])] = q[Len(q)] /\ fed[m] # <<>>
    BY <1>2, <1>3, <2>1
  <2>3. QED
    BY <1>2, <1>4, <2>1, <2>2
<1>6. QED
  BY <1>4, <1>5 DEF q

LEMMA PushStep ==
  ASSUME QInv, SingleReader, NoWrap, NEW g \in Goroutines, NEW m \in Media, Push(g, m)
  PROVE  QInv'
<1> USE DEF Timestamps
<1>1. PICK t \in Timestamps : PushEffect(g, m, t)
  BY PushDoes DEF QInv
<1> DEFINE q == queue[m]
           e == emitted[m]
           qt == Append(q, t)
<1>2. /\ q \in Seq(Timestamps) /\ e \in Seq(Timestamps) /\ fed[m] \in Seq(Timestamps)
      /\ e \o q = fed[m] /\ Len(q) \in Nat /\ Len(fed[m]) \in Nat
  BY DEF QInv, QueueTypeOK, NothingLost
<1>3. /\ qt \in Seq(Timestamps) /\ Len(qt) = Len(q) + 1 /\ qt # <<>> /\ qt[Len(q) + 1] = t
      /\ \A i \in 1..Len(q) : qt[i] = q[i]
  BY <1>2, AppendProperties, EmptySeq
<1>4. /\ fed'[m] = Append(fed[m], t) /\ fed'[m] # <<>> /\ Len(fed'[m]) = Len(fed[m]) + 1
      /\ fed'[m][Len(fed[m]) + 1] = t /\ \A i \in 1..Len(fed[m]) : fed'[m][i] = fed[m][i]
      /\ \A n \in Media \ {m} : fed'[n] = fed[n]
  <2>1. fed'[m] = Append(fed[m], t) /\ \A n \in Media \ {m} : fed'[n] = fed[n]
    BY <1>1 DEF PushEffect, QInv, QueueTypeOK
  <2>2. t \in Timestamps /\ fed[m] \in Seq(Timestamps)
    BY <1>2
  <2>3. /\ Append(fed[m], t) # <<>> /\ Len(Append(fed[m], t)) = Len(fed[m]) + 1
        /\ Append(fed[m], t)[Len(fed[m]) + 1] = t
        /\ \A i \in 1..Len(fed[m]) : Append(fed[m], t)[i] = fed[m][i]
    BY <2>2, AppendProperties
  <2>4. QED
    BY <2>1, <2>3
<1>5. pc[g] = "idle" /\ panicked' = panicked /\ pc' \in {pc, [pc EXCEPT ![g] = "loop"]}
  BY <1>1 DEF Push, PushEffect
<1>6. ~BothWait
  BY <1>5 DEF QInv, Drained, SingleReader
<1>7. /\ \A n \in Media \ {m} : queue'[n] = queue[n] /\ emitted'[n] = emitted[n]
      /\ \/ /\ queue'[m] = Tail(qt) /\ emitted'[m] = Append(e, Head(qt))
            /\ Len(q) + 1 = maxQueueSize /\ overflowed'
         \/ /\ queue'[m] = qt /\ emitted'[m] = e /\ Len(q) + 1 < maxQueueSize
            /\ pc' = [pc EXCEPT ![g] = "loop"]
            /\ UNCHANGED <<lastTs, backwards, overflowed>>
  BY <1>1 DEF PushEffect, QInv, QueueTypeOK
<1> HIDE DEF q, e
<1>9. e \o qt = Append(fed[m], t)
  <2>1. e \in Seq(Timestamps) /\ q \in Seq(Timestamps) /\ t \in Timestamps
    BY <1>2
  <2>2. e \o Append(q, t) = Append(e \o q, t)
    BY <2>1, PushKeeps, SMTT(20)
  <2>3. QED
    BY <1>2, <2>2
<1> HIDE DEF qt
<1>8. Tail(qt) \in Seq(Timestamps) /\ Len(Tail(qt)) = Len(q) /\ Append(e, Head(qt)) \o Tail(qt) = e \o qt
  <2>1. e \in Seq(Timestamps) /\ qt \in Seq(Timestamps) /\ qt # <<>>
    BY <1>2, <1>3
  <2>2. Popped(e, qt)
    BY <2>1, PoppedTimestamps
  <2>3. /\ Append(e, Head(qt)) \o Tail(qt) = e \o qt /\ Tail(qt) \in Seq(Timestamps)
        /\ Len(Tail(qt)) = Len(qt) - 1
    BY <2>2 DEF Popped
  <2>4. Len(qt) = Len(q) + 1 /\ Len(q) \in Nat
    BY <1>2, <1>3
  <2>5. Len(Tail(qt)) = Len(q)
    BY <2>3, <2>4
  <2>6. QED
    BY <2>3, <2>5, Zenon
<1>10. QueueTypeOK'
  BY PushTyped DEF QInv
<1>11. Clock'
  BY <1>1, <1>4 DEF PushEffect, QInv, QueueTypeOK, Clock
<1>12. NothingLost'
  <2>1. emitted'[m] \o queue'[m] = fed'[m]
    BY <1>4, <1>7, <1>8, <1>9
  <2>2. \A n \in Media \ {m} : emitted'[n] \o queue'[n] = fed'[n]
    BY <1>4, <1>7 DEF QInv, NothingLost
  <2>3. QED
    BY <2>1, <2>2 DEF NothingLost
<1>13. Heads' /\ NeverPanics'
  BY <1>5 DEF QInv, QueueTypeOK, Heads, NeverPanics, SingleReader
<1>14. Drained'
  <2>1. CASE queue'[m] = Tail(qt)
    <3>1. CASE q = <<>>
      BY <1>2, <1>3, <1>8, <2>1, <3>1, EmptySeq DEF BothWait, Drained
    <3>2. CASE q # <<>>
      <4>1. PICK n \in Media \ {m} : queue[n] = <<>>
        BY <1>6, <3>2 DEF BothWait, q
      <4>2. QED
        BY <1>7, <4>1 DEF BothWait, Drained
    <3>3. QED
      BY <3>1, <3>2
  <2>2. CASE pc' = [pc EXCEPT ![g] = "loop"]
    BY <2>2 DEF QInv, QueueTypeOK, Drained
  <2>3. QED
    BY <1>7, <2>1, <2>2
<1>15. Short'
  <2>1. Len(queue'[m]) < maxQueueSize
    <3>1. CASE queue'[m] = Tail(qt)
      BY <1>8, <3>1 DEF QInv, Short, q
    <3>2. CASE queue'[m] = qt /\ Len(q) + 1 < maxQueueSize
      BY <1>3, <3>2
    <3>3. QED
      BY <1>7, <3>1, <3>2
  <2>2. QED
    BY <1>7, <2>1 DEF QInv, Short
<1>16. FedSorted'
  <2>1. t \in Clocks(m) /\ t \in Nat
    BY <1>1, QueueConstants DEF PushEffect
  <2>2. ASSUME NEW i \in 1..Len(fed[m]) PROVE fed[m][i] <= t /\ fed[m][i] \in Nat
    <3>1. fed[m] # <<>> /\ Len(fed[m]) \in 1..Len(fed[m])
      BY <1>2, EmptySeq
    <3>2. t >= fed[m][Len(fed[m])]
      BY <2>1, <3>1 DEF Clocks
    <3>3. fed[m][i] <= fed[m][Len(fed[m])]
      BY <1>2, <3>1 DEF QInv, FedSorted
    <3>4. fed[m][i] \in Timestamps /\ fed[m][Len(fed[m])] \in Timestamps
      BY <1>2, <3>1, ElementOfSeq
    <3>5. QED
      BY <2>1, <3>2, <3>3, <3>4, QueueConstants
  <2>3. ASSUME NEW i \in 1..(Len(fed[m]) + 1), NEW j \in 1..(Len(fed[m]) + 1), i <= j
        PROVE  fed'[m][i] <= fed'[m][j]
    <3>1. CASE j = Len(fed[m]) + 1
      BY <1>2, <1>4, <2>1, <2>2, <3>1
    <3>2. CASE j # Len(fed[m]) + 1
      <4>1. i \in 1..Len(fed[m]) /\ j \in 1..Len(fed[m])
        BY <1>2, <2>3, <3>2
      <4>2. fed[m][i] <= fed[m][j]
        BY <2>3, <4>1 DEF QInv, FedSorted
      <4>3. QED
        BY <1>4, <4>1, <4>2
    <3>3. QED
      BY <3>1, <3>2
  <2>4. QED
    BY <1>4, <2>3 DEF QInv, FedSorted
<1>17. InTimeOrder' /\ InterleavedUnlessFull'
  <2>1. CASE overflowed'
    BY <2>1 DEF InTimeOrder, InterleavedUnlessFull
  <2>2. CASE ~overflowed'
    <3>1. /\ queue'[m] = qt /\ ~overflowed /\ lastTs' = lastTs /\ backwards' = backwards
      BY <1>7, <2>2
    <3>2. lastTs <= t
      <4>1. CASE fed[m] = <<>>
        BY <1>1, <3>1, <4>1, QueueConstants DEF QInv, InTimeOrder
      <4>2. CASE fed[m] # <<>>
        <5>1. t >= fed[m][Len(fed[m])] /\ lastTs <= fed[m][Len(fed[m])]
          BY <1>1, <3>1, <4>2 DEF QInv, InTimeOrder, PushEffect, Clocks
        <5>2. fed[m][Len(fed[m])] \in Timestamps /\ lastTs \in Timestamps
          <6>1. Len(fed[m]) \in 1..Len(fed[m])
            BY <1>2, <4>2, EmptySeq
          <6>2. QED
            BY <1>2, <6>1, ElementOfSeq DEF QInv, QueueTypeOK
        <5>3. QED
          BY <5>1, <5>2, QueueConstants
      <4>3. QED
        BY <4>1, <4>2
    <3>3. ASSUME NEW i \in 1..Len(qt) PROVE lastTs <= qt[i]
      <4>1. CASE i = Len(q) + 1
        BY <1>3, <3>2, <4>1
      <4>2. CASE i # Len(q) + 1
        <5>1. i \in 1..Len(q)
          BY <1>2, <1>3, <4>2
        <5>2. lastTs <= q[i]
          BY <3>1, <5>1 DEF QInv, InTimeOrder, q
        <5>3. QED
          BY <1>3, <5>1, <5>2
      <4>3. QED
        BY <4>1, <4>2
    <3>4. lastTs <= fed'[m][Len(fed'[m])]
      BY <1>4, <3>2
    <3>5. InTimeOrder'
      BY <1>4, <1>7, <3>1, <3>3, <3>4 DEF QInv, InTimeOrder
    <3>6. QED
      BY <3>1, <3>5 DEF QInv, InterleavedUnlessFull
  <2>3. QED
    BY <2>1, <2>2
<1>18. QED
  BY <1>10, <1>11, <1>12, <1>13, <1>14, <1>15, <1>16, <1>17 DEF QInv

LEMMA PopStep ==
  ASSUME QInv, SingleReader, NEW g \in Goroutines, Pop(g)
  PROVE  QInv'
<1> USE DEF Timestamps
<1> DEFINE m == earlier(front[g])
           v == front[g][m]
<1>1. m \in Media /\ BothWait /\ front[g] = [n \in Media |-> Head(queue[n])]
  BY DEF earlier, Media, Pop, QInv, Heads
<1>2. \A n \in Media :
        /\ queue[n] \in Seq(Timestamps) /\ emitted[n] \in Seq(Timestamps) /\ queue[n] # <<>>
        /\ fed[n] \in Seq(Timestamps) /\ fed[n] # <<>>
        /\ Len(queue[n]) \in Nat /\ Len(queue[n]) >= 1
        /\ queue[n][1] = front[g][n]
        /\ queue[n][1] \in Timestamps /\ fed[n][Len(fed[n])] \in Timestamps
        /\ queue[n][1] <= fed[n][Len(fed[n])]
  <2> TAKE n \in Media
  <2>1. /\ queue[n] \in Seq(Timestamps) /\ emitted[n] \in Seq(Timestamps)
        /\ queue[n] # <<>> /\ fed[n] \in Seq(Timestamps)
    BY <1>1 DEF QInv, QueueTypeOK, BothWait
  <2>2. fed[n] # <<>> /\ Len(queue[n]) >= 1 /\ queue[n][1] <= fed[n][Len(fed[n])]
    BY <2>1, QueueSorted DEF QInv
  <2>3. Len(queue[n]) \in Nat /\ 1 \in 1..Len(queue[n]) /\ Len(fed[n]) \in 1..Len(fed[n])
    BY <2>1, <2>2, EmptySeq
  <2>4. queue[n][1] \in Timestamps /\ fed[n][Len(fed[n])] \in Timestamps
    BY <2>1, <2>3, ElementOfSeq
  <2>5. Head(queue[n]) = queue[n][1]
    BY <2>1, HeadTailProperties
  <2>6. QED
    BY <1>1, <2>1, <2>2, <2>3, <2>4, <2>5
<1>a. \A n \in Media : /\ front[g][n] \in Nat /\ queue[n][1] \in Nat
                        /\ fed[n][Len(fed[n])] \in Nat
  <2>1. \A x \in Timestamps : x \in Nat
    BY QueueConstants
  <2>2. QED
    BY <1>2, <2>1
<1>3. \A n \in Media : v <= queue[n][1]
  <2>1. front[g]["audio"] \in Nat /\ front[g]["video"] \in Nat
    BY <1>a DEF Media
  <2>2. \A n \in Media : v <= front[g][n]
    BY <2>1 DEF earlier, Media
  <2>3. QED
    BY <1>2, <2>2
<1>4. v = queue[m][1] /\ v = Head(queue[m]) /\ v \in Timestamps
  BY <1>1, <1>2
<1> HIDE DEF m, v
<1>5. /\ queue'[m] = Tail(queue[m]) /\ emitted'[m] = Append(emitted[m], Head(queue[m]))
      /\ \A n \in Media \ {m} : queue'[n] = queue[n] /\ emitted'[n] = emitted[n]
      /\ lastTs' = v /\ backwards' = (backwards \/ v < lastTs)
      /\ UNCHANGED <<baseTS, panicked, fed, overflowed>>
      /\ pc' = [pc EXCEPT ![g] = "loop"]
  BY <1>1, <1>2, <1>4 DEF Pop, Emit, QInv, QueueTypeOK, m, v
<1>6. /\ Append(emitted[m], Head(queue[m])) \o Tail(queue[m]) = emitted[m] \o queue[m]
      /\ Len(Tail(queue[m])) = Len(queue[m]) - 1
      /\ \A i \in 1..(Len(queue[m]) - 1) : Tail(queue[m])[i] = queue[m][i + 1]
  <2>1. queue[m] \in Seq(Timestamps) /\ emitted[m] \in Seq(Timestamps) /\ queue[m] # <<>>
    BY <1>1, <1>2
  <2>2. /\ Append(emitted[m], Head(queue[m])) \o Tail(queue[m]) = emitted[m] \o queue[m]
        /\ Len(Tail(queue[m])) = Len(queue[m]) - 1
    <3> DEFINE e == emitted[m]
               q == queue[m]
    <3>1. e \in Seq(Timestamps) /\ q \in Seq(Timestamps) /\ q # <<>>
      BY <2>1
    <3> HIDE DEF e, q
    <3>2. Append(e, Head(q)) \o Tail(q) = e \o q /\ Len(Tail(q)) = Len(q) - 1
      BY <3>1, PopKeeps
    <3>3. QED
      BY <3>2 DEF e, q
  <2>3. \A i \in 1..(Len(queue[m]) - 1) : Tail(queue[m])[i] = queue[m][i + 1]
    BY <2>1, HeadTailProperties
  <2>4. QED
    BY <2>2, <2>3
<1>7. QueueTypeOK'
  BY StepTyped DEF QInv, Step
<1>8. Clock' /\ FedSorted' /\ NeverPanics'
  BY <1>5 DEF QInv, Clock, FedSorted, NeverPanics
<1>9. NothingLost'
  <2>1. emitted'[m] \o queue'[m] = fed'[m]
    BY <1>1, <1>5, <1>6 DEF QInv, NothingLost
  <2>2. QED
    BY <1>5, <2>1 DEF QInv, NothingLost
<1>10. pc'[g] = "loop"
  BY <1>5 DEF QInv, QueueTypeOK
<1>11. Heads' /\ Drained'
  BY <1>10 DEF Heads, Drained, SingleReader
<1>12. Short'
  <2>1. Len(queue'[m]) < maxQueueSize
    BY <1>1, <1>2, <1>5, <1>6, QueueConstants DEF QInv, Short
  <2>2. QED
    BY <1>5, <2>1 DEF QInv, Short
<1>13. ASSUME NEW n \in Media, NEW i \in 1..Len(queue'[n])
       PROVE  v <= queue'[n][i]
  <2>1. \A j \in 1..Len(queue[n]) : v <= queue[n][j]
    <3> TAKE j \in 1..Len(queue[n])
    <3>1. 1 \in 1..Len(queue[n]) /\ 1 <= j
      BY <1>2
    <3>2. queue[n][1] <= queue[n][j]
      BY <3>1, QueueSorted DEF QInv
    <3>3. queue[n][j] \in Nat /\ queue[n][1] \in Nat /\ v \in Nat
      <4>1. queue[n][j] \in Timestamps
        BY <1>2, ElementOfSeq
      <4>2. QED
        BY <1>a, <1>4, <4>1, QueueConstants
    <3>4. v <= queue[n][1]
      BY <1>3
    <3>5. QED
      BY <3>2, <3>3, <3>4
  <2>2. CASE n = m
    <3>1. i \in 1..(Len(queue[m]) - 1) /\ i + 1 \in 1..Len(queue[m])
      <4>1. Len(queue'[n]) = Len(queue[m]) - 1 /\ Len(queue[m]) \in Nat
        BY <1>1, <1>2, <1>5, <1>6, <2>2
      <4>2. QED
        BY <4>1
    <3>2. queue'[n][i] = queue[n][i + 1]
      BY <1>5, <1>6, <2>2, <3>1
    <3>3. QED
      BY <2>1, <2>2, <3>1, <3>2
  <2>3. CASE n # m
    BY <1>5, <2>1, <2>3
  <2>4. QED
    BY <2>2, <2>3
<1>14. InTimeOrder'
  <2>1. \A n \in Media : fed'[n] # <<>> /\ v <= fed'[n][Len(fed'[n])]
    <3> TAKE n \in Media
    <3>1. v <= queue[n][1] /\ queue[n][1] <= fed[n][Len(fed[n])] /\ fed[n] # <<>>
      BY <1>2, <1>3
    <3>2. v \in Nat /\ queue[n][1] \in Nat /\ fed[n][Len(fed[n])] \in Nat
      BY <1>a, <1>1, <1>4
    <3>3. QED
      BY <1>5, <3>1, <3>2
  <2>2. QED
    BY <1>5, <1>13, <2>1 DEF InTimeOrder
<1>15. InterleavedUnlessFull'
  <2>1. CASE overflowed
    BY <1>5, <2>1 DEF InterleavedUnlessFull
  <2>2. CASE ~overflowed
    <3>1. lastTs <= v /\ lastTs \in Nat /\ v \in Nat
      BY <1>1, <1>2, <1>4, <2>2, QueueConstants DEF QInv, InTimeOrder, QueueTypeOK
    <3>2. ~backwards
      BY <2>2 DEF QInv, InterleavedUnlessFull
    <3>3. ~(v < lastTs)
      BY <3>1
    <3>4. QED
      BY <1>5, <3>2, <3>3 DEF InterleavedUnlessFull
  <2>3. QED
    BY <2>1, <2>2
<1>16. QED
  BY <1>7, <1>8, <1>9, <1>11, <1>12, <1>14, <1>15 DEF QInv

LEMMA LoopStep ==
  ASSUME QInv, SingleReader, NEW g \in Goroutines, LoopTest(g) \/ Fronts(g)
  PROVE  QInv'
<1>1. QueueTypeOK'
  BY StepTyped DEF QInv, Step
<1>2. UNCHANGED <<baseTS, queue, fed, emitted, lastTs, backwards, overflowed>>
  BY DEF LoopTest, Fronts
<1>3. /\ Clock' /\ NothingLost' /\ Short' /\ FedSorted' /\ InTimeOrder' /\ InterleavedUnlessFull'
      /\ BothWait' = BothWait
  BY <1>2 DEF QInv, Clock, NothingLost, Short, FedSorted, InTimeOrder, InterleavedUnlessFull, BothWait
<1>4. CASE LoopTest(g)
  <2>1. pc'[g] = (IF BothWait THEN "front" ELSE "idle") /\ panicked' = panicked
    BY <1>4 DEF LoopTest, QInv, QueueTypeOK
  <2>2. Heads' /\ Drained' /\ NeverPanics'
    BY <1>3, <2>1 DEF QInv, Heads, Drained, NeverPanics, SingleReader
  <2>3. QED
    BY <1>1, <1>3, <2>2 DEF QInv
<1>5. CASE Fronts(g)
  <2>1. pc[g] = "front" /\ BothWait /\ \A m \in Media : queue[m] # <<>>
    BY <1>5 DEF Fronts, QInv, Heads, BothWait
  <2>2. /\ pc'[g] = "pop" /\ panicked' = panicked
        /\ front'[g] = [m \in Media |-> Head(queue[m])]
    BY <1>5, <2>1 DEF Fronts, QInv, QueueTypeOK
  <2>3. Heads' /\ Drained' /\ NeverPanics'
    BY <1>2, <1>3, <2>1, <2>2 DEF QInv, Heads, Drained, NeverPanics, SingleReader
  <2>4. QED
    BY <1>1, <1>3, <2>3 DEF QInv
<1>6. QED
  BY <1>4, <1>5

\* With one goroutine that calls Feed, and no wrap, the invariant is inductive.
LEMMA QueueInvariant ==
  ASSUME SingleReader, NoWrap
  PROVE  QueueSpec => []QInv
<1>1. QueueInit => QInv
  <2> SUFFICES ASSUME QueueInit PROVE QInv
    OBVIOUS
  <2>1. <<>> \in Seq(Timestamps) /\ 0 \in Timestamps /\ Len(<<>>) = 0
    BY QueueConstants, EmptySeq DEF Timestamps
  <2>2. QueueTypeOK
    BY <2>1 DEF QueueInit, QueueTypeOK
  <2>3. \A m \in Media : fed[m] = <<>> /\ queue[m] = <<>> /\ emitted[m] = <<>>
    BY DEF QueueInit
  <2>4. NothingLost
    BY <2>1, <2>3, ConcatEmptySeq DEF NothingLost
  <2>5. Clock /\ Heads /\ Drained /\ NeverPanics
    BY <2>3 DEF QueueInit, Clock, Heads, Drained, NeverPanics, BothWait, Media
  <2>6. Short /\ FedSorted /\ InTimeOrder /\ InterleavedUnlessFull
    BY <2>1, <2>3, QueueConstants DEF QueueInit, Short, FedSorted, InTimeOrder, InterleavedUnlessFull
  <2>7. QED
    BY <2>2, <2>4, <2>5, <2>6 DEF QInv
<1>2. QInv /\ [QueueNext]_queueVars => QInv'
  <2> SUFFICES ASSUME QInv, [QueueNext]_queueVars PROVE QInv'
    OBVIOUS
  <2>1. ASSUME NEW g \in Goroutines, Step(g) PROVE QInv'
    BY <2>1, PushStep, PopStep, LoopStep DEF Step
  <2>2. CASE UNCHANGED queueVars
    BY <2>2 DEF queueVars, QInv, QueueTypeOK, Clock, NothingLost, Heads, Drained, Short, NeverPanics,
                FedSorted, InTimeOrder, InterleavedUnlessFull, BothWait
  <2>3. QED
    BY <2>1, <2>2 DEF QueueNext
<1>3. QED
  BY <1>1, <1>2, PTL DEF QueueSpec

\* With one goroutine calling Feed (an interleaved publisher) and before its RTP
\* timestamps wrap, every packet goes out or waits, once, in its medium's order and
\* with the time since its medium's first packet.
THEOREM NothingLostByOneReader ==
  ASSUME SingleReader, NoWrap
  PROVE  QueueSpec => []NothingLost
<1>1. QInv => NothingLost
  BY DEF QInv
<1>2. QED
  BY <1>1, QueueInvariant, PTL

\* Under the same assumptions the queue is bounded and drained after each call of
\* Feed, no head is read from an empty queue, and the output goes back in time
\* only once a queue has been full.
THEOREM OneReaderIsSound ==
  ASSUME SingleReader, NoWrap
  PROVE  QueueSpec => [](OneMediumWaits /\ NeverPanics /\ InterleavedUnlessFull)
<1>1. QInv => OneMediumWaits
  BY DEF QInv, OneMediumWaits, Drained, Short, BothWait
<1>2. QInv => OneMediumWaits /\ NeverPanics /\ InterleavedUnlessFull
  BY <1>1 DEF QInv
<1>3. QED
  BY <1>2, QueueInvariant, PTL
=============================================================================
