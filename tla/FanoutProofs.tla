---------------------------- MODULE FanoutProofs ----------------------------
(***************************************************************************)
(* Proofs about the GOP cache and about Fanout, for any number of kept     *)
(* GOPs, of players, of inputs and of messages.                            *)
(*                                                                         *)
(* The ring: both indices stay below gopSize, so every % in the module     *)
(* either does nothing or subtracts gopSize once (ModSmall, ModWrap).      *)
(* With that the number of GOPs and the slot of the i-th one are case      *)
(* distinctions on linear terms (CountIs, SlotIs), and each step of the    *)
(* ring is compared with the step of the window slot by slot.              *)
(*                                                                         *)
(* The broadcast: under the mutex one message is under way at a time       *)
(* (Base).  On that rest three invariants, each of the same form: what the *)
(* cache, flattened, holds of the stream, and what a player has of it, up  *)
(* to the message under way (WholeInv); where a key frame must have been   *)
(* (KeyInv); and under which headers (HeaderInv).  A fresh player's turn   *)
(* makes the second out of the first: what it is given is the cache.       *)
(***************************************************************************)
EXTENDS Fanout, SequenceTheorems, FiniteSetTheorems, WellFoundedInduction, TLAPS

LEMMA ModSmall ==
  ASSUME NEW n \in Nat \ {0}, NEW x \in 0 .. n - 1
  PROVE  x % n = x
OBVIOUS

LEMMA ModWrap ==
  ASSUME NEW n \in Nat \ {0}, NEW x \in n .. 2 * n - 1
  PROVE  x % n = x - n
OBVIOUS

LEMMA SizeNat == GopNum \in Nat /\ gopSize \in Nat \ {0} /\ gopSize = GopNum + 1
BY GopNumNat DEF gopSize

-----------------------------------------------------------------------------
(* The invariant of the types.                                             *)

LEMMA TypeStep == TypeOK /\ [Next]_vars => TypeOK'
<1> USE SizeNat
<1> SUFFICES ASSUME TypeOK, [Next]_vars PROVE TypeOK'
  OBVIOUS
<1>1. ASSUME NEW k \in HeaderKinds, NEW h \in Headers[k], FeedHeader(k, h)
      PROVE  TypeOK'
  BY <1>1 DEF FeedHeader, TypeOK
<1>2. ASSUME NEW m \in Msgs, FeedMsg(m) PROVE TypeOK'
  <2>1. CASE feedNewGOP(m)
    <3>1. <<m>> \in Seq(Msgs)
      OBVIOUS
    <3>2. \A x \in 0 .. gopSize - 1 : (x + 1) % gopSize \in 0 .. gopSize - 1
      OBVIOUS
    <3>3. QED
      BY <1>2, <2>1, <3>1, <3>2 DEF FeedMsg, feedNewGOP, TypeOK
  <2>2. CASE feedLastGOP(m)
    <3> DEFINE at == (gopRingLast - 1 + gopSize) % gopSize
    <3>1. at \in 0 .. gopSize - 1
      BY DEF TypeOK
    <3>2. Append(gopRing[at], m) \in Seq(Msgs)
      BY <3>1 DEF TypeOK
    <3>3. gopRing' = [gopRing EXCEPT ![at] = Append(@, m)]
          /\ UNCHANGED <<gopRingFirst, gopRingLast, header>>
      BY <1>2, <2>2 DEF FeedMsg, feedLastGOP
    <3>4. QED
      BY <3>1, <3>2, <3>3 DEF TypeOK
  <2>3. QED
    BY <1>2, <2>1, <2>2 DEF FeedMsg
<1>3. CASE Clear
  BY <1>3 DEF Clear, TypeOK
<1>4. CASE UNCHANGED vars
  BY <1>4 DEF vars, TypeOK
<1>5. QED
  BY <1>1, <1>2, <1>3, <1>4 DEF Next

LEMMA TypeInit == Init => TypeOK
BY SizeNat DEF Init, TypeOK

\* The indices stay inside the ring.
THEOREM TypeCorrect == Spec => []TypeOK
BY TypeInit, TypeStep, PTL DEF Spec

-----------------------------------------------------------------------------
(* The ring as a function of its indices.                                  *)

Count(f, l) == IF f <= l THEN l - f ELSE l - f + gopSize
Slot(f, i) == IF f + i - 1 < gopSize THEN f + i - 1 ELSE f + i - 1 - gopSize
View(ring, f, l) == [i \in 1 .. Count(f, l) |-> ring[Slot(f, i)]]

LEMMA CountIs ==
  ASSUME NEW f \in 0 .. gopSize - 1, NEW l \in 0 .. gopSize - 1
  PROVE  (l + gopSize - f) % gopSize = Count(f, l) /\ Count(f, l) \in 0 .. GopNum
<1> USE SizeNat
<1>1. CASE f <= l
  <2>1. l + gopSize - f \in gopSize .. 2 * gopSize - 1
    BY <1>1
  <2>2. (l + gopSize - f) % gopSize = l + gopSize - f - gopSize
    BY <2>1, ModWrap
  <2>3. QED
    BY <1>1, <2>2 DEF Count
<1>2. CASE ~ f <= l
  <2>1. l + gopSize - f \in 0 .. gopSize - 1
    BY <1>2
  <2>2. (l + gopSize - f) % gopSize = l + gopSize - f
    BY <2>1, ModSmall
  <2>3. QED
    BY <1>2, <2>2 DEF Count
<1>3. QED
  BY <1>1, <1>2

LEMMA SlotIs ==
  ASSUME NEW f \in 0 .. gopSize - 1, NEW i \in 1 .. gopSize - 1
  PROVE  (i - 1 + f) % gopSize = Slot(f, i) /\ Slot(f, i) \in 0 .. gopSize - 1
<1> USE SizeNat
<1>1. CASE f + i - 1 < gopSize
  <2>1. i - 1 + f \in 0 .. gopSize - 1
    BY <1>1
  <2>2. (i - 1 + f) % gopSize = i - 1 + f
    BY <2>1, ModSmall
  <2>3. QED
    BY <1>1, <2>2 DEF Slot
<1>2. CASE ~ f + i - 1 < gopSize
  <2>1. i - 1 + f \in gopSize .. 2 * gopSize - 1
    BY <1>2
  <2>2. (i - 1 + f) % gopSize = i - 1 + f - gopSize
    BY <2>1, ModWrap
  <2>3. QED
    BY <1>2, <2>2 DEF Slot
<1>3. QED
  BY <1>1, <1>2

LEMMA NextIndex ==
  ASSUME NEW x \in 0 .. gopSize - 1
  PROVE  (x + 1) % gopSize = IF x = gopSize - 1 THEN 0 ELSE x + 1
<1> USE SizeNat
<1>1. CASE x = gopSize - 1
  <2>1. x + 1 \in gopSize .. 2 * gopSize - 1
    BY <1>1
  <2>2. (x + 1) % gopSize = x + 1 - gopSize
    BY <2>1, ModWrap
  <2>3. QED
    BY <1>1, <2>2
<1>2. CASE x # gopSize - 1
  <2>1. x + 1 \in 0 .. gopSize - 1
    BY <1>2
  <2>2. (x + 1) % gopSize = x + 1
    BY <2>1, ModSmall
  <2>3. QED
    BY <1>2, <2>2
<1>3. QED
  BY <1>1, <1>2

LEMMA OpenIndex ==
  ASSUME NEW x \in 0 .. gopSize - 1
  PROVE  (x - 1 + gopSize) % gopSize = IF x = 0 THEN gopSize - 1 ELSE x - 1
<1> USE SizeNat
<1>1. CASE x = 0
  <2>1. x - 1 + gopSize \in 0 .. gopSize - 1
    BY <1>1
  <2>2. (x - 1 + gopSize) % gopSize = x - 1 + gopSize
    BY <2>1, ModSmall
  <2>3. QED
    BY <1>1, <2>2
<1>2. CASE x # 0
  <2>1. x - 1 + gopSize \in gopSize .. 2 * gopSize - 1
    BY <1>2
  <2>2. (x - 1 + gopSize) % gopSize = x - 1 + gopSize - gopSize
    BY <2>1, ModWrap
  <2>3. QED
    BY <1>2, <2>2
<1>3. QED
  BY <1>1, <1>2

LEMMA GopsIsView ==
  ASSUME NEW ring, NEW f \in 0 .. gopSize - 1, NEW l \in 0 .. gopSize - 1
  PROVE  [i \in 1 .. (l + gopSize - f) % gopSize |->
            IF i - 1 < 0 \/ i - 1 >= (l + gopSize - f) % gopSize THEN None
            ELSE ring[(i - 1 + f) % gopSize]] = View(ring, f, l)
<1> USE SizeNat
<1>1. (l + gopSize - f) % gopSize = Count(f, l) /\ Count(f, l) \in 0 .. GopNum
  BY CountIs
<1>2. \A i \in 1 .. Count(f, l) : (i - 1 + f) % gopSize = Slot(f, i)
  BY <1>1, SlotIs
<1>3. \A i \in 1 .. Count(f, l) :
        (IF i - 1 < 0 \/ i - 1 >= Count(f, l) THEN None ELSE ring[(i - 1 + f) % gopSize])
          = ring[Slot(f, i)]
  BY <1>1, <1>2
<1>4. QED
  BY <1>1, <1>3 DEF View

Slots == 0 .. gopSize - 1
GopData == Seq(Msgs)
Rings == [Slots -> GopData]

\* A function given slot by slot is a sequence.
LEMMA SeqFromSlots ==
  ASSUME NEW S, NEW n \in Nat, NEW e, \A i \in 1 .. n : e[i] \in S
  PROVE  /\ [i \in 1 .. n |-> e[i]] \in Seq(S)
         /\ Len([i \in 1 .. n |-> e[i]]) = n
OBVIOUS

\* Three ways a sequence of GOPs changes, element by element.
LEMMA GrowByOne ==
  ASSUME NEW S, NEW s \in Seq(S), NEW t \in Seq(S), NEW g \in S,
         Len(t) = Len(s) + 1, t[Len(s) + 1] = g,
         \A i \in 1 .. Len(s) : t[i] = s[i]
  PROVE  t = Append(s, g)
<1>1. /\ Append(s, g) \in Seq(S) /\ Len(Append(s, g)) = Len(t)
      /\ \A i \in 1 .. Len(t) : t[i] = Append(s, g)[i]
  BY AppendProperties
<1>2. QED
  BY <1>1, SeqEqual

LEMMA MoveByOne ==
  ASSUME NEW S, NEW s \in Seq(S), NEW t \in Seq(S), NEW g \in S,
         Len(t) = Len(s), Len(s) > 0, t[Len(s)] = g,
         \A i \in 1 .. Len(s) - 1 : t[i] = s[i + 1]
  PROVE  t = Append(Tail(s), g)
<1>1. /\ Tail(s) \in Seq(S) /\ Len(Tail(s)) = Len(s) - 1
      /\ \A i \in 1 .. Len(s) - 1 : Tail(s)[i] = s[i + 1]
  BY HeadTailProperties
<1>2. QED
  BY <1>1, GrowByOne

LEMMA ChangeLast ==
  ASSUME NEW S, NEW s \in Seq(S), NEW t \in Seq(S), NEW g \in S,
         Len(t) = Len(s), Len(s) > 0, t[Len(s)] = g,
         \A i \in 1 .. Len(s) : i # Len(s) => t[i] = s[i]
  PROVE  t = [s EXCEPT ![Len(s)] = g]
<1>1. /\ [s EXCEPT ![Len(s)] = g] \in Seq(S)
      /\ Len([s EXCEPT ![Len(s)] = g]) = Len(s)
      /\ \A i \in 1 .. Len(s) : t[i] = [s EXCEPT ![Len(s)] = g][i]
  BY ExceptSeq
<1>2. QED
  BY <1>1, SeqEqual

LEMMA ViewAt ==
  ASSUME NEW ring \in Rings, NEW f \in Slots, NEW l \in Slots,
         NEW i \in 1 .. Count(f, l)
  PROVE  Slot(f, i) \in Slots /\ View(ring, f, l)[i] = ring[Slot(f, i)]
<1>1. Count(f, l) \in 0 .. GopNum
  BY CountIs DEF Slots
<1>2. i \in 1 .. gopSize - 1
  BY <1>1, SizeNat
<1>3. QED
  BY <1>2, SlotIs DEF View, Slots

LEMMA ViewSeq ==
  ASSUME NEW ring \in Rings, NEW f \in Slots, NEW l \in Slots
  PROVE  /\ View(ring, f, l) \in Seq(GopData)
         /\ Len(View(ring, f, l)) = Count(f, l)
         /\ Count(f, l) \in 0 .. GopNum
<1> DEFINE n == Count(f, l)
           v == View(ring, f, l)
<1>1. n \in 0 .. GopNum
  BY CountIs DEF Slots
<1>a. n \in Nat
  BY <1>1, SizeNat
<1>2. \A i \in 1 .. n : v[i] \in GopData
  <2> TAKE i \in 1 .. n
  <2>1. Slot(f, i) \in Slots /\ v[i] = ring[Slot(f, i)]
    BY ViewAt
  <2>2. QED
    BY <2>1 DEF Rings
<1>3. v = [i \in 1 .. n |-> v[i]]
  BY DEF View
<1> HIDE DEF n, v
<1>4. v \in Seq(GopData) /\ Len(v) = n
  BY <1>a, <1>2, <1>3, SeqFromSlots
<1>5. QED
  BY <1>1, <1>4 DEF n, v

\* A sequence that shows the window of a ring.
Shows(seq, ring, f, l) ==
  /\ seq \in Seq(GopData)
  /\ Len(seq) = Count(f, l)
  /\ Count(f, l) \in 0 .. GopNum
  /\ \A i \in 1 .. Count(f, l) : Slot(f, i) \in Slots /\ seq[i] = ring[Slot(f, i)]

LEMMA ViewShows ==
  ASSUME NEW ring \in Rings, NEW f \in Slots, NEW l \in Slots
  PROVE  Shows(View(ring, f, l), ring, f, l)
BY ViewSeq, ViewAt DEF Shows

\* Opening the slot at the last index: the window grows by one, or moves on by one.
KeyMove(ring, f, l, g, ring2, f2, l2) ==
  /\ GopNum > 0
  /\ f \in Slots /\ l \in Slots /\ f2 \in Slots /\ l2 \in Slots /\ g \in GopData
  /\ l = gopSize - 1 => l2 = 0
  /\ l # gopSize - 1 => l2 = l + 1
  /\ l2 # f => f2 = f
  /\ l2 = f /\ f = gopSize - 1 => f2 = 0
  /\ l2 = f /\ f # gopSize - 1 => f2 = f + 1
  /\ ring2[l] = g
  /\ \A s \in Slots : s # l => ring2[s] = ring[s]

LEMMA KeyView ==
  ASSUME NEW ring, NEW f, NEW l, NEW g, NEW ring2, NEW f2, NEW l2,
         KeyMove(ring, f, l, g, ring2, f2, l2),
         NEW before, Shows(before, ring, f, l),
         NEW after, Shows(after, ring2, f2, l2)
  PROVE  \/ Len(before) < GopNum /\ after = Append(before, g)
         \/ Len(before) = GopNum /\ after = Append(Tail(before), g)
<1> USE SizeNat
<1>a. f \in Slots /\ l \in Slots /\ g \in GopData /\ GopNum > 0
  BY DEF KeyMove
<1>b. /\ l = gopSize - 1 => l2 = 0
      /\ l # gopSize - 1 => l2 = l + 1
      /\ l2 # f => f2 = f
      /\ l2 = f /\ f = gopSize - 1 => f2 = 0
      /\ l2 = f /\ f # gopSize - 1 => f2 = f + 1
  BY DEF KeyMove
<1>c. ring2[l] = g /\ \A s \in Slots : s # l => ring2[s] = ring[s]
  BY DEF KeyMove
<1>1. CASE l2 # f
  <2>1. Count(f, l) < GopNum /\ Count(f2, l2) = Count(f, l) + 1
    BY <1>1, <1>a, <1>b DEF Count, Slots
  <2>2. \A i \in 1 .. Count(f, l) : Slot(f2, i) = Slot(f, i) /\ Slot(f, i) # l
    BY <1>1, <1>a, <1>b DEF Slot, Slots, Count
  <2>3. Slot(f2, Count(f, l) + 1) = l
    BY <1>1, <1>a, <1>b DEF Slot, Slots, Count
  <2>4. Len(before) \in Nat /\ Len(after) = Len(before) + 1 /\ Len(before) = Count(f, l)
    BY <2>1 DEF Shows
  <2>5. \A i \in 1 .. Len(before) : after[i] = before[i]
    BY <1>c, <2>1, <2>2, <2>4 DEF Shows
  <2>6. after[Len(before) + 1] = g
    BY <1>c, <2>1, <2>3, <2>4 DEF Shows
  <2>7. before \in Seq(GopData) /\ after \in Seq(GopData)
    BY DEF Shows
  <2>8. after = Append(before, g)
    BY <2>4, <2>5, <2>6, <2>7, GrowByOne, <1>a
  <2>9. QED
    BY <2>1, <2>4, <2>8
<1>2. CASE l2 = f
  <2>1. Count(f, l) = GopNum /\ Count(f2, l2) = GopNum
    BY <1>2, <1>a, <1>b DEF Count, Slots
  <2>2. \A i \in 1 .. GopNum - 1 : Slot(f2, i) = Slot(f, i + 1) /\ Slot(f, i + 1) # l
    BY <1>2, <1>a, <1>b DEF Slot, Slots
  <2>3. Slot(f2, GopNum) = l
    BY <1>2, <1>a, <1>b DEF Slot, Slots
  <2>4. \A i \in 1 .. GopNum - 1 : after[i] = before[i + 1]
    <3> TAKE i \in 1 .. GopNum - 1
    <3>1. i \in 1 .. Count(f2, l2) /\ i + 1 \in 1 .. Count(f, l)
      BY <2>1
    <3>2. after[i] = ring2[Slot(f, i + 1)]
      BY <2>2, <3>1 DEF Shows
    <3>3. before[i + 1] = ring[Slot(f, i + 1)] /\ Slot(f, i + 1) \in Slots
      BY <3>1 DEF Shows
    <3>4. QED
      BY <1>c, <2>2, <3>2, <3>3
  <2>5. after[GopNum] = g
    BY <1>a, <1>c, <2>1, <2>3 DEF Shows
  <2>6. before \in Seq(GopData) /\ after \in Seq(GopData)
        /\ Len(before) = GopNum /\ Len(after) = GopNum
    BY <2>1 DEF Shows
  <2>7. after = Append(Tail(before), g)
    BY <2>4, <2>5, <2>6, MoveByOne, <1>a
  <2>8. QED
    BY <2>6, <2>7
<1>3. QED
  BY <1>1, <1>2

\* The slot before the last index is the last one of the window.
OtherMove(ring, f, l, at, g, ring2) ==
  /\ f \in Slots /\ l \in Slots /\ f # l /\ g \in GopData /\ at \in Slots
  /\ l = 0 => at = gopSize - 1
  /\ l # 0 => at = l - 1
  /\ ring2[at] = g
  /\ \A s \in Slots : s # at => ring2[s] = ring[s]

LEMMA OtherView ==
  ASSUME NEW ring, NEW f, NEW l, NEW at, NEW g, NEW ring2,
         OtherMove(ring, f, l, at, g, ring2),
         NEW before, Shows(before, ring, f, l),
         NEW after, Shows(after, ring2, f, l)
  PROVE  /\ before # <<>> /\ before[Len(before)] = ring[at]
         /\ after = [before EXCEPT ![Len(before)] = g]
<1> USE SizeNat
<1>1. /\ Count(f, l) \in Nat \ {0} /\ Slot(f, Count(f, l)) = at
      /\ \A i \in 1 .. Count(f, l) - 1 : Slot(f, i) # at
  BY DEF Count, Slot, Slots, OtherMove
<1>2. before \in Seq(GopData) /\ after \in Seq(GopData)
      /\ Len(before) = Count(f, l) /\ Len(after) = Count(f, l)
  BY DEF Shows
<1>3. before # <<>>
  BY <1>1, <1>2
<1>4. before[Len(before)] = ring[at] /\ after[Len(before)] = g
  BY <1>1, <1>2 DEF Shows, OtherMove
<1>5. \A i \in 1 .. Len(before) : i # Len(before) => after[i] = before[i]
  BY <1>1, <1>2 DEF Shows, OtherMove
<1>6. after = [before EXCEPT ![Len(before)] = g]
  BY <1>1, <1>2, <1>4, <1>5, ChangeLast DEF OtherMove
<1>7. QED
  BY <1>3, <1>4, <1>6

-----------------------------------------------------------------------------
(* The refinement.                                                         *)

Shown ==
  /\ gopRing \in Rings /\ gopRingFirst \in Slots /\ gopRingLast \in Slots
  /\ Shows(Gops, gopRing, gopRingFirst, gopRingLast)

LEMMA GopsShown == TypeOK => Shown
<1> SUFFICES ASSUME TypeOK PROVE Shown
  OBVIOUS
<1>1. gopRing \in Rings /\ gopRingFirst \in Slots /\ gopRingLast \in Slots
  BY DEF TypeOK, Rings, Slots, GopData
<1>2. Gops = View(gopRing, gopRingFirst, gopRingLast)
  BY <1>1, GopsIsView DEF Gops, GetGOPCount, GetGOPDataAt, Slots
<1>3. QED
  BY <1>1, <1>2, ViewShows DEF Shown

LEMMA GopsShownNext == TypeOK' => Shown'
BY GopsShown, PTL

\* A key frame fed to a cache that keeps GOPs.
LEMMA KeyStep ==
  TypeOK /\ TypeOK' => \A m \in Keys : gopSize > 1 /\ feedNewGOP(m) /\ UNCHANGED header
                         => Window!FeedKey(m)
<1> SUFFICES ASSUME TypeOK, TypeOK', NEW m \in Keys, gopSize > 1, feedNewGOP(m),
                    UNCHANGED header
             PROVE  Window!FeedKey(m)
  OBVIOUS
<1>1. Shows(Gops, gopRing, gopRingFirst, gopRingLast)
      /\ Shows(Gops', gopRing', gopRingFirst', gopRingLast')
  BY GopsShown, GopsShownNext DEF Shown
<1>2. /\ gopRing \in Rings /\ gopRingFirst \in Slots /\ gopRingLast \in Slots
      /\ gopRing' \in Rings /\ gopRingFirst' \in Slots /\ gopRingLast' \in Slots
  BY GopsShown, GopsShownNext DEF Shown
<1>3. /\ gopRingLast = gopSize - 1 => gopRingLast' = 0
      /\ gopRingLast # gopSize - 1 => gopRingLast' = gopRingLast + 1
  BY <1>2, NextIndex DEF feedNewGOP, Slots
<1>4. gopRingLast' = (gopRingLast + 1) % gopSize
  BY DEF feedNewGOP
<1>5. /\ gopRingLast' # gopRingFirst => gopRingFirst' = gopRingFirst
      /\ gopRingLast' = gopRingFirst => gopRingFirst' = (gopRingFirst + 1) % gopSize
  BY <1>4 DEF feedNewGOP, isGOPRingFull
<1>6. /\ gopRingLast' = gopRingFirst /\ gopRingFirst = gopSize - 1 => gopRingFirst' = 0
      /\ gopRingLast' = gopRingFirst /\ gopRingFirst # gopSize - 1
           => gopRingFirst' = gopRingFirst + 1
  BY <1>2, <1>5, NextIndex DEF Slots
<1>7. /\ <<m>> \in GopData
      /\ gopRing'[gopRingLast] = <<m>>
      /\ \A s \in Slots : s # gopRingLast => gopRing'[s] = gopRing[s]
  BY <1>2 DEF feedNewGOP, GopData, Rings, Msgs
<1>8. GopNum > 0
  BY SizeNat
<1>9. \/ Len(Gops) < GopNum /\ Gops' = Append(Gops, <<m>>)
      \/ Len(Gops) = GopNum /\ Gops' = Append(Tail(Gops), <<m>>)
  <2>1. KeyMove(gopRing, gopRingFirst, gopRingLast, <<m>>,
                gopRing', gopRingFirst', gopRingLast')
    BY <1>2, <1>3, <1>5, <1>6, <1>7, <1>8 DEF KeyMove
  <2>2. QED
    BY <1>1, <2>1, KeyView
<1>10. QED
  BY <1>8, <1>9 DEF Window!FeedKey

\* Any other message fed to a cache that keeps GOPs.
LEMMA OtherStep ==
  TypeOK /\ TypeOK' => \A m \in Others : feedLastGOP(m) /\ UNCHANGED header
                         => Window!FeedOther(m)
<1> SUFFICES ASSUME TypeOK, TypeOK', NEW m \in Others, feedLastGOP(m), UNCHANGED header
             PROVE  Window!FeedOther(m)
  OBVIOUS
<1> DEFINE at == (gopRingLast - 1 + gopSize) % gopSize
           g == Append(gopRing[at], m)
<1>1. Shows(Gops, gopRing, gopRingFirst, gopRingLast)
      /\ Shows(Gops', gopRing', gopRingFirst', gopRingLast')
  BY GopsShown, GopsShownNext DEF Shown
<1>2. /\ gopRing \in Rings /\ gopRingFirst \in Slots /\ gopRingLast \in Slots
  BY GopsShown DEF Shown
<1>3. /\ gopRingFirst # gopRingLast
      /\ gopRing' = [gopRing EXCEPT ![at] = g]
      /\ gopRingFirst' = gopRingFirst /\ gopRingLast' = gopRingLast
  BY DEF feedLastGOP, isGOPRingEmpty
<1>4. at = IF gopRingLast = 0 THEN gopSize - 1 ELSE gopRingLast - 1
  BY <1>2, OpenIndex DEF Slots
<1>5. at \in Slots
  BY <1>2, <1>4, SizeNat DEF Slots
<1>6. gopRing[at] \in Seq(Msgs) /\ m \in Msgs
  BY <1>2, <1>5 DEF Rings, GopData, Msgs
<1>7. g \in GopData
  BY <1>6 DEF GopData
<1>8. /\ gopRing'[at] = g
      /\ \A s \in Slots : s # at => gopRing'[s] = gopRing[s]
  BY <1>2, <1>3, <1>5 DEF Rings
<1> HIDE DEF at, g
<1>9. /\ Gops # <<>> /\ Gops[Len(Gops)] = gopRing[at]
      /\ Gops' = [Gops EXCEPT ![Len(Gops)] = g]
  <2>1. OtherMove(gopRing, gopRingFirst, gopRingLast, at, g, gopRing')
    BY <1>2, <1>3, <1>4, <1>5, <1>7, <1>8 DEF OtherMove
  <2>2. Shows(Gops', gopRing', gopRingFirst, gopRingLast)
    BY <1>1, <1>3
  <2>3. QED
    BY <1>1, <2>1, <2>2, OtherView
<1>10. Gops' = [Gops EXCEPT ![Len(Gops)] = Append(@, m)]
  BY <1>9 DEF g
<1>11. QED
  BY <1>9, <1>10 DEF Window!FeedOther

LEMMA EmptyShows ==
  ASSUME NEW seq, NEW ring, Shows(seq, ring, 0, 0)
  PROVE  seq = <<>>
BY DEF Shows, Count

\* What a fresh player gets is what the window specification says, for any
\* number of GOPs kept, any messages and any history of clears.
THEOREM RingImplementsWindow == Spec => ImplementsWindow
<1>1. Init /\ TypeOK => Window!Init
  <2> SUFFICES ASSUME Init, TypeOK PROVE Window!Init
    OBVIOUS
  <2>1. Shows(Gops, gopRing, 0, 0)
    BY GopsShown DEF Init, Shown
  <2>2. QED
    BY <2>1, EmptyShows DEF Init, Window!Init
<1>2. TypeOK /\ TypeOK' /\ [Next]_vars => [Window!Next]_(Window!vars)
  <2> SUFFICES ASSUME TypeOK, TypeOK', [Next]_vars PROVE [Window!Next]_(Window!vars)
    OBVIOUS
  <2>1. ASSUME UNCHANGED <<gopRing, gopRingFirst, gopRingLast>> PROVE Gops' = Gops
    BY <2>1 DEF Gops, GetGOPCount, GetGOPDataAt
  <2>2. ASSUME NEW k \in HeaderKinds, NEW h \in Headers[k], FeedHeader(k, h)
        PROVE  Window!Next
    BY <2>1, <2>2 DEF FeedHeader, Window!Next, Window!FeedHeader
  <2>3. ASSUME NEW m \in Msgs, FeedMsg(m) PROVE Window!Next
    <3>1. CASE m \in Keys /\ feedNewGOP(m)
      BY <2>3, <3>1, KeyStep DEF FeedMsg, Window!Next
    <3>2. CASE m \in Others /\ feedLastGOP(m)
      BY <2>3, <3>2, OtherStep DEF FeedMsg, Window!Next
    <3>3. QED
      BY <2>3, <3>1, <3>2 DEF FeedMsg
  <2>4. CASE Clear
    <3>1. Shows(Gops', gopRing', 0, 0)
      BY <2>4, GopsShownNext DEF Clear, Shown
    <3>2. Gops' = <<>>
      BY <3>1, EmptyShows
    <3>3. QED
      BY <2>4, <3>2 DEF Clear, Window!Next, Window!Clear
  <2>5. CASE UNCHANGED vars
    BY <2>1, <2>5 DEF vars, Window!vars
  <2>6. QED
    BY <2>2, <2>3, <2>4, <2>5 DEF Next
<1>3. QED
  BY <1>1, <1>2, TypeCorrect, PTL DEF Spec, ImplementsWindow, Window!Spec

-----------------------------------------------------------------------------
(* Induction, for a set of numbers.                                        *)

LEMMA LeastNat ==
  ASSUME NEW T, T \subseteq Nat, T # {}
  PROVE  \E x \in T : \A y \in T : x <= y
<1> DEFINE R == {p \in Nat \X Nat : p[1] < p[2]}
<1>1. IsWellFoundedOn(R, Nat)
  BY NatLessThanWellFounded DEF OpToRel
<1>2. \A a, b \in Nat : a < b => <<a, b>> \in R
  OBVIOUS
<1> HIDE DEF R
<1>3. PICK x \in T : \A y \in T : ~ (<<y, x>> \in R)
  BY <1>1, WFMin
<1>4. ASSUME NEW y \in T PROVE x <= y
  <2>1. x \in Nat /\ y \in Nat /\ ~ (y < x)
    BY <1>2, <1>3
  <2>2. QED
    BY <2>1
<1>5. QED
  BY <1>4

LEMMA Induction ==
  ASSUME NEW S, S \subseteq Nat, 0 \in S, \A n \in S : n + 1 \in S
  PROVE  S = Nat
<1> SUFFICES ASSUME Nat \ S # {} PROVE FALSE
  OBVIOUS
<1>1. PICK x \in Nat \ S : \A y \in Nat \ S : x <= y
  BY LeastNat, Nat \ S \subseteq Nat
<1>2. x - 1 \in S
  BY <1>1
<1>3. QED
  BY <1>1, <1>2

\* The same up to a bound.
LEMMA InductionTo ==
  ASSUME NEW n \in Nat, NEW S, 0 \in S, \A i \in 0 .. n - 1 : i \in S => i + 1 \in S
  PROVE  \A i \in 0 .. n : i \in S
<1> DEFINE T == {i \in Nat : i <= n => i \in S}
<1>1. T \subseteq Nat /\ 0 \in T /\ \A i \in T : i + 1 \in T
  OBVIOUS
<1> HIDE DEF T
<1>2. T = Nat
  BY <1>1, Induction
<1>3. QED
  BY <1>2 DEF T

\* The same for a set of sequences.
LEMMA SequenceInduction ==
  ASSUME NEW B, NEW T, << >> \in T,
         \A t \in Seq(B) : \A x \in B : t \in T => Append(t, x) \in T
  PROVE  \A s \in Seq(B) : s \in T
<1> DEFINE N == {n \in Nat : \A s \in Seq(B) : Len(s) = n => s \in T}
<1>1. 0 \in N
  <2>1. \A s \in Seq(B) : Len(s) = 0 => s = << >>
    BY EmptySeq
  <2>2. QED
    BY <2>1
<1>2. ASSUME NEW n \in N PROVE n + 1 \in N
  <2>1. n \in Nat /\ \A s \in Seq(B) : Len(s) = n => s \in T
    OBVIOUS
  <2>2. ASSUME NEW s \in Seq(B), Len(s) = n + 1 PROVE s \in T
    <3>1. s # << >>
      BY <2>1, <2>2, EmptySeq
    <3>2. PICK t \in Seq(B), x \in B : s = Append(t, x)
      BY <3>1, SequenceEmptyOrAppend
    <3>3. Len(s) = Len(t) + 1 /\ Len(t) \in Nat
      BY <3>2, AppendProperties, LenProperties
    <3>4. Len(t) = n
      BY <2>1, <2>2, <3>3
    <3>5. QED
      BY <2>1, <3>2, <3>4
  <2>3. QED
    BY <2>1, <2>2
<1>3. N \subseteq Nat
  OBVIOUS
<1> HIDE DEF N
<1>4. N = Nat
  BY <1>1, <1>2, <1>3, Induction
<1>5. ASSUME NEW s \in Seq(B) PROVE s \in T
  <2>1. Len(s) \in N
    BY <1>4, LenProperties
  <2>2. QED
    BY <2>1 DEF N
<1>6. QED
  BY <1>5

-----------------------------------------------------------------------------
(* Sequences that are put together of sequences (FlattenSeq).              *)

IsFlat(f, s, n) == f = [i \in 1 .. n |-> IF i = 1 THEN s[i] ELSE f[i - 1] \o s[i]]

LEMMA FlatExists ==
  ASSUME NEW s, NEW n \in Nat
  PROVE  \E f : IsFlat(f, s, n)
<1> DEFINE S == {k \in Nat : \E f : IsFlat(f, s, k)}
<1>1. 0 \in S
  <2> DEFINE f == [i \in 1 .. 0 |-> s[i]]
             g == [i \in 1 .. 0 |-> IF i = 1 THEN s[i] ELSE f[i - 1] \o s[i]]
  <2>1. \A i \in 1 .. 0 : FALSE
    OBVIOUS
  <2>2. f = g
    BY <2>1
  <2>3. IsFlat(f, s, 0)
    BY <2>2 DEF IsFlat
  <2>4. QED
    BY <2>3
<1>2. ASSUME NEW k \in S PROVE k + 1 \in S
  <2>1. PICK f : IsFlat(f, s, k)
    OBVIOUS
  <2> DEFINE g == [i \in 1 .. (k + 1) |-> IF i <= k THEN f[i]
                                          ELSE IF i = 1 THEN s[i] ELSE f[i - 1] \o s[i]]
             h == [i \in 1 .. (k + 1) |-> IF i = 1 THEN s[i] ELSE g[i - 1] \o s[i]]
  <2>2. \A i \in 1 .. k : f[i] = IF i = 1 THEN s[i] ELSE f[i - 1] \o s[i]
    BY <2>1 DEF IsFlat
  <2>3. ASSUME NEW i \in 1 .. (k + 1) PROVE g[i] = h[i]
    <3>1. CASE i <= k
      <4>1. g[i] = f[i] /\ (i # 1 => g[i - 1] = f[i - 1])
        BY <3>1
      <4>2. QED
        BY <3>1, <4>1, <2>2
    <3>2. CASE i > k
      <4>1. i # 1 => g[i - 1] = f[i - 1]
        BY <3>2
      <4>2. QED
        BY <3>2, <4>1
    <3>3. QED
      BY <3>1, <3>2
  <2>4. g = h
    BY <2>3
  <2>5. IsFlat(g, s, k + 1)
    BY <2>4 DEF IsFlat
  <2>6. QED
    BY <2>5
<1>3. S \subseteq Nat
  OBVIOUS
<1> HIDE DEF S
<1>4. S = Nat
  BY <1>1, <1>2, <1>3, Induction
<1>5. QED
  BY <1>4 DEF S

LEMMA FlatIs ==
  ASSUME NEW s, Len(s) \in Nat, Len(s) # 0
  PROVE  \E f : IsFlat(f, s, Len(s)) /\ FlattenSeq(s) = f[Len(s)]
<1>1. \E f : f = [i \in 1 .. Len(s) |-> IF i = 1 THEN s[i] ELSE f[i - 1] \o s[i]]
  BY FlatExists DEF IsFlat
<1>2. QED
  BY <1>1 DEF FlattenSeq, IsFlat

\* The beginning of a flattened sequence is its beginning flattened.
Same(s, t, k) == \A i \in 1 .. k : s[i] = t[i]

LEMMA FlatBegins ==
  ASSUME NEW s, NEW t, NEW n \in Nat, NEW k \in 0 .. n, Same(t, s, k),
         NEW f, IsFlat(f, s, n), NEW g, IsFlat(g, t, k)
  PROVE  Same(g, f, k)
<1>a. /\ \A i \in 1 .. n : f[i] = IF i = 1 THEN s[i] ELSE f[i - 1] \o s[i]
      /\ \A i \in 1 .. k : g[i] = IF i = 1 THEN t[i] ELSE g[i - 1] \o t[i]
  BY DEF IsFlat
<1> DEFINE T == {i \in 0 .. k : i > 0 => g[i] = f[i]}
<1>1. 0 \in T
  OBVIOUS
<1>2. ASSUME NEW i \in 0 .. k - 1, i \in T PROVE i + 1 \in T
  <2> DEFINE j == i + 1
  <2>1. j \in 1 .. n /\ j \in 1 .. k /\ j - 1 = i /\ (j # 1 => g[j - 1] = f[j - 1])
    BY <1>2
  <2>2. i + 1 \in 0 .. k
    OBVIOUS
  <2> HIDE DEF j
  <2>3. /\ f[j] = IF j = 1 THEN s[j] ELSE f[j - 1] \o s[j]
        /\ g[j] = IF j = 1 THEN t[j] ELSE g[j - 1] \o t[j]
    BY <1>a, <2>1 DEF Same
  <2>4. g[j] = f[j]
    BY <2>1, <2>3 DEF Same
  <2>5. QED
    BY <2>2, <2>4 DEF j
<1> HIDE DEF T
<1>3. \A i \in 0 .. k : i \in T
  BY <1>1, <1>2, InductionTo
<1>4. QED
  BY <1>3 DEF T, Same

LEMMA FlatEmpty == FlattenSeq(<< >>) = << >>
BY DEF FlattenSeq

LEMMA FlatAppend ==
  ASSUME NEW A, NEW s \in Seq(Seq(A)), NEW x \in Seq(A)
  PROVE  FlattenSeq(Append(s, x)) = FlattenSeq(s) \o x
<1> DEFINE n == Len(s)
           t == Append(s, x)
<1>1. n \in Nat /\ Len(t) = n + 1 /\ t[n + 1] = x /\ \A i \in 1 .. n : t[i] = s[i]
  BY LenProperties, AppendProperties
<1> HIDE DEF t
<1>2. PICK f : IsFlat(f, t, n + 1) /\ FlattenSeq(t) = f[n + 1]
  <2>1. Len(t) \in Nat /\ Len(t) # 0
    BY <1>1
  <2>2. QED
    BY <1>1, <2>1, FlatIs
<1>3. \A i \in 1 .. n + 1 : f[i] = IF i = 1 THEN t[i] ELSE f[i - 1] \o t[i]
  BY <1>2 DEF IsFlat
<1>4. f[n + 1] = IF n = 0 THEN x ELSE f[n] \o x
  <2>1. n + 1 \in 1 .. n + 1 /\ (n + 1) - 1 = n /\ (n + 1 = 1 <=> n = 0)
    BY <1>1
  <2>2. QED
    BY <1>1, <1>3, <2>1
<1>5. CASE n = 0
  <2>1. s = << >>
    BY <1>5, EmptySeq
  <2>2. << >> \o x = x
    BY ConcatEmptySeq
  <2>3. QED
    BY <1>2, <1>4, <1>5, <2>1, <2>2, FlatEmpty DEF t
<1>6. CASE n # 0
  <2>1. PICK g : IsFlat(g, s, n) /\ FlattenSeq(s) = g[n]
    BY <1>1, <1>6, FlatIs
  <2>2. n + 1 \in Nat /\ n \in 0 .. n + 1 /\ n \in 1 .. n /\ \A i \in 1 .. n : s[i] = t[i]
    BY <1>1, <1>6
  <2> HIDE DEF n
  <2>3. \A i \in 1 .. n : g[i] = f[i]
    <3> DEFINE k == n + 1
    <3>1. /\ k \in Nat /\ n \in 0 .. k /\ Same(s, t, n)
          /\ IsFlat(f, t, k) /\ IsFlat(g, s, n)
      BY <1>2, <2>1, <2>2 DEF Same
    <3> HIDE DEF k
    <3>2. Same(g, f, n)
      BY <3>1, FlatBegins
    <3>3. QED
      BY <3>2 DEF Same
  <2>4. QED
    BY <1>2, <1>4, <1>6, <2>1, <2>2, <2>3 DEF t
<1>7. QED
  BY <1>5, <1>6

LEMMA FlatType ==
  ASSUME NEW A
  PROVE  \A s \in Seq(Seq(A)) : FlattenSeq(s) \in Seq(A)
<1> DEFINE T == {s \in Seq(Seq(A)) : FlattenSeq(s) \in Seq(A)}
<1>1. << >> \in T
  <2>1. << >> \in Seq(Seq(A)) /\ << >> \in Seq(A)
    BY EmptySeq
  <2>2. QED
    BY <2>1, FlatEmpty
<1>2. ASSUME NEW t \in Seq(Seq(A)), NEW x \in Seq(A), t \in T PROVE Append(t, x) \in T
  <2>1. FlattenSeq(Append(t, x)) = FlattenSeq(t) \o x
    BY FlatAppend
  <2>2. FlattenSeq(t) \o x \in Seq(A)
    BY <1>2, ConcatProperties
  <2>3. Append(t, x) \in Seq(Seq(A))
    BY AppendProperties
  <2>4. QED
    BY <2>1, <2>2, <2>3
<1> HIDE DEF T
<1>3. \A s \in Seq(Seq(A)) : s \in T
  BY <1>1, <1>2, SequenceInduction
<1>4. QED
  BY <1>3 DEF T

\* Its elements are theirs.
LEMMA FlatElements ==
  ASSUME NEW A
  PROVE  \A s \in Seq(Seq(A)) :
           /\ \A p \in DOMAIN FlattenSeq(s) :
                \E i \in DOMAIN s : \E k \in DOMAIN s[i] : FlattenSeq(s)[p] = s[i][k]
           /\ \A i \in DOMAIN s : \A k \in DOMAIN s[i] :
                \E p \in DOMAIN FlattenSeq(s) : FlattenSeq(s)[p] = s[i][k]
<1> DEFINE Good(s) ==
           /\ \A p \in DOMAIN FlattenSeq(s) :
                \E i \in DOMAIN s : \E k \in DOMAIN s[i] : FlattenSeq(s)[p] = s[i][k]
           /\ \A i \in DOMAIN s : \A k \in DOMAIN s[i] :
                \E p \in DOMAIN FlattenSeq(s) : FlattenSeq(s)[p] = s[i][k]
           T == {s \in Seq(Seq(A)) : Good(s)}
<1>1. << >> \in T
  <2>1. << >> \in Seq(Seq(A)) /\ DOMAIN << >> = {}
    BY EmptySeq
  <2>2. QED
    BY <2>1, FlatEmpty
<1>2. ASSUME NEW t \in Seq(Seq(A)), NEW x \in Seq(A), t \in T PROVE Append(t, x) \in T
  <2> DEFINE u == Append(t, x)
             a == FlattenSeq(t)
             b == FlattenSeq(u)
  <2>1. b = a \o x /\ a \in Seq(A)
    BY FlatAppend, FlatType
  <2>2. /\ u \in Seq(Seq(A)) /\ Len(u) = Len(t) + 1 /\ u[Len(t) + 1] = x
        /\ \A i \in 1 .. Len(t) : u[i] = t[i]
        /\ Len(t) \in Nat /\ DOMAIN t = 1 .. Len(t) /\ DOMAIN u = 1 .. Len(t) + 1
    BY AppendProperties, LenProperties
  <2>3. /\ b \in Seq(A) /\ Len(b) = Len(a) + Len(x)
        /\ \A i \in 1 .. Len(a) + Len(x) : b[i] = IF i <= Len(a) THEN a[i] ELSE x[i - Len(a)]
    BY <2>1, ConcatProperties
  <2>4. /\ Len(a) \in Nat /\ Len(x) \in Nat /\ DOMAIN a = 1 .. Len(a) /\ DOMAIN x = 1 .. Len(x)
        /\ DOMAIN b = 1 .. Len(a) + Len(x)
    BY <2>1, <2>3, LenProperties
  <2>5. Good(t)
    BY <1>2
  <2> HIDE DEF u, b
  <2>6. ASSUME NEW p \in DOMAIN b
        PROVE  \E i \in DOMAIN u : \E k \in DOMAIN u[i] : b[p] = u[i][k]
    <3>1. CASE p <= Len(a)
      <4>1. p \in DOMAIN a /\ b[p] = a[p]
        BY <2>3, <2>4, <3>1
      <4>2. PICK i \in DOMAIN t : \E k \in DOMAIN t[i] : a[p] = t[i][k]
        BY <2>5, <4>1
      <4>3. i \in DOMAIN u /\ u[i] = t[i]
        BY <2>2
      <4>4. QED
        BY <4>1, <4>2, <4>3
    <3>2. CASE p > Len(a)
      <4>1. p - Len(a) \in DOMAIN x /\ b[p] = x[p - Len(a)]
        BY <2>3, <2>4, <3>2
      <4>2. Len(t) + 1 \in DOMAIN u
        BY <2>2
      <4>3. QED
        BY <2>2, <4>1, <4>2
    <3>3. QED
      BY <2>4, <3>1, <3>2
  <2>7. ASSUME NEW i \in DOMAIN u, NEW k \in DOMAIN u[i]
        PROVE  \E p \in DOMAIN b : b[p] = u[i][k]
    <3>1. CASE i \in DOMAIN t
      <4>1. u[i] = t[i]
        BY <2>2, <3>1
      <4>2. PICK p \in DOMAIN a : a[p] = t[i][k]
        BY <2>5, <3>1, <4>1
      <4>3. p \in DOMAIN b /\ b[p] = a[p]
        BY <2>3, <2>4
      <4>4. QED
        BY <4>1, <4>2, <4>3
    <3>2. CASE i \notin DOMAIN t
      <4>1. i = Len(t) + 1 /\ u[i] = x
        BY <2>2, <3>2
      <4>2. k \in 1 .. Len(x)
        BY <2>4, <4>1
      <4>3. Len(a) + k \in DOMAIN b /\ ~ (Len(a) + k <= Len(a)) /\ (Len(a) + k) - Len(a) = k
        BY <2>4, <4>2
      <4>4. b[Len(a) + k] = x[k]
        BY <2>3, <2>4, <4>3
      <4>5. QED
        BY <4>1, <4>3, <4>4
    <3>3. QED
      BY <3>1, <3>2
  <2>8. Good(u)
    BY <2>6, <2>7 DEF b
  <2>9. QED
    BY <2>2, <2>8 DEF u
<1>3. \A s \in Seq(Seq(A)) : s \in T
  <2> HIDE DEF T
  <2>1. QED
    BY <1>1, <1>2, SequenceInduction
<1>4. QED
  BY <1>3

\* Without its first part.
LEMMA FlatTail ==
  ASSUME NEW A
  PROVE  \A s \in Seq(Seq(A)) : s # << >> => FlattenSeq(s) = Head(s) \o FlattenSeq(Tail(s))
<1> DEFINE T == {s \in Seq(Seq(A)) : s # << >> => FlattenSeq(s) = Head(s) \o FlattenSeq(Tail(s))}
<1>1. << >> \in T
  BY EmptySeq
<1>2. ASSUME NEW t \in Seq(Seq(A)), NEW x \in Seq(A), t \in T PROVE Append(t, x) \in T
  <2>1. Append(t, x) \in Seq(Seq(A)) /\ FlattenSeq(Append(t, x)) = FlattenSeq(t) \o x
    BY AppendProperties, FlatAppend
  <2>2. CASE t = << >>
    <3>1. Head(Append(t, x)) = x /\ Tail(Append(t, x)) = << >>
      BY <2>2, HeadTailAppend
    <3>2. << >> \o x = x /\ x \o << >> = x
      BY ConcatEmptySeq
    <3>3. QED
      BY <2>1, <2>2, <3>1, <3>2, FlatEmpty
  <2>3. CASE t # << >>
    <3>1. Head(Append(t, x)) = Head(t) /\ Tail(Append(t, x)) = Append(Tail(t), x)
      BY <2>3, HeadTailAppend
    <3>2. Head(t) \in Seq(A) /\ Tail(t) \in Seq(Seq(A))
      BY <2>3, HeadTailProperties
    <3>3. FlattenSeq(Tail(t)) \in Seq(A) /\ FlattenSeq(Append(Tail(t), x)) = FlattenSeq(Tail(t)) \o x
      BY <3>2, FlatType, FlatAppend
    <3>4. FlattenSeq(t) = Head(t) \o FlattenSeq(Tail(t))
      BY <1>2, <2>3
    <3>5. (Head(t) \o FlattenSeq(Tail(t))) \o x = Head(t) \o (FlattenSeq(Tail(t)) \o x)
      <4> DEFINE h == Head(t)
                 c == FlattenSeq(Tail(t))
      <4>1. h \in Seq(A) /\ c \in Seq(A)
        BY <3>2, <3>3
      <4> HIDE DEF h, c
      <4>2. (h \o c) \o x = h \o (c \o x)
        BY <4>1, ConcatAssociative
      <4>3. QED
        BY <4>2 DEF h, c
    <3>6. QED
      BY <2>1, <3>1, <3>3, <3>4, <3>5
  <2>4. QED
    BY <2>2, <2>3
<1> HIDE DEF T
<1>3. \A s \in Seq(Seq(A)) : s \in T
  BY <1>1, <1>2, SequenceInduction
<1>4. QED
  BY <1>3 DEF T

\* With an element more in its last part.
LEMMA FlatLonger ==
  ASSUME NEW A, NEW s \in Seq(Seq(A)), s # << >>, NEW x \in A
  PROVE  FlattenSeq([s EXCEPT ![Len(s)] = Append(@, x)]) = Append(FlattenSeq(s), x)
<1>1. PICK t \in Seq(Seq(A)), g \in Seq(A) : s = Append(t, g)
  BY SequenceEmptyOrAppend
<1> DEFINE u == [s EXCEPT ![Len(s)] = Append(@, x)]
           n == Len(t)
<1>2. /\ n \in Nat /\ Len(s) = n + 1 /\ s[n + 1] = g /\ \A i \in 1 .. n : s[i] = t[i]
      /\ Append(g, x) \in Seq(A) /\ DOMAIN s = 1 .. Len(s)
  BY <1>1, LenProperties, AppendProperties
<1>3. u = [s EXCEPT ![Len(s)] = Append(g, x)]
  BY <1>2
<1>4. /\ u \in Seq(Seq(A)) /\ Len(u) = n + 1
      /\ \A i \in 1 .. n + 1 : u[i] = IF i = n + 1 THEN Append(g, x) ELSE s[i]
  <2>1. Len(s) \in 1 .. Len(s)
    BY <1>2
  <2>2. QED
    BY <1>2, <1>3, <2>1, ExceptSeq
<1>5. /\ Append(t, Append(g, x)) \in Seq(Seq(A)) /\ Len(Append(t, Append(g, x))) = n + 1
      /\ \A i \in 1 .. n : Append(t, Append(g, x))[i] = t[i]
      /\ Append(t, Append(g, x))[n + 1] = Append(g, x)
  BY <1>2, AppendProperties
<1> HIDE DEF u, n
<1>6. \A i \in 1 .. n + 1 : u[i] = Append(t, Append(g, x))[i]
  BY <1>2, <1>4, <1>5
<1>7. u = Append(t, Append(g, x))
  BY <1>4, <1>5, <1>6, SeqEqual
<1>8. FlattenSeq(u) = FlattenSeq(t) \o Append(g, x) /\ FlattenSeq(s) = FlattenSeq(t) \o g
      /\ FlattenSeq(t) \in Seq(A)
  BY <1>1, <1>2, <1>7, FlatAppend, FlatType
<1> DEFINE f == FlattenSeq(t)
<1>9. f \in Seq(A)
  BY <1>8
<1> HIDE DEF f
<1>10. /\ Append(g, x) = g \o <<x>> /\ <<x>> \in Seq(A) /\ f \o g \in Seq(A)
       /\ f \o (g \o <<x>>) = (f \o g) \o <<x>>
       /\ Append(f \o g, x) = (f \o g) \o <<x>>
  <2>1. <<x>> \in Seq(A)
    OBVIOUS
  <2>2. f \o g \in Seq(A)
    BY <1>9, ConcatProperties
  <2>3. Append(g, x) = g \o <<x>> /\ Append(f \o g, x) = (f \o g) \o <<x>>
    BY <2>2, AppendIsConcat
  <2>4. f \o (g \o <<x>>) = (f \o g) \o <<x>>
    BY <1>9, <2>1, ConcatAssociative
  <2>5. QED
    BY <2>1, <2>2, <2>3, <2>4
<1>11. QED
  BY <1>8, <1>10 DEF u, f

-----------------------------------------------------------------------------
(* What a sequence of messages is of a stream F: its elements of W are     *)
(* messages of F, in F's order, with none of W left out between them; and  *)
(* with none left out up to F's N-th.                                      *)

Has(g, x) == \E l \in DOMAIN g : g[l] = x

Faithful(g, W, F) ==
  \A i \in DOMAIN g : g[i] \in W => g[i][2] \in DOMAIN F /\ F[g[i][2]].msg = g[i]

InOrder(g, W) ==
  \A i, j \in DOMAIN g : i < j /\ g[i] \in W /\ g[j] \in W => g[i][2] < g[j][2]

NoGap(g, W, F) ==
  \A i, j \in DOMAIN g : g[i] \in W /\ g[j] \in W =>
    \A n \in g[i][2] .. g[j][2] : F[n].msg \in W => Has(g, F[n].msg)

UpTo(g, W, F, N) ==
  \A i \in DOMAIN g : g[i] \in W =>
    g[i][2] <= N /\ \A n \in g[i][2] .. N : F[n].msg \in W => Has(g, F[n].msg)

Whole(g, W, F) == Faithful(g, W, F) /\ InOrder(g, W) /\ NoGap(g, W, F)

Numbered(F) ==
  Len(F) \in Nat /\ DOMAIN F = 1 .. Len(F) /\ \A i \in DOMAIN F : F[i].msg[2] = i

LEMMA UpToHasNoGap ==
  ASSUME NEW g, NEW W, NEW F, NEW N \in Nat, Numbered(F),
         Faithful(g, W, F), UpTo(g, W, F, N)
  PROVE  NoGap(g, W, F)
<1> SUFFICES ASSUME NEW i \in DOMAIN g, NEW j \in DOMAIN g, g[i] \in W, g[j] \in W,
                    NEW n \in g[i][2] .. g[j][2], F[n].msg \in W
             PROVE  Has(g, F[n].msg)
  BY DEF NoGap
<1>1. g[i][2] \in Nat /\ g[j][2] \in Nat /\ g[j][2] <= N
  BY DEF Faithful, UpTo, Numbered
<1>2. n \in g[i][2] .. N
  BY <1>1
<1>3. QED
  BY <1>2 DEF UpTo

\* One more message, the next one.
LEMMA AppendNext ==
  ASSUME NEW A, NEW g \in Seq(A), NEW m \in A, NEW W, NEW F, NEW N \in Nat, Numbered(F),
         Whole(g, W, F), UpTo(g, W, F, N), N + 1 \in DOMAIN F, F[N + 1].msg = m
  PROVE  Whole(Append(g, m), W, F) /\ UpTo(Append(g, m), W, F, N + 1)
<1> DEFINE h == Append(g, m)
           k == Len(g) + 1
           M == N + 1
<1>1. /\ Len(g) \in Nat /\ DOMAIN g = 1 .. Len(g) /\ h \in Seq(A) /\ DOMAIN h = 1 .. k
      /\ h[k] = m /\ \A i \in 1 .. Len(g) : h[i] = g[i]
  BY AppendProperties, LenProperties
<1>2. k \in DOMAIN h /\ \A i \in DOMAIN h : i # k => i \in DOMAIN g /\ h[i] = g[i] /\ i < k
  BY <1>1
<1>3. \A i \in DOMAIN g : i \in DOMAIN h
  BY <1>1
<1>4. m[2] = M /\ M \in DOMAIN F /\ F[M].msg = m /\ M \in Nat /\ N < M
  BY DEF Numbered
<1>5. \A x : Has(g, x) => Has(h, x)
  BY <1>1, <1>3 DEF Has
<1>6. Has(h, m)
  BY <1>1, <1>2 DEF Has
<1>7. \A i \in DOMAIN g : g[i] \in W => g[i][2] \in Nat /\ g[i][2] <= N
  BY DEF Whole, Faithful, UpTo, Numbered
<1>m. \A x \in Nat : \A n \in x .. M : n \in x .. N \/ n = M
  BY <1>4
<1> HIDE DEF h, k, M
<1>8. Faithful(h, W, F)
  BY <1>2, <1>4, <1>1 DEF Whole, Faithful
<1>9. InOrder(h, W)
  <2> SUFFICES ASSUME NEW i \in DOMAIN h, NEW j \in DOMAIN h, i < j, h[i] \in W, h[j] \in W
               PROVE  h[i][2] < h[j][2]
    BY DEF InOrder
  <2>1. i # k
    BY <1>1, <1>2
  <2>2. i \in DOMAIN g /\ h[i] = g[i]
    BY <1>2, <2>1
  <2>3. CASE j = k
    <3>1. h[i][2] \in Nat /\ h[i][2] <= N /\ h[j][2] = M
      BY <1>1, <1>4, <1>7, <2>2, <2>3
    <3>2. QED
      BY <1>4, <3>1
  <2>4. CASE j # k
    BY <1>2, <2>2, <2>4 DEF Whole, InOrder
  <2>5. QED
    BY <2>3, <2>4
<1>10. UpTo(h, W, F, M)
  <2> SUFFICES ASSUME NEW i \in DOMAIN h, h[i] \in W
               PROVE  h[i][2] <= M /\ \A n \in h[i][2] .. M : F[n].msg \in W => Has(h, F[n].msg)
    BY DEF UpTo
  <2>1. h[i][2] \in Nat /\ h[i][2] <= M
    <3>1. CASE i = k
      BY <1>1, <1>4, <3>1
    <3>2. CASE i # k
      <4>1. h[i][2] \in Nat /\ h[i][2] <= N
        BY <1>2, <1>7, <3>2
      <4>2. QED
        BY <1>4, <4>1
    <3>3. QED
      BY <3>1, <3>2
  <2>2. ASSUME NEW n \in h[i][2] .. M, F[n].msg \in W PROVE Has(h, F[n].msg)
    <3>1. CASE n = M
      BY <1>4, <1>6, <3>1
    <3>2. CASE n # M
      <4>1. n \in h[i][2] .. N
        BY <1>m, <2>1, <3>2
      <4>2. i # k
        <5>1. SUFFICES ASSUME i = k PROVE FALSE
          OBVIOUS
        <5>2. h[i][2] = M
          BY <1>1, <1>4, <5>1
        <5>3. n \in M .. N
          BY <4>1, <5>2
        <5>4. QED
          BY <1>4, <5>3
      <4>3. i \in DOMAIN g /\ h[i] = g[i]
        BY <1>2, <4>2
      <4>4. Has(g, F[n].msg)
        BY <2>2, <4>1, <4>3 DEF UpTo
      <4>5. QED
        BY <1>5, <4>4
    <3>3. QED
      BY <3>1, <3>2
  <2>3. QED
    BY <2>1, <2>2
<1>11. NoGap(h, W, F)
  BY <1>4, <1>8, <1>10, UpToHasNoGap
<1>12. QED
  BY <1>8, <1>9, <1>10, <1>11 DEF Whole, h, M

\* Something that is not asked for in front.
LEMMA Prefixed ==
  ASSUME NEW A, NEW p \in Seq(A), NEW f \in Seq(A), NEW W, NEW F, NEW N,
         \A i \in DOMAIN p : p[i] \notin W, Whole(f, W, F)
  PROVE  Whole(p \o f, W, F) /\ (UpTo(f, W, F, N) => UpTo(p \o f, W, F, N))
<1> DEFINE h == p \o f
           d == Len(p)
<1>1. /\ h \in Seq(A) /\ Len(h) = d + Len(f) /\ d \in Nat /\ Len(f) \in Nat
      /\ \A i \in 1 .. d + Len(f) : h[i] = IF i <= d THEN p[i] ELSE f[i - d]
      /\ DOMAIN p = 1 .. d /\ DOMAIN f = 1 .. Len(f)
  BY ConcatProperties, LenProperties
<1>2. DOMAIN h = 1 .. d + Len(f)
  BY <1>1, LenProperties
<1> HIDE DEF h, d
<1>3. \A i \in DOMAIN h : h[i] \in W =>
        i \in Nat /\ i - d \in DOMAIN f /\ h[i] = f[i - d]
  <2> SUFFICES ASSUME NEW i \in DOMAIN h, h[i] \in W
               PROVE  i \in Nat /\ i - d \in DOMAIN f /\ h[i] = f[i - d]
    OBVIOUS
  <2>1. ~ (i <= d)
    BY <1>1, <1>2
  <2>2. QED
    BY <1>1, <1>2, <2>1
<1>4. \A x : Has(f, x) => Has(h, x)
  <2> SUFFICES ASSUME NEW l \in DOMAIN f PROVE \E q \in DOMAIN h : h[q] = f[l]
    BY DEF Has
  <2>1. d + l \in DOMAIN h /\ ~ (d + l <= d) /\ (d + l) - d = l
    BY <1>1, <1>2
  <2>2. h[d + l] = f[l]
    BY <1>1, <1>2, <2>1
  <2>3. QED
    BY <2>1, <2>2
<1>5. Faithful(h, W, F)
  BY <1>3 DEF Whole, Faithful
<1>6. InOrder(h, W)
  <2> SUFFICES ASSUME NEW i \in DOMAIN h, NEW j \in DOMAIN h, i < j, h[i] \in W, h[j] \in W
               PROVE  h[i][2] < h[j][2]
    BY DEF InOrder
  <2>1. /\ i - d \in DOMAIN f /\ j - d \in DOMAIN f /\ i - d < j - d
        /\ h[i] = f[i - d] /\ h[j] = f[j - d]
    BY <1>1, <1>3
  <2>2. QED
    BY <2>1 DEF Whole, InOrder
<1>7. NoGap(h, W, F)
  <2> SUFFICES ASSUME NEW i \in DOMAIN h, NEW j \in DOMAIN h, h[i] \in W, h[j] \in W,
                      NEW n \in h[i][2] .. h[j][2], F[n].msg \in W
               PROVE  Has(h, F[n].msg)
    BY DEF NoGap
  <2>1. Has(f, F[n].msg)
    BY <1>3 DEF Whole, NoGap
  <2>2. QED
    BY <1>4, <2>1
<1>8. UpTo(f, W, F, N) => UpTo(h, W, F, N)
  <2> SUFFICES ASSUME UpTo(f, W, F, N), NEW i \in DOMAIN h, h[i] \in W
               PROVE  h[i][2] <= N /\ \A n \in h[i][2] .. N : F[n].msg \in W => Has(h, F[n].msg)
    BY DEF UpTo
  <2>1. i - d \in DOMAIN f /\ h[i] = f[i - d]
    BY <1>3
  <2>2. h[i][2] <= N /\ \A n \in h[i][2] .. N : F[n].msg \in W => Has(f, F[n].msg)
    BY <2>1 DEF UpTo
  <2>3. QED
    BY <1>4, <2>2
<1>9. QED
  BY <1>5, <1>6, <1>7, <1>8 DEF Whole, h

\* The stream goes on.
LEMMA StreamGrows ==
  ASSUME NEW S, NEW F \in Seq(S), NEW x \in S, NEW g, NEW W, Numbered(F), Whole(g, W, F)
  PROVE  /\ Whole(g, W, Append(F, x))
         /\ UpTo(g, W, F, Len(F)) => UpTo(g, W, Append(F, x), Len(F))
<1> DEFINE F2 == Append(F, x)
           L == Len(F)
<1>1. /\ DOMAIN F2 = 1 .. L + 1 /\ L \in Nat /\ DOMAIN F = 1 .. L
      /\ \A i \in 1 .. L : F2[i] = F[i]
  BY AppendProperties, LenProperties
<1> HIDE DEF F2
<1>2. \A i \in DOMAIN F : i \in DOMAIN F2 /\ F2[i] = F[i]
  BY <1>1
<1>3. Faithful(g, W, F2)
  BY <1>2 DEF Whole, Faithful
<1>4. \A i \in DOMAIN g : g[i] \in W => g[i][2] \in 1 .. L
  BY <1>1 DEF Whole, Faithful
<1> HIDE DEF L
<1>5. NoGap(g, W, F2)
  <2> SUFFICES ASSUME NEW i \in DOMAIN g, NEW j \in DOMAIN g, g[i] \in W, g[j] \in W,
                      NEW n \in g[i][2] .. g[j][2], F2[n].msg \in W
               PROVE  Has(g, F2[n].msg)
    BY DEF NoGap
  <2>1. n \in 1 .. L
    BY <1>1, <1>4
  <2>2. F2[n] = F[n]
    BY <1>1, <2>1
  <2>3. QED
    BY <2>2 DEF Whole, NoGap
<1>6. ASSUME UpTo(g, W, F, L) PROVE UpTo(g, W, F2, L)
  <2> SUFFICES ASSUME NEW i \in DOMAIN g, g[i] \in W
               PROVE  g[i][2] <= L /\ \A n \in g[i][2] .. L : F2[n].msg \in W => Has(g, F2[n].msg)
    BY DEF UpTo
  <2>1. g[i][2] <= L /\ \A n \in g[i][2] .. L : F[n].msg \in W => Has(g, F[n].msg)
    BY <1>6 DEF UpTo
  <2>2. \A n \in g[i][2] .. L : n \in 1 .. L
    BY <1>1, <1>4
  <2>3. \A n \in g[i][2] .. L : F2[n] = F[n]
    BY <1>1, <2>2
  <2>4. QED
    BY <2>1, <2>3
<1>7. QED
  BY <1>3, <1>5, <1>6 DEF Whole, F2, L

\* Without its beginning, a sequence of messages asked for.
LEMMA BeginningDropped ==
  ASSUME NEW A, NEW h \in Seq(A), NEW r \in Seq(A), NEW F, NEW N \in Nat, Numbered(F),
         N <= Len(F), Whole(h \o r, A, F), UpTo(h \o r, A, F, N)
  PROVE  Whole(r, A, F) /\ UpTo(r, A, F, N)
<1> DEFINE f == h \o r
           d == Len(h)
<1>1. /\ f \in Seq(A) /\ Len(f) = d + Len(r) /\ d \in Nat /\ Len(r) \in Nat
      /\ \A i \in 1 .. d + Len(r) : f[i] = IF i <= d THEN h[i] ELSE r[i - d]
      /\ DOMAIN r = 1 .. Len(r)
  BY ConcatProperties, LenProperties
<1>2. DOMAIN f = 1 .. d + Len(r) /\ \A i \in DOMAIN f : f[i] \in A
  BY <1>1, LenProperties, ElementOfSeq
<1> HIDE DEF f, d
<1>3. \A i \in DOMAIN r : /\ d + i \in DOMAIN f /\ f[d + i] = r[i] /\ r[i] \in A
                          /\ i \in Nat /\ i > 0
  <2> TAKE i \in DOMAIN r
  <2>1. d + i \in DOMAIN f /\ ~ (d + i <= d) /\ (d + i) - d = i /\ i \in Nat /\ i > 0
    BY <1>1, <1>2
  <2>2. f[d + i] = r[i]
    BY <1>1, <1>2, <2>1
  <2>3. QED
    BY <1>2, <2>1, <2>2
<1>4. Faithful(f, A, F) /\ InOrder(f, A) /\ UpTo(f, A, F, N)
  BY DEF f, Whole
<1>5. Faithful(r, A, F)
  BY <1>3, <1>4 DEF Faithful
<1>6. InOrder(r, A)
  <2> SUFFICES ASSUME NEW i \in DOMAIN r, NEW j \in DOMAIN r, i < j
               PROVE  r[i][2] < r[j][2]
    BY DEF InOrder
  <2>1. d + i < d + j
    BY <1>1, <1>3
  <2>2. QED
    BY <1>3, <1>4, <2>1 DEF InOrder
<1>7. UpTo(r, A, F, N)
  <2> SUFFICES ASSUME NEW i \in DOMAIN r
               PROVE  r[i][2] <= N /\ \A n \in r[i][2] .. N : F[n].msg \in A => Has(r, F[n].msg)
    BY DEF UpTo
  <2>1. d + i \in DOMAIN f /\ f[d + i] = r[i] /\ f[d + i] \in A
    BY <1>3
  <2>2. r[i][2] <= N /\ \A n \in r[i][2] .. N : F[n].msg \in A => Has(f, F[n].msg)
    BY <1>4, <2>1 DEF UpTo
  <2>3. r[i][2] \in DOMAIN F
    BY <1>3, <1>5 DEF Faithful
  <2>4. ASSUME NEW n \in r[i][2] .. N, F[n].msg \in A PROVE Has(r, F[n].msg)
    <3>1. PICK l \in DOMAIN f : f[l] = F[n].msg
      BY <2>2, <2>4 DEF Has
    <3>2. r[i][2] \in Nat /\ n \in DOMAIN F /\ n \in Nat /\ n >= r[i][2]
      BY <2>3 DEF Numbered
    <3>3. f[l][2] = n
      BY <3>1, <3>2 DEF Numbered
    <3>4. l > d
      <4>1. SUFFICES ASSUME ~ (l > d) PROVE FALSE
        OBVIOUS
      <4>2. l < d + i
        BY <1>1, <1>2, <1>3, <4>1
      <4>3. f[l][2] < f[d + i][2]
        BY <1>2, <1>4, <2>1, <4>2 DEF InOrder
      <4>4. QED
        BY <2>1, <3>2, <3>3, <4>3
    <3>5. l - d \in DOMAIN r /\ f[l] = r[l - d]
      BY <1>1, <1>2, <3>4
    <3>6. QED
      BY <3>1, <3>5 DEF Has
  <2>5. QED
    BY <2>2, <2>4
<1>8. NoGap(r, A, F)
  BY <1>5, <1>7, UpToHasNoGap
<1>9. QED
  BY <1>5, <1>6, <1>7, <1>8 DEF Whole

-----------------------------------------------------------------------------
(* The invariant, part by part.                                            *)

AllHeaders == UNION {Headers[k] : k \in HeaderKinds}
Stream == Msgs \cup AllHeaders
Sent == Stream \cup {Response}
FedSet == [msg : Stream, header : [HeaderKinds -> {None} \cup AllHeaders]]

FanTypes ==
  /\ TypeOK
  /\ \A k \in HeaderKinds : header[k] \in {None} \cup Headers[k]
  /\ conn \in [Subs -> {"none", "request", "joining", "reading", "done"}]
  /\ open \subseteq Subs /\ joined \subseteq Subs
  /\ got \in [Subs -> Seq(Sent)]
  /\ fed \in Seq(FedSet) /\ Numbered(fed)

\* The message under way is the stream's last one, and its headers are those of now.
LastMsg == fed[Len(fed)].msg

Forwarding ==
  /\ fed # << >>
  /\ \E T \in SUBSET joined : bc = {[msg |-> LastMsg, todo |-> T]}
  /\ fed[Len(fed)].header = header
  /\ LastMsg \in Video => header[VideoHeader] # None
  /\ LastMsg \in Video \ Keys => ~isGOPRingEmpty
  /\ IsHeader(LastMsg) /\ ~HeadersChange => header[KindOf(LastMsg)] = None

OneBroadcast == bc = {} \/ Forwarding

\* A player's session.
Session(s) ==
  /\ s \in joined <=> conn[s] = "reading"
  /\ conn[s] \in {"none", "request"} => got[s] = << >>
  /\ conn[s] \in {"request", "joining"} => s \in fresh
  /\ s \in open /\ conn[s] \in {"joining", "reading"} => got[s] # << >>
  /\ s \in open => conn[s] # "none"
  /\ \A i \in DOMAIN got[s] : i = 1 <=> got[s][i] = Response
  /\ s \in fresh => Len(got[s]) <= 1

Sessions == \A s \in Subs : Session(s)
Base == FanTypes /\ OneBroadcast /\ Sessions

LEMMA Disjoint ==
  /\ AllHeaders \cap Msgs = {} /\ Response \notin Stream
  /\ Keys \subseteq Video /\ Video \subseteq Msgs
  /\ \A m : IsHeader(m) <=> m \in AllHeaders
  /\ \A m : IsHeader(m) => KindOf(m) \in HeaderKinds /\ m \in Headers[KindOf(m)]
  /\ \A k \in HeaderKinds : \A m \in Headers[k] : KindOf(m) = k
<1>1. \A k \in HeaderKinds : Headers[k] \cap (Msgs \cup {Response}) = {}
  BY FanoutConstants
<1>2. \A k, l \in HeaderKinds : k # l => Headers[k] \cap Headers[l] = {}
  BY FanoutConstants
<1>3. Keys \subseteq Video /\ Video \subseteq Msgs /\ Response \notin Msgs
  BY FanoutConstants
<1>4. \A m : IsHeader(m) <=> m \in AllHeaders
  BY DEF IsHeader, AllHeaders
<1>5. AllHeaders \cap Msgs = {} /\ Response \notin Stream
  BY <1>1, <1>3 DEF AllHeaders, Stream
<1>6. \A m : IsHeader(m) => KindOf(m) \in HeaderKinds /\ m \in Headers[KindOf(m)]
  BY DEF IsHeader, KindOf
<1>7. \A k \in HeaderKinds : \A m \in Headers[k] : KindOf(m) = k
  <2> TAKE k \in HeaderKinds
  <2> TAKE m \in Headers[k]
  <2>1. KindOf(m) \in HeaderKinds /\ m \in Headers[KindOf(m)]
    BY <1>6 DEF IsHeader
  <2>2. QED
    BY <1>2, <2>1
<1>8. QED
  BY <1>3, <1>4, <1>5, <1>6, <1>7

LEMMA WantedIs == \A s : Wanted(s) \subseteq Msgs /\ Video \subseteq Wanted(s)
BY Disjoint DEF Wanted

\* What a fresh player is given, by types.
LEMMA CachedType ==
  ASSUME FanTypes
  PROVE  /\ Gops \in Seq(Seq(Msgs))
         /\ FlattenSeq(Gops) \in Seq(Msgs)
         /\ CachedHeaders \in Seq(AllHeaders)
         /\ \A i \in DOMAIN CachedHeaders : \E k \in HeaderKinds :
              header[k] # None /\ CachedHeaders[i] = header[k]
         /\ \A k \in HeaderKinds : header[k] # None => Has(CachedHeaders, header[k])
         /\ Cached \in Seq(Stream)
<1>1. Gops \in Seq(Seq(Msgs))
  BY GopsShown DEF FanTypes, Shown, Shows, GopData
<1>2. FlattenSeq(Gops) \in Seq(Msgs)
  BY <1>1, FlatType
<1> DEFINE s == [i \in DOMAIN HeaderOrder |->
                   IF header[HeaderOrder[i]] = None THEN << >> ELSE <<header[HeaderOrder[i]]>>]
           n == Len(HeaderOrder)
<1>3. /\ n \in Nat /\ DOMAIN HeaderOrder = 1 .. n /\ \A i \in 1 .. n : HeaderOrder[i] \in HeaderKinds
      /\ \A k \in HeaderKinds : \E i \in 1 .. n : HeaderOrder[i] = k
  <2>1. HeaderOrder \in Seq(HeaderKinds) /\ ToSet(HeaderOrder) = HeaderKinds
    BY FanoutConstants
  <2>2. n \in Nat /\ DOMAIN HeaderOrder = 1 .. n /\ \A i \in 1 .. n : HeaderOrder[i] \in HeaderKinds
    BY <2>1, LenProperties, ElementOfSeq
  <2>3. QED
    BY <2>1, <2>2 DEF ToSet
<1>4. \A k \in HeaderKinds : header[k] # None => header[k] \in AllHeaders
  BY DEF FanTypes, AllHeaders
<1>5. \A i \in 1 .. n : s[i] \in Seq(AllHeaders)
  <2> TAKE i \in 1 .. n
  <2>1. s[i] = IF header[HeaderOrder[i]] = None THEN << >> ELSE <<header[HeaderOrder[i]]>>
    BY <1>3
  <2>2. CASE header[HeaderOrder[i]] = None
    <3>1. << >> \in Seq(AllHeaders)
      BY EmptySeq
    <3>2. QED
      BY <2>1, <2>2, <3>1
  <2>3. CASE header[HeaderOrder[i]] # None
    <3>1. header[HeaderOrder[i]] \in AllHeaders
      BY <1>3, <1>4, <2>3
    <3>2. <<header[HeaderOrder[i]]>> \in Seq(AllHeaders)
      BY <3>1
    <3>3. QED
      BY <2>1, <2>3, <3>2
  <2>4. QED
    BY <2>2, <2>3
<1>6. s \in Seq(Seq(AllHeaders)) /\ DOMAIN s = 1 .. n
  <2>1. s = [i \in 1 .. n |-> s[i]]
    BY <1>3
  <2> HIDE DEF s, n
  <2>2. [i \in 1 .. n |-> s[i]] \in Seq(Seq(AllHeaders))
    BY <1>3, <1>5, SeqFromSlots
  <2>3. QED
    BY <2>1, <2>2
<1>7. CachedHeaders = FlattenSeq(s)
  BY DEF CachedHeaders
<1>8. /\ CachedHeaders \in Seq(AllHeaders)
      /\ \A p \in DOMAIN CachedHeaders :
           \E i \in DOMAIN s : \E k \in DOMAIN s[i] : CachedHeaders[p] = s[i][k]
      /\ \A i \in DOMAIN s : \A k \in DOMAIN s[i] :
           \E p \in DOMAIN CachedHeaders : CachedHeaders[p] = s[i][k]
  <2> HIDE DEF s
  <2>1. CachedHeaders \in Seq(AllHeaders)
    BY <1>6, <1>7, FlatType
  <2>2. \A p \in DOMAIN FlattenSeq(s) :
          \E i \in DOMAIN s : \E k \in DOMAIN s[i] : FlattenSeq(s)[p] = s[i][k]
    BY <1>6, FlatElements
  <2>3. \A i \in DOMAIN s : \A k \in DOMAIN s[i] :
          \E p \in DOMAIN FlattenSeq(s) : FlattenSeq(s)[p] = s[i][k]
    BY <1>6, FlatElements
  <2>4. QED
    BY <1>7, <2>1, <2>2, <2>3
<1>9. ASSUME NEW p \in DOMAIN CachedHeaders
      PROVE  \E k \in HeaderKinds : header[k] # None /\ CachedHeaders[p] = header[k]
  <2>1. PICK i \in DOMAIN s : \E k \in DOMAIN s[i] : CachedHeaders[p] = s[i][k]
    BY <1>8
  <2>2. PICK k \in DOMAIN s[i] : CachedHeaders[p] = s[i][k]
    BY <2>1
  <2>3. i \in 1 .. n /\ HeaderOrder[i] \in HeaderKinds
    BY <1>3, <1>6
  <2>4. header[HeaderOrder[i]] # None
    <3>1. SUFFICES ASSUME header[HeaderOrder[i]] = None PROVE FALSE
      OBVIOUS
    <3>2. s[i] = << >>
      BY <1>3, <2>3, <3>1
    <3>3. QED
      BY <2>2, <3>2
  <2>5. s[i] = <<header[HeaderOrder[i]]>>
    BY <1>3, <2>3, <2>4
  <2>6. k = 1 /\ s[i][k] = header[HeaderOrder[i]]
    BY <2>2, <2>5
  <2>7. QED
    BY <2>2, <2>3, <2>4, <2>6
<1>10. ASSUME NEW k \in HeaderKinds, header[k] # None PROVE Has(CachedHeaders, header[k])
  <2>1. PICK i \in 1 .. n : HeaderOrder[i] = k
    BY <1>3
  <2>2. s[i] = <<header[k]>> /\ 1 \in DOMAIN s[i] /\ s[i][1] = header[k] /\ i \in DOMAIN s
    BY <1>3, <1>10, <2>1
  <2> HIDE DEF s
  <2>3. \E p \in DOMAIN CachedHeaders : CachedHeaders[p] = header[k]
    BY <1>8, <2>2
  <2>4. QED
    BY <2>3 DEF Has
<1>11. Cached \in Seq(Stream)
  <2>1. CachedHeaders \in Seq(Stream) /\ FlattenSeq(Gops) \in Seq(Stream)
    <3>1. AllHeaders \subseteq Stream /\ Msgs \subseteq Stream
      BY DEF Stream
    <3>2. QED
      BY <1>2, <1>8, <3>1, SeqMonotonic
  <2>2. QED
    BY <2>1, ConcatProperties DEF Cached
<1>12. QED
  BY <1>1, <1>2, <1>8, <1>9, <1>10, <1>11

-----------------------------------------------------------------------------
(* What a step does.                                                       *)

\* What a player has when the message comes to it.
Before(s) == IF s \in fresh /\ s \notin TsSubs THEN got[s] \o Cached ELSE got[s]

Given(s, m) ==
  /\ got' = [got EXCEPT ![s] = Append(Before(s), m)] /\ fresh' = fresh \ {s}
  /\ s \in TsSubs /\ s \in fresh => TRUE \in Packets(m)

NotGiven(s, m) ==
  got' = got /\ fresh' = fresh /\ s \in TsSubs /\ (s \in fresh \/ m \notin Video)

LEMMA Turn ==
  ASSUME FanTypes, NEW s \in Subs, NEW m \in Stream, writeTo(s, m)
  PROVE  /\ s \notin open => got' = got /\ fresh \ {s} \subseteq fresh' /\ fresh' \subseteq fresh
         /\ s \in open => Given(s, m) \/ NotGiven(s, m)
<1>1. /\ got \in [Subs -> Seq(Sent)] /\ got[s] \in Seq(Sent) /\ m \in Sent /\ Cached \in Seq(Sent)
  <2>1. Stream \subseteq Sent
    BY DEF Sent
  <2>2. Cached \in Seq(Sent)
    BY <2>1, CachedType, SeqMonotonic
  <2>3. QED
    BY <2>1, <2>2 DEF FanTypes
<1>2. /\ got[s] \o <<m>> = Append(got[s], m)
      /\ got[s] \o (<< >> \o <<m>>) = Append(got[s], m)
      /\ got[s] \o (Cached \o <<m>>) = Append(got[s] \o Cached, m)
      /\ got[s] \o << >> = got[s]
  <2> DEFINE g == got[s]
             c == Cached
             e == <<m>>
  <2>1. g \in Seq(Sent) /\ c \in Seq(Sent) /\ e \in Seq(Sent)
    BY <1>1
  <2> HIDE DEF g, c
  <2>2. Append(g, m) = g \o e
    BY <1>1, <2>1, AppendIsConcat
  <2>3. << >> \o e = e /\ g \o << >> = g
    BY <2>1, ConcatEmptySeq
  <2>4. g \o c \in Seq(Sent)
    BY <2>1, ConcatProperties
  <2>5. Append(g \o c, m) = (g \o c) \o e
    BY <1>1, <2>4, AppendIsConcat
  <2> HIDE DEF e
  <2>6. (g \o c) \o e = g \o (c \o e)
    BY <2>1, ConcatAssociative
  <2>7. QED
    BY <2>2, <2>3, <2>5, <2>6 DEF g, c, e
<1>3. CASE s \in TsSubs /\ \E boundary \in Packets(m) :
             LET given == s \notin fresh \/ boundary
             IN /\ Writes(s, IF given THEN <<m>> ELSE << >>)
                /\ fresh' = IF given THEN fresh \ {s} ELSE fresh
  <2>1. PICK boundary \in Packets(m) :
             LET given == s \notin fresh \/ boundary
             IN /\ Writes(s, IF given THEN <<m>> ELSE << >>)
                /\ fresh' = IF given THEN fresh \ {s} ELSE fresh
    BY <1>3
  <2>2. CASE s \notin fresh \/ boundary
    <3>1. Writes(s, <<m>>) /\ fresh' = fresh \ {s}
      BY <2>1, <2>2
    <3>2. s \notin open => got' = got
      BY <3>1 DEF Writes
    <3>3. s \in open => got' = [got EXCEPT ![s] = Append(got[s], m)]
      BY <1>1, <1>2, <3>1 DEF Writes
    <3>4. s \in fresh => TRUE \in Packets(m)
      <4>1. s \in fresh => boundary = TRUE
        <5>1. Packets(m) \subseteq BOOLEAN \/ boundary = TRUE \/ boundary # TRUE
          OBVIOUS
        <5>2. boundary \in BOOLEAN
          BY <1>1, Disjoint DEF Packets, Stream
        <5>3. QED
          BY <2>2, <5>2
      <4>2. QED
        BY <4>1
    <3>5. QED
      BY <1>3, <3>1, <3>2, <3>3, <3>4 DEF Given, Before
  <2>3. CASE s \in fresh /\ ~ boundary
    <3>1. Writes(s, << >>) /\ fresh' = fresh
      BY <2>1, <2>3
    <3>2. got' = got
      <4>1. s \in open => got' = [got EXCEPT ![s] = got[s]]
        BY <1>1, <1>2, <3>1 DEF Writes
      <4>2. QED
        BY <1>1, <3>1, <4>1 DEF Writes
    <3>3. QED
      BY <1>3, <2>3, <3>1, <3>2 DEF NotGiven
  <2>4. QED
    BY <2>2, <2>3
<1>4. CASE s \in TsSubs /\ m \notin Video /\ UNCHANGED <<got, fresh>>
  BY <1>4 DEF NotGiven
<1>5. CASE /\ s \notin TsSubs
           /\ Writes(s, (IF s \in fresh THEN Cached ELSE << >>) \o <<m>>)
           /\ fresh' = fresh \ {s}
  <2>1. s \notin open => got' = got
    BY <1>5 DEF Writes
  <2>2. s \in open => got' = [got EXCEPT ![s] = Append(Before(s), m)]
    BY <1>1, <1>2, <1>5 DEF Writes, Before
  <2>3. QED
    BY <1>5, <2>1, <2>2 DEF Given
<1>6. QED
  BY <1>3, <1>4, <1>5 DEF writeTo, OnTSPackets

\* One player's turn in a broadcast, and the broadcast's end, while messages come one by one.
TurnOf(s, T) ==
  /\ Forwarding /\ T \subseteq joined /\ s \in T
  /\ bc = {[msg |-> LastMsg, todo |-> T]} /\ bc' = {[msg |-> LastMsg, todo |-> T \ {s}]}
  /\ writeTo(s, LastMsg)
  /\ UNCHANGED <<vars, inputs, input, conn, open, joined, fed>>

LEMMA WritesOne ==
  ASSUME OneBroadcast, broadcastWrites
  PROVE  \E T \in SUBSET joined : \E s \in T : TurnOf(s, T)
<1>0. PICK b \in bc : \E s \in b.todo :
        /\ writeTo(s, b.msg)
        /\ bc' = (bc \ {b}) \cup {[b EXCEPT !.todo = @ \ {s}]}
        /\ UNCHANGED <<vars, inputs, input, conn, open, joined, fed>>
  BY DEF broadcastWrites
<1>1. PICK s \in b.todo :
        /\ writeTo(s, b.msg)
        /\ bc' = (bc \ {b}) \cup {[b EXCEPT !.todo = @ \ {s}]}
        /\ UNCHANGED <<vars, inputs, input, conn, open, joined, fed>>
  BY <1>0
<1>2. Forwarding
  BY DEF OneBroadcast
<1>3. PICK T \in SUBSET joined : bc = {[msg |-> LastMsg, todo |-> T]}
  BY <1>2 DEF Forwarding
<1>4. b = [msg |-> LastMsg, todo |-> T]
  BY <1>3
<1>5. s \in T /\ b.msg = LastMsg /\ [b EXCEPT !.todo = @ \ {s}] = [msg |-> LastMsg, todo |-> T \ {s}]
  <2>1. b.todo = T /\ b.msg = LastMsg
    BY <1>4
  <2>2. [b EXCEPT !.todo = b.todo \ {s}] = [msg |-> LastMsg, todo |-> T \ {s}]
    BY ONLY <1>4
  <2>3. QED
    BY <2>1, <2>2
<1>6. bc' = {[msg |-> LastMsg, todo |-> T \ {s}]}
  BY <1>1, <1>3, <1>4, <1>5
<1>7. QED
  BY <1>1, <1>2, <1>3, <1>5, <1>6 DEF TurnOf

LEMMA FeedsLast ==
  ASSUME OneBroadcast, broadcastFeeds
  PROVE  /\ Forwarding /\ bc = {[msg |-> LastMsg, todo |-> {}]} /\ bc' = {}
         /\ CacheFeed(LastMsg)
         /\ UNCHANGED <<inputs, input, conn, open, joined, fresh, got, fed>>
<1>1. PICK b \in bc :
        /\ b.todo = {} /\ CacheFeed(b.msg) /\ bc' = bc \ {b}
        /\ UNCHANGED <<inputs, input, conn, open, joined, fresh, got, fed>>
  BY DEF broadcastFeeds
<1>2. Forwarding
  BY DEF OneBroadcast
<1>3. PICK T \in SUBSET joined : bc = {[msg |-> LastMsg, todo |-> T]}
  BY <1>2 DEF Forwarding
<1>4. b = [msg |-> LastMsg, todo |-> T]
  BY <1>3
<1>5. T = {} /\ b.msg = LastMsg
  BY <1>1, <1>4
<1>6. QED
  BY <1>1, <1>2, <1>3, <1>4, <1>5

\* A message comes only when none is under way.
LEMMA ComesAlone ==
  ASSUME Locked, OneBroadcast, NEW m, OnMsg(m)
  PROVE  bc = {} /\ bc' = {[msg |-> m, todo |-> joined]}
<1>1. Cardinality(bc) < 1
  BY DEF OnMsg, Feeders
<1>2. bc = {}
  <2>1. CASE Forwarding
    <3>1. PICK T \in SUBSET joined : bc = {[msg |-> LastMsg, todo |-> T]}
      BY <2>1 DEF Forwarding
    <3>2. Cardinality(bc) = 1
      BY <3>1, FS_Singleton
    <3>3. QED
      BY <1>1, <3>2
  <2>2. QED
    BY <2>1 DEF OneBroadcast
<1>3. QED
  BY <1>2 DEF OnMsg

\* What a message does to the cache.
LEMMA CacheFeedIs ==
  ASSUME TypeOK, TypeOK', NEW m \in Stream, CacheFeed(m)
  PROVE  \/ m \in AllHeaders /\ Gops' = Gops /\ header' = [header EXCEPT ![KindOf(m)] = m]
         \/ /\ m \in Keys /\ header' = header
            /\ \/ Gops' = Append(Gops, <<m>>)
               \/ Gops # << >> /\ Gops' = Append(Tail(Gops), <<m>>)
         \/ /\ m \in Msgs /\ header' = header /\ Gops # << >>
            /\ Gops' = [Gops EXCEPT ![Len(Gops)] = Append(@, m)]
         \/ m \in Msgs /\ header' = header /\ Gops' = Gops /\ Gops = << >>
<1>a. Shows(Gops, gopRing, gopRingFirst, gopRingLast)
      /\ gopRingFirst \in Slots /\ gopRingLast \in Slots
  BY GopsShown DEF Shown
<1>1. ASSUME UNCHANGED <<gopRing, gopRingFirst, gopRingLast>> PROVE Gops' = Gops
  BY <1>1 DEF Gops, GetGOPCount, GetGOPDataAt
<1>2. CASE IsHeader(m) /\ FeedHeader(KindOf(m), m)
  BY <1>1, <1>2, Disjoint DEF FeedHeader
<1>3. CASE ~IsHeader(m) /\ FeedMsg(m)
  <2>1. m \in Msgs
    BY <1>3, Disjoint DEF Stream
  <2>2. CASE m \in Keys /\ feedNewGOP(m)
    <3>1. Window!FeedKey(m)
      BY <1>3, <2>2, KeyStep DEF FeedMsg
    <3>2. GopNum # 0 /\ header' = header
      BY <1>3, SizeNat DEF FeedMsg
    <3>3. Gops \in Seq(GopData)
      BY <1>a DEF Shows
    <3>4. Len(Gops) = GopNum => Gops # << >>
      BY <3>2, EmptySeq
    <3>5. QED
      BY <2>2, <3>1, <3>2, <3>4 DEF Window!FeedKey
  <2>3. CASE m \in Others /\ feedLastGOP(m)
    <3>1. Window!FeedOther(m)
      BY <1>3, <2>3, OtherStep DEF FeedMsg
    <3>2. QED
      BY <2>1, <3>1 DEF Window!FeedOther
  <2>4. QED
    BY <1>3, <2>2, <2>3 DEF FeedMsg
<1>4. CASE ~IsHeader(m) /\ (gopSize = 1 \/ (m \in Others /\ isGOPRingEmpty)) /\ UNCHANGED vars
  <2>1. m \in Msgs
    BY <1>4, Disjoint DEF Stream
  <2>2. gopRingFirst = gopRingLast
    <3>1. CASE gopSize = 1
      BY <1>a, <3>1 DEF Slots
    <3>2. QED
      BY <1>4, <3>1 DEF isGOPRingEmpty
  <2>3. Gops = << >>
    <3>1. Len(Gops) = 0 /\ Gops \in Seq(GopData)
      BY <1>a, <2>2, SizeNat DEF Shows, Count, Slots
    <3>2. QED
      BY <3>1, EmptySeq
  <2>4. QED
    BY <1>1, <1>4, <2>1, <2>3 DEF vars
<1>5. QED
  BY <1>2, <1>3, <1>4 DEF CacheFeed

LEMMA EmptyRing ==
  ASSUME TypeOK
  PROVE  isGOPRingEmpty <=> Gops = << >>
<1>1. Shows(Gops, gopRing, gopRingFirst, gopRingLast)
      /\ gopRingFirst \in Slots /\ gopRingLast \in Slots
  BY GopsShown DEF Shown
<1>2. /\ Gops \in Seq(GopData) /\ Len(Gops) = Count(gopRingFirst, gopRingLast)
      /\ gopRingFirst \in 0 .. gopSize - 1 /\ gopRingLast \in 0 .. gopSize - 1
  BY <1>1 DEF Shows, Slots
<1>3. Gops = << >> <=> Len(Gops) = 0
  BY <1>2, EmptySeq
<1>4. Count(gopRingFirst, gopRingLast) = 0 <=> gopRingFirst = gopRingLast
  BY <1>2, SizeNat DEF Count
<1>5. QED
  BY <1>2, <1>3, <1>4 DEF isGOPRingEmpty

-----------------------------------------------------------------------------
(* The types, the broadcast and the sessions are kept.                     *)

LEMMA CacheStill ==
  ASSUME UNCHANGED vars
  PROVE  /\ header' = header /\ (isGOPRingEmpty' <=> isGOPRingEmpty)
         /\ Gops' = Gops /\ (TypeOK => TypeOK')
<1>1. UNCHANGED <<gopRing, gopRingFirst, gopRingLast, header>>
  BY DEF vars
<1>2. TypeOK => TypeOK'
  BY TypeStep
<1>3. Gops' = Gops
  BY <1>1 DEF Gops, GetGOPCount, GetGOPDataAt
<1>4. QED
  BY <1>1, <1>2, <1>3 DEF isGOPRingEmpty

ConnStates == {"none", "request", "joining", "reading", "done"}

LEMMA TypesStill ==
  ASSUME FanTypes, UNCHANGED <<vars, fed>>, conn' \in [Subs -> ConnStates],
         open' \subseteq Subs, joined' \subseteq Subs, got' \in [Subs -> Seq(Sent)]
  PROVE  FanTypes'
<1>1. header' = header /\ TypeOK' /\ fed' = fed
  BY CacheStill DEF FanTypes
<1>2. QED
  BY <1>1 DEF FanTypes, ConnStates, Numbered

LEMMA BroadcastStill ==
  ASSUME OneBroadcast, UNCHANGED <<vars, fed, bc>>, joined \subseteq joined' \/ bc = {}
  PROVE  OneBroadcast'
<1>1. header' = header /\ (isGOPRingEmpty' <=> isGOPRingEmpty) /\ fed' = fed /\ bc' = bc
  BY CacheStill
<1>2. LastMsg' = LastMsg /\ KindOf(LastMsg)' = KindOf(LastMsg) /\ IsHeader(LastMsg)' = IsHeader(LastMsg)
  BY <1>1 DEF LastMsg, KindOf, IsHeader
<1>3. CASE bc = {}
  BY <1>1, <1>3 DEF OneBroadcast
<1>4. CASE bc # {} /\ Forwarding
  <2>1. \E T \in SUBSET joined' : bc = {[msg |-> LastMsg, todo |-> T]}
    BY <1>4 DEF Forwarding
  <2>2. Forwarding'
    BY <1>1, <1>2, <1>4, <2>1 DEF Forwarding
  <2>3. QED
    BY <2>2 DEF OneBroadcast
<1>5. QED
  BY <1>3, <1>4 DEF OneBroadcast

LEMMA SessionStill ==
  ASSUME NEW p, Session(p), got'[p] = got[p], conn'[p] = conn[p],
         p \in joined' <=> p \in joined, p \in open' => p \in open,
         p \in fresh' <=> p \in fresh
  PROVE  Session(p)'
BY DEF Session

\* The players' own steps.
LEMMA AcceptKeeps ==
  ASSUME Base, NEW s \in Subs, Accept(s)
  PROVE  Base'
<1>1. /\ conn[s] = "none" /\ conn' = [conn EXCEPT ![s] = "request"]
      /\ open' = open \cup {s} /\ fresh' = fresh \cup {s}
      /\ UNCHANGED <<vars, inputs, input, joined, got, bc, fed>>
  BY DEF Accept
<1>2. conn' \in [Subs -> ConnStates] /\ conn'[s] = "request"
      /\ \A p \in Subs : p # s => conn'[p] = conn[p]
  BY <1>1 DEF Base, FanTypes, ConnStates
<1>3. FanTypes' /\ OneBroadcast'
  BY <1>1, <1>2, TypesStill, BroadcastStill DEF Base, FanTypes
<1>4. ASSUME NEW p \in Subs PROVE Session(p)'
  <2>1. Session(p)
    BY DEF Base, Sessions
  <2>2. CASE p # s
    BY <1>1, <1>2, <2>1, <2>2, SessionStill
  <2>3. CASE p = s
    <3>1. got[s] = << >> /\ s \notin joined
      BY <1>1, <2>1, <2>3 DEF Session
    <3>2. QED
      BY <1>1, <1>2, <2>3, <3>1 DEF Session
  <2>4. QED
    BY <2>2, <2>3
<1>5. QED
  BY <1>3, <1>4 DEF Base, Sessions

LEMMA FailsKeeps ==
  ASSUME Base, NEW s \in Subs, ReadRequestFails(s)
  PROVE  Base'
<1>1. /\ conn[s] = "request" /\ conn' = [conn EXCEPT ![s] = "done"] /\ open' = open \ {s}
      /\ UNCHANGED <<vars, inputs, input, joined, fresh, got, bc, fed>>
  BY DEF ReadRequestFails
<1>2. conn' \in [Subs -> ConnStates] /\ conn'[s] = "done"
      /\ \A p \in Subs : p # s => conn'[p] = conn[p]
  BY <1>1 DEF Base, FanTypes, ConnStates
<1>3. FanTypes' /\ OneBroadcast'
  BY <1>1, <1>2, TypesStill, BroadcastStill DEF Base, FanTypes
<1>4. ASSUME NEW p \in Subs PROVE Session(p)'
  <2>1. Session(p)
    BY DEF Base, Sessions
  <2>2. CASE p # s
    BY <1>1, <1>2, <2>1, <2>2, SessionStill
  <2>3. CASE p = s
    BY <1>1, <1>2, <2>1, <2>3 DEF Session
  <2>4. QED
    BY <2>2, <2>3
<1>5. QED
  BY <1>3, <1>4 DEF Base, Sessions

LEMMA RequestKeeps ==
  ASSUME Base, NEW s \in Subs, ReadRequest(s)
  PROVE  /\ Base' /\ got[s] = << >> /\ s \notin joined
         /\ \A p \in Subs : p # s => got'[p] = got[p]
         /\ got'[s] = << >> \/ got'[s] = <<Response>>
<1>1. /\ conn[s] = "request" /\ conn' = [conn EXCEPT ![s] = "joining"]
      /\ Writes(s, <<Response>>)
      /\ UNCHANGED <<vars, inputs, input, open, joined, fresh, bc, fed>>
  BY DEF ReadRequest
<1>2. conn' \in [Subs -> ConnStates] /\ conn'[s] = "joining"
      /\ \A p \in Subs : p # s => conn'[p] = conn[p]
  BY <1>1 DEF Base, FanTypes, ConnStates
<1>3. got[s] = << >> /\ s \notin joined /\ s \in fresh
  BY <1>1 DEF Base, Sessions, Session
<1>4. Response \in Sent /\ <<Response>> \in Seq(Sent) /\ got \in [Subs -> Seq(Sent)]
  BY DEF Base, FanTypes, Sent
<1>5. got[s] \o <<Response>> = <<Response>>
  BY <1>3, <1>4, ConcatEmptySeq
<1>6. /\ s \in open => got' = [got EXCEPT ![s] = <<Response>>]
      /\ s \notin open => got' = got
  BY <1>1, <1>4, <1>5 DEF Writes
<1>7. /\ got' \in [Subs -> Seq(Sent)] /\ \A p \in Subs : p # s => got'[p] = got[p]
      /\ s \in open => got'[s] = <<Response>>
      /\ s \notin open => got'[s] = << >>
  BY <1>3, <1>4, <1>6
<1>8. FanTypes' /\ OneBroadcast'
  BY <1>1, <1>2, <1>7, TypesStill, BroadcastStill DEF Base, FanTypes
<1>9. ASSUME NEW p \in Subs PROVE Session(p)'
  <2>1. Session(p)
    BY DEF Base, Sessions
  <2>2. CASE p # s
    BY <1>1, <1>2, <1>7, <2>1, <2>2, SessionStill
  <2>3. CASE p = s /\ s \in open
    <3>1. got'[p] = <<Response>> /\ Len(<<Response>>) = 1 /\ <<Response>> # << >>
          /\ DOMAIN <<Response>> = {1} /\ <<Response>>[1] = Response
      BY <1>7, <2>3
    <3>2. QED
      BY <1>1, <1>2, <1>3, <2>3, <3>1 DEF Session
  <2>4. CASE p = s /\ s \notin open
    BY <1>1, <1>2, <1>3, <1>7, <2>4 DEF Session
  <2>5. QED
    BY <2>2, <2>3, <2>4
<1>10. QED
  BY <1>3, <1>7, <1>8, <1>9 DEF Base, Sessions

LEMMA AddKeeps ==
  ASSUME Base, NEW s \in Subs, AddSubSession(s)
  PROVE  Base'
<1>1. /\ conn[s] = "joining" /\ conn' = [conn EXCEPT ![s] = "reading"]
      /\ joined' = joined \cup {s}
      /\ UNCHANGED <<vars, inputs, input, open, fresh, got, bc, fed>>
  BY DEF AddSubSession
<1>2. conn' \in [Subs -> ConnStates] /\ conn'[s] = "reading"
      /\ \A p \in Subs : p # s => conn'[p] = conn[p]
  BY <1>1 DEF Base, FanTypes, ConnStates
<1>3. FanTypes' /\ OneBroadcast'
  BY <1>1, <1>2, TypesStill, BroadcastStill DEF Base, FanTypes
<1>4. ASSUME NEW p \in Subs PROVE Session(p)'
  <2>1. Session(p)
    BY DEF Base, Sessions
  <2>2. CASE p # s
    BY <1>1, <1>2, <2>1, <2>2, SessionStill
  <2>3. CASE p = s
    BY <1>1, <1>2, <2>1, <2>3 DEF Session
  <2>4. QED
    BY <2>2, <2>3
<1>5. QED
  BY <1>3, <1>4 DEF Base, Sessions

LEMMA ClosesKeeps ==
  ASSUME Base, NEW s \in Subs, Closes(s)
  PROVE  Base'
<1>1. open' = open \ {s} /\ UNCHANGED <<vars, inputs, input, conn, joined, fresh, got, bc, fed>>
  BY DEF Closes
<1>2. FanTypes' /\ OneBroadcast'
  BY <1>1, TypesStill, BroadcastStill DEF Base, FanTypes, ConnStates
<1>3. ASSUME NEW p \in Subs PROVE Session(p)'
  BY <1>1, SessionStill DEF Base, Sessions
<1>4. QED
  BY <1>2, <1>3 DEF Base, Sessions

LEMMA DelKeeps ==
  ASSUME Locked, Base, NEW s \in Subs, DelSubSession(s)
  PROVE  Base'
<1>1. /\ conn[s] = "reading" /\ conn' = [conn EXCEPT ![s] = "done"]
      /\ joined' = joined \ {s} /\ bc = {}
      /\ UNCHANGED <<vars, inputs, input, open, fresh, got, bc, fed>>
  BY DEF DelSubSession, MutexFree
<1>2. conn' \in [Subs -> ConnStates] /\ conn'[s] = "done"
      /\ \A p \in Subs : p # s => conn'[p] = conn[p]
  BY <1>1 DEF Base, FanTypes, ConnStates
<1>3. FanTypes' /\ OneBroadcast'
  BY <1>1, <1>2, TypesStill, BroadcastStill DEF Base, FanTypes
<1>4. ASSUME NEW p \in Subs PROVE Session(p)'
  <2>1. Session(p)
    BY DEF Base, Sessions
  <2>2. CASE p # s
    BY <1>1, <1>2, <2>1, <2>2, SessionStill
  <2>3. CASE p = s
    BY <1>1, <1>2, <2>1, <2>3 DEF Session
  <2>4. QED
    BY <2>2, <2>3
<1>5. QED
  BY <1>3, <1>4 DEF Base, Sessions

\* The input's.
LEMMA QuietKeeps ==
  ASSUME Base, addIn \/ UNCHANGED allVars
  PROVE  Base'
<1>1. UNCHANGED <<vars, conn, open, joined, fresh, got, bc, fed>>
  BY DEF addIn, allVars, fanVars
<1>2. FanTypes' /\ OneBroadcast'
  BY <1>1, TypesStill, BroadcastStill DEF Base, FanTypes, ConnStates
<1>3. ASSUME NEW p \in Subs PROVE Session(p)'
  BY <1>1, SessionStill DEF Base, Sessions
<1>4. QED
  BY <1>2, <1>3 DEF Base, Sessions

LEMMA ClearEmpties ==
  ASSUME TypeOK, Clear
  PROVE  TypeOK' /\ Gops' = << >> /\ \A k \in HeaderKinds : header'[k] = None
<1>1. TypeOK'
  BY TypeStep DEF Next
<1>2. Shows(Gops', gopRing', 0, 0)
  BY <1>1, GopsShownNext DEF Clear, Shown
<1>3. QED
  BY <1>1, <1>2, EmptyShows DEF Clear

LEMMA DelInKeeps ==
  ASSUME Locked, Base, delIn
  PROVE  Base' /\ bc = {} /\ Clear /\ UNCHANGED <<conn, open, joined, fresh, got, bc, fed>>
<1>1. bc = {} /\ Clear /\ UNCHANGED <<conn, open, joined, fresh, got, bc, fed>>
  BY DEF delIn, MutexFree
<1>2. TypeOK' /\ \A k \in HeaderKinds : header'[k] = None
  BY <1>1, ClearEmpties DEF Base, FanTypes
<1>3. FanTypes' /\ OneBroadcast'
  BY <1>1, <1>2 DEF Base, FanTypes, OneBroadcast, Numbered
<1>4. ASSUME NEW p \in Subs PROVE Session(p)'
  BY <1>1, SessionStill DEF Base, Sessions
<1>5. QED
  BY <1>1, <1>3, <1>4 DEF Base, Sessions

LEMMA MsgKeeps ==
  ASSUME Locked, Base, NEW m \in Stream, OnMsg(m)
  PROVE  /\ Base' /\ bc = {} /\ bc' = {[msg |-> m, todo |-> joined]}
         /\ fed' = Append(fed, [msg |-> m, header |-> header])
         /\ [msg |-> m, header |-> header] \in FedSet
         /\ Len(fed') = Len(fed) + 1 /\ LastMsg' = m
         /\ \A i \in 1 .. Len(fed) : fed'[i] = fed[i]
         /\ UNCHANGED <<vars, conn, open, joined, fresh, got>>
<1>1. bc = {} /\ bc' = {[msg |-> m, todo |-> joined]}
  BY ComesAlone DEF Base
<1>2. /\ fed' = Append(fed, [msg |-> m, header |-> header]) /\ Sendable(m)
      /\ UNCHANGED <<vars, conn, open, joined, fresh, got>>
  BY DEF OnMsg
<1> DEFINE x == [msg |-> m, header |-> header]
<1>3. x \in FedSet
  <2>1. header \in [HeaderKinds -> {None} \cup AllHeaders]
    BY DEF Base, FanTypes, TypeOK, AllHeaders
  <2>2. QED
    BY <2>1 DEF FedSet
<1>4. /\ fed' \in Seq(FedSet) /\ Len(fed') = Len(fed) + 1 /\ fed'[Len(fed) + 1] = x
      /\ \A i \in 1 .. Len(fed) : fed'[i] = fed[i]
      /\ Len(fed) \in Nat /\ DOMAIN fed = 1 .. Len(fed) /\ DOMAIN fed' = 1 .. Len(fed) + 1
      /\ fed' # << >>
  <2>1. fed \in Seq(FedSet)
    BY DEF Base, FanTypes
  <2> HIDE DEF x
  <2>2. fed' = Append(fed, x)
    BY <1>2 DEF x
  <2>3. QED
    BY <1>3, <2>1, <2>2, AppendProperties, LenProperties
<1>5. x.msg = m /\ x.header = header
  OBVIOUS
<1> HIDE DEF x
<1>6. LastMsg' = m
  BY <1>4, <1>5 DEF LastMsg
<1>7. header' = header /\ (isGOPRingEmpty' <=> isGOPRingEmpty) /\ TypeOK'
  BY <1>2, CacheStill DEF Base, FanTypes
<1>8. Numbered(fed')
  <2>1. m[2] = Len(fed) + 1
    BY <1>2 DEF Sendable
  <2>2. \A i \in DOMAIN fed : fed[i].msg[2] = i
    BY DEF Base, FanTypes, Numbered
  <2>3. \A i \in DOMAIN fed' : i \in DOMAIN fed \/ i = Len(fed) + 1
    BY <1>4
  <2>4. \A i \in DOMAIN fed' : fed'[i].msg[2] = i
    <3> TAKE i \in DOMAIN fed'
    <3>1. CASE i \in DOMAIN fed
      BY <1>4, <2>2, <3>1
    <3>2. CASE i = Len(fed) + 1
      BY <1>4, <1>5, <2>1, <3>2
    <3>3. QED
      BY <2>3, <3>1, <3>2
  <2>5. Len(fed') \in Nat /\ DOMAIN fed' = 1 .. Len(fed')
    BY <1>4
  <2>6. QED
    BY <2>4, <2>5 DEF Numbered
<1>9. FanTypes'
  <2>1. Numbered(fed)'
    BY <1>8
  <2>2. QED
    BY <1>2, <1>4, <1>7, <2>1 DEF Base, FanTypes
<1>10. Forwarding'
  <2>1. fed'[Len(fed')] = x
    BY <1>4
  <2>2. /\ IsHeader(m) /\ ~HeadersChange => header[KindOf(m)] = None
        /\ m \in Video => header[VideoHeader] # None
        /\ m \in Video \ Keys => ~isGOPRingEmpty
    BY <1>2 DEF Sendable
  <2>3. fed'[Len(fed')].header = header'
    BY <1>5, <1>7, <2>1
  <2>4. \E T \in SUBSET joined' : bc' = {[msg |-> LastMsg', todo |-> T]}
    BY <1>1, <1>2, <1>6
  <2>5. /\ LastMsg' \in Video => header'[VideoHeader] # None
        /\ LastMsg' \in Video \ Keys => ~isGOPRingEmpty'
        /\ IsHeader(LastMsg') /\ ~HeadersChange => header'[KindOf(LastMsg')] = None
    BY <1>6, <1>7, <2>2
  <2>6. IsHeader(LastMsg') = IsHeader(LastMsg)' /\ KindOf(LastMsg') = KindOf(LastMsg)'
    BY DEF IsHeader, KindOf
  <2>7. QED
    BY <1>4, <2>3, <2>4, <2>5, <2>6 DEF Forwarding
<1>11. ASSUME NEW p \in Subs PROVE Session(p)'
  BY <1>2, SessionStill DEF Base, Sessions
<1>12. QED
  BY <1>1, <1>2, <1>3, <1>4, <1>6, <1>9, <1>10, <1>11 DEF Base, Sessions, OneBroadcast, x

\* A turn of a player in the group.
LEMMA BeforeType ==
  ASSUME FanTypes, NEW s \in Subs
  PROVE  /\ Before(s) \in Seq(Sent) /\ Len(got[s]) <= Len(Before(s))
         /\ \A i \in DOMAIN got[s] : i \in DOMAIN Before(s) /\ Before(s)[i] = got[s][i]
         /\ \A i \in DOMAIN Before(s) : i \notin DOMAIN got[s] => Before(s)[i] \in Stream
<1> DEFINE g == got[s]
           c == Cached
<1>1. g \in Seq(Sent) /\ c \in Seq(Stream) /\ c \in Seq(Sent)
  <2>1. Stream \subseteq Sent
    BY DEF Sent
  <2>2. QED
    BY <2>1, CachedType, SeqMonotonic DEF FanTypes
<1>2. /\ Len(g) \in Nat /\ Len(c) \in Nat /\ DOMAIN g = 1 .. Len(g) /\ DOMAIN c = 1 .. Len(c)
      /\ \A i \in 1 .. Len(c) : c[i] \in Stream
  BY <1>1, LenProperties, ElementOfSeq
<1>3. Before(s) = g \/ Before(s) = g \o c
  BY DEF Before
<1> HIDE DEF g, c
<1>4. CASE Before(s) = g
  BY <1>1, <1>2, <1>4 DEF g
<1>5. CASE Before(s) = g \o c
  <2> DEFINE b == g \o c
  <2>1. /\ b \in Seq(Sent) /\ Len(b) = Len(g) + Len(c)
        /\ \A i \in 1 .. Len(g) + Len(c) : b[i] = IF i <= Len(g) THEN g[i] ELSE c[i - Len(g)]
    BY <1>1, ConcatProperties
  <2>2. DOMAIN b = 1 .. Len(g) + Len(c)
    BY <2>1, LenProperties
  <2> HIDE DEF b
  <2>3. \A i \in DOMAIN g : i \in DOMAIN b /\ b[i] = g[i]
    BY <1>2, <2>1, <2>2
  <2>4. ASSUME NEW i \in DOMAIN b, i \notin DOMAIN g PROVE b[i] \in Stream
    <3>1. ~ (i <= Len(g)) /\ i - Len(g) \in 1 .. Len(c)
      BY <1>2, <2>2, <2>4
    <3>2. b[i] = c[i - Len(g)]
      BY <2>1, <2>2, <3>1
    <3>3. QED
      BY <1>2, <3>1, <3>2
  <2>5. QED
    BY <1>2, <1>5, <2>1, <2>3, <2>4 DEF b, g
<1>6. QED
  BY <1>3, <1>4, <1>5

LEMMA LastMsgIs ==
  ASSUME FanTypes, fed # << >>
  PROVE  /\ Len(fed) \in Nat \ {0} /\ Len(fed) \in DOMAIN fed /\ DOMAIN fed = 1 .. Len(fed)
         /\ LastMsg \in Stream /\ LastMsg[2] = Len(fed) /\ fed[Len(fed)].msg = LastMsg
<1>1. fed \in Seq(FedSet) /\ Numbered(fed)
  BY DEF FanTypes
<1>2. Len(fed) \in Nat \ {0} /\ DOMAIN fed = 1 .. Len(fed)
  BY <1>1, EmptySeq, LenProperties
<1>3. Len(fed) \in DOMAIN fed /\ fed[Len(fed)] \in FedSet
  BY <1>1, <1>2, ElementOfSeq
<1>4. QED
  BY <1>1, <1>2, <1>3 DEF LastMsg, FedSet, Numbered

LEMMA TurnKeeps ==
  ASSUME Base, NEW T, NEW s \in T, TurnOf(s, T)
  PROVE  /\ Base' /\ s \in joined /\ s \in Subs
         /\ \A p \in Subs : p # s => got'[p] = got[p] /\ (p \in fresh' <=> p \in fresh)
         /\ s \notin open => got'[s] = got[s]
         /\ s \in open => \/ Given(s, LastMsg) /\ got'[s] = Append(Before(s), LastMsg)
                          \/ NotGiven(s, LastMsg)
<1>1. /\ Forwarding /\ T \subseteq joined /\ s \in joined
      /\ bc = {[msg |-> LastMsg, todo |-> T]} /\ bc' = {[msg |-> LastMsg, todo |-> T \ {s}]}
      /\ writeTo(s, LastMsg)
      /\ UNCHANGED <<vars, conn, open, joined, fed>>
  BY DEF TurnOf
<1>2. FanTypes /\ s \in Subs /\ got \in [Subs -> Seq(Sent)]
  BY <1>1 DEF Base, FanTypes
<1>3. LastMsg \in Stream /\ LastMsg \in Sent /\ LastMsg # Response
  <2>1. LastMsg \in Stream
    BY <1>1, <1>2, LastMsgIs DEF Forwarding
  <2>2. QED
    BY <2>1, Disjoint DEF Sent
<1>4. /\ s \notin open => got' = got /\ fresh \ {s} \subseteq fresh' /\ fresh' \subseteq fresh
      /\ s \in open => Given(s, LastMsg) \/ NotGiven(s, LastMsg)
  BY <1>1, <1>2, <1>3, Turn
<1> DEFINE h == Append(Before(s), LastMsg)
<1>5. /\ Before(s) \in Seq(Sent) /\ h \in Seq(Sent) /\ Len(h) = Len(Before(s)) + 1
      /\ h[Len(Before(s)) + 1] = LastMsg /\ \A i \in 1 .. Len(Before(s)) : h[i] = Before(s)[i]
      /\ DOMAIN h = 1 .. Len(Before(s)) + 1 /\ Len(Before(s)) \in Nat
      /\ DOMAIN Before(s) = 1 .. Len(Before(s))
  BY <1>2, <1>3, BeforeType, AppendProperties, LenProperties
<1> HIDE DEF h
<1>6. /\ Given(s, LastMsg) => got' = [got EXCEPT ![s] = h] /\ fresh' = fresh \ {s}
      /\ NotGiven(s, LastMsg) => got' = got /\ fresh' = fresh
  BY DEF Given, NotGiven, h
<1>7. /\ got' \in [Subs -> Seq(Sent)]
      /\ \A p \in Subs : p # s => got'[p] = got[p] /\ (p \in fresh' <=> p \in fresh)
      /\ s \notin open => got'[s] = got[s]
      /\ s \in open => \/ Given(s, LastMsg) /\ got'[s] = h
                       \/ NotGiven(s, LastMsg)
  BY <1>2, <1>4, <1>5, <1>6
<1>8. FanTypes'
  BY <1>1, <1>2, <1>7, TypesStill DEF FanTypes, ConnStates
<1>9. OneBroadcast'
  <2>1. header' = header /\ (isGOPRingEmpty' <=> isGOPRingEmpty) /\ fed' = fed
    BY <1>1, CacheStill
  <2>2. LastMsg' = LastMsg /\ KindOf(LastMsg)' = KindOf(LastMsg) /\ IsHeader(LastMsg)' = IsHeader(LastMsg)
    BY <2>1 DEF LastMsg, KindOf, IsHeader
  <2>3. \E U \in SUBSET joined' : bc' = {[msg |-> LastMsg', todo |-> U]}
    <3>1. T \ {s} \in SUBSET joined'
      BY <1>1
    <3>2. QED
      BY <1>1, <2>2, <3>1
  <2>4. Forwarding'
    BY <1>1, <2>1, <2>2, <2>3 DEF Forwarding
  <2>5. QED
    BY <2>4 DEF OneBroadcast
<1>10. ASSUME NEW p \in Subs PROVE Session(p)'
  <2>1. Session(p)
    BY DEF Base, Sessions
  <2>2. CASE p # s
    BY <1>1, <1>7, <2>1, <2>2, SessionStill
  <2>3. CASE p = s /\ got'[p] = got[p]
    <3>1. conn[p] = "reading" /\ (s \notin open => fresh' \subseteq fresh)
      BY <1>1, <1>4, <2>1, <2>3 DEF Session
    <3>2. fresh' \subseteq fresh
      BY <1>4, <1>6, <3>1
    <3>3. QED
      BY <1>1, <2>1, <2>3, <3>1, <3>2 DEF Session
  <2>4. CASE p = s /\ s \in open /\ Given(s, LastMsg) /\ got'[s] = h
    <3>1. conn[p] = "reading" /\ got[p] # << >> /\ p \notin fresh'
          /\ \A i \in DOMAIN got[p] : i = 1 <=> got[p][i] = Response
      BY <1>1, <1>6, <2>1, <2>4 DEF Session
    <3>2. got[p] \in Seq(Sent) /\ 1 \in DOMAIN got[p]
      <4>1. got[p] \in Seq(Sent)
        BY <1>2
      <4>2. QED
        BY <3>1, <4>1, EmptySeq, LenProperties
    <3>3. \A i \in DOMAIN Before(s) : i = 1 <=> Before(s)[i] = Response
      <4> TAKE i \in DOMAIN Before(s)
      <4>1. CASE i \in DOMAIN got[s]
        BY <1>2, <2>4, <3>1, <4>1, BeforeType
      <4>2. CASE i \notin DOMAIN got[s]
        BY <1>2, <2>4, <3>2, <4>2, BeforeType, Disjoint
      <4>3. QED
        BY <4>1, <4>2
    <3>4. 1 \in DOMAIN Before(s)
      BY <1>2, <2>4, <3>2, BeforeType
    <3>5. \A i \in DOMAIN h : i = 1 <=> h[i] = Response
      <4> TAKE i \in DOMAIN h
      <4>1. CASE i \in DOMAIN Before(s)
        BY <1>5, <3>3, <4>1
      <4>2. CASE i \notin DOMAIN Before(s)
        <5>1. i = Len(Before(s)) + 1 /\ i # 1
          BY <1>5, <3>4, <4>2
        <5>2. QED
          BY <1>3, <1>5, <5>1
      <4>3. QED
        BY <4>1, <4>2
    <3>6. h # << >>
      BY <1>5, EmptySeq
    <3>7. QED
      BY <1>1, <2>1, <2>4, <3>1, <3>5, <3>6 DEF Session
  <2>5. CASE p = s /\ s \in open /\ NotGiven(s, LastMsg)
    BY <1>1, <1>6, <2>1, <2>5, SessionStill
  <2>6. QED
    BY <1>7, <2>2, <2>3, <2>4, <2>5
<1>11. QED
  BY <1>1, <1>2, <1>7, <1>8, <1>9, <1>10 DEF Base, Sessions, h

\* The end of a broadcast.
LEMMA FeedKeeps ==
  ASSUME Base, broadcastFeeds
  PROVE  /\ Base' /\ Forwarding /\ bc' = {} /\ CacheFeed(LastMsg) /\ LastMsg \in Stream
         /\ bc = {[msg |-> LastMsg, todo |-> {}]}
         /\ UNCHANGED <<conn, open, joined, fresh, got, fed>>
<1>1. /\ Forwarding /\ bc = {[msg |-> LastMsg, todo |-> {}]} /\ bc' = {} /\ CacheFeed(LastMsg)
      /\ UNCHANGED <<conn, open, joined, fresh, got, fed>>
  BY FeedsLast DEF Base
<1> DEFINE m == LastMsg
<1>2. m \in Stream
  BY <1>1, LastMsgIs DEF Base, Forwarding
<1> HIDE DEF m
<1>3. [Next]_vars
  <2>1. CASE IsHeader(m) /\ FeedHeader(KindOf(m), m)
    BY <2>1, Disjoint DEF Next
  <2>2. CASE ~IsHeader(m) /\ FeedMsg(m)
    <3>1. m \in Msgs
      BY <1>2, <2>2, Disjoint DEF Stream
    <3>2. QED
      BY <2>2, <3>1 DEF Next
  <2>3. QED
    BY <1>1, <2>1, <2>2 DEF CacheFeed, m
<1>4. TypeOK'
  BY <1>3, TypeStep DEF Base, FanTypes
<1>5. \A k \in HeaderKinds : header'[k] \in {None} \cup Headers[k]
  <2>1. header' = header \/ (m \in AllHeaders /\ header' = [header EXCEPT ![KindOf(m)] = m])
    BY <1>1, <1>2, <1>4, CacheFeedIs DEF Base, FanTypes, m
  <2>2. CASE header' = header
    BY <2>2 DEF Base, FanTypes
  <2>3. CASE m \in AllHeaders /\ header' = [header EXCEPT ![KindOf(m)] = m]
    <3>1. KindOf(m) \in HeaderKinds /\ m \in Headers[KindOf(m)]
      BY <2>3, Disjoint
    <3>2. header \in [HeaderKinds -> {None} \cup AllHeaders]
      BY DEF Base, FanTypes, TypeOK, AllHeaders
    <3>3. QED
      BY <2>3, <3>1, <3>2 DEF Base, FanTypes
  <2>4. QED
    BY <2>1, <2>2, <2>3
<1>6. FanTypes' /\ OneBroadcast'
  BY <1>1, <1>4, <1>5 DEF Base, FanTypes, OneBroadcast, Numbered
<1>7. ASSUME NEW p \in Subs PROVE Session(p)'
  BY <1>1, SessionStill DEF Base, Sessions
<1>8. QED
  BY <1>1, <1>2, <1>6, <1>7 DEF Base, Sessions, m

LEMMA BaseInit == FanInit => Base
<1> SUFFICES ASSUME FanInit PROVE Base
  OBVIOUS
<1>1. /\ Init /\ conn = [s \in Subs |-> "none"] /\ open = {} /\ joined = {} /\ fresh = {}
      /\ got = [s \in Subs |-> << >>] /\ bc = {} /\ fed = << >>
  BY DEF FanInit
<1>2. TypeOK /\ \A k \in HeaderKinds : header[k] = None
  BY <1>1, TypeInit DEF Init
<1>3. fed \in Seq(FedSet) /\ Numbered(fed)
  BY <1>1, EmptySeq DEF Numbered
<1>4. << >> \in Seq(Sent) /\ DOMAIN << >> = {} /\ Len(<< >>) = 0
  BY EmptySeq
<1>5. FanTypes
  BY <1>1, <1>2, <1>3, <1>4 DEF FanTypes
<1>6. Sessions
  BY <1>1, <1>4 DEF Sessions, Session
<1>7. QED
  BY <1>1, <1>5, <1>6 DEF Base, OneBroadcast

-----------------------------------------------------------------------------
(* Each message once.                                                      *)

\* How much of the stream the cache has been fed, and a player has been given.
Kept == IF bc = {} THEN Len(fed) ELSE Len(fed) - 1
Waits(s) == \E b \in bc : s \in b.todo
Served(s) == IF Waits(s) THEN Len(fed) - 1 ELSE Len(fed)

Flat == FlattenSeq(Gops)

CacheWhole ==
  /\ \A i \in DOMAIN Gops : Gops[i] # << >> /\ Gops[i][1] \in Keys
  /\ Whole(Flat, Msgs, fed) /\ UpTo(Flat, Msgs, fed, Kept)

PlayerWhole(s) ==
  /\ Whole(got[s], Wanted(s), fed)
  /\ s \in joined /\ s \in open => UpTo(got[s], Wanted(s), fed, Served(s))

WholeInv == CacheWhole /\ \A s \in Subs : PlayerWhole(s)

LEMMA NothingWanted ==
  ASSUME NEW g, NEW W, NEW F, NEW N, \A i \in DOMAIN g : g[i] \notin W
  PROVE  Whole(g, W, F) /\ UpTo(g, W, F, N)
BY DEF Whole, Faithful, InOrder, NoGap, UpTo

\* A player that is fresh has nothing yet.
LEMMA NothingYet ==
  ASSUME FanTypes, NEW s \in Subs, Session(s), Len(got[s]) <= 1
  PROVE  /\ \A i \in DOMAIN got[s] : got[s][i] = Response
         /\ \A i \in DOMAIN got[s] : got[s][i] \notin Wanted(s)
<1>1. got[s] \in Seq(Sent)
  BY DEF FanTypes
<1>2. \A i \in DOMAIN got[s] : i = 1
  BY <1>1, LenProperties
<1>3. \A i \in DOMAIN got[s] : got[s][i] = Response
  BY <1>2 DEF Session
<1>4. Response \notin Wanted(s)
  BY WantedIs, Disjoint DEF Stream
<1>5. QED
  BY <1>3, <1>4

LEMMA SkipNext ==
  ASSUME NEW g, NEW W, NEW F, NEW N \in Nat, Numbered(F), Faithful(g, W, F),
         UpTo(g, W, F, N), F[N + 1].msg \notin W
  PROVE  UpTo(g, W, F, N + 1)
<1> SUFFICES ASSUME NEW i \in DOMAIN g, g[i] \in W
             PROVE  /\ g[i][2] <= N + 1
                    /\ \A n \in g[i][2] .. N + 1 : F[n].msg \in W => Has(g, F[n].msg)
  BY DEF UpTo
<1>1. g[i][2] \in Nat /\ g[i][2] <= N
  BY DEF Faithful, UpTo, Numbered
<1>2. \A n \in g[i][2] .. N + 1 : n \in g[i][2] .. N \/ n = N + 1
  BY <1>1
<1>3. \A n \in g[i][2] .. N : F[n].msg \in W => Has(g, F[n].msg)
  BY DEF UpTo
<1>4. QED
  BY <1>1, <1>2, <1>3

LEMMA PlayerStill ==
  ASSUME NEW p, PlayerWhole(p), got'[p] = got[p], fed' = fed, bc' = bc,
         p \in joined' /\ p \in open' => p \in joined /\ p \in open
  PROVE  PlayerWhole(p)'
<1>1. Wanted(p)' = Wanted(p) /\ Served(p)' = Served(p)
  BY DEF Wanted, Served, Waits
<1>2. Whole(got[p], Wanted(p), fed)'
  BY <1>1 DEF PlayerWhole
<1>3. p \in joined' /\ p \in open' => UpTo(got[p], Wanted(p), fed, Served(p))'
  BY <1>1 DEF PlayerWhole
<1>4. QED
  BY <1>2, <1>3 DEF PlayerWhole

LEMMA CacheWholeStill ==
  ASSUME CacheWhole, UNCHANGED vars, fed' = fed, bc' = bc \/ (bc # {} /\ bc' # {})
  PROVE  CacheWhole'
<1>1. Gops' = Gops /\ Flat' = Flat /\ Kept' = Kept
  BY CacheStill DEF Kept, Flat
<1>2. QED
  BY <1>1 DEF CacheWhole

\* Steps of the players' sessions, and an input that comes.
LEMMA SessionsKeepWhole ==
  ASSUME Base, WholeInv,
         \/ \E s \in Subs : \/ Accept(s) \/ ReadRequestFails(s) \/ AddSubSession(s)
                            \/ Closes(s) \/ DelSubSession(s)
         \/ addIn \/ UNCHANGED allVars
  PROVE  WholeInv'
<1>1. UNCHANGED <<vars, got, bc, fed>>
  BY DEF Accept, ReadRequestFails, AddSubSession, Closes, DelSubSession, addIn, allVars, fanVars
<1>2. CacheWhole'
  BY <1>1, CacheWholeStill DEF WholeInv
<1>3. ASSUME NEW p \in Subs PROVE PlayerWhole(p)'
  <2>1. PlayerWhole(p) /\ Session(p)
    BY DEF WholeInv, Base, Sessions
  <2>2. CASE p \in joined' /\ p \in open' => p \in joined /\ p \in open
    BY <1>1, <2>1, <2>2, PlayerStill
  <2>3. CASE p \in joined' /\ p \in open' /\ ~ (p \in joined /\ p \in open)
    <3>1. p \in fresh /\ Len(got[p]) <= 1
      <4>1. \/ conn[p] = "none" /\ p \notin joined /\ joined' = joined
            \/ conn[p] = "joining"
        BY <2>1, <2>3 DEF Accept, ReadRequestFails, AddSubSession, Closes, DelSubSession, addIn,
                          allVars, fanVars, Session
      <4>2. conn[p] = "joining"
        BY <2>3, <4>1
      <4>3. QED
        BY <2>1, <4>2 DEF Session
    <3>2. \A i \in DOMAIN got[p] : got[p][i] \notin Wanted(p)
      BY <2>1, <3>1, NothingYet DEF Base
    <3>3. got'[p] = got[p] /\ Wanted(p)' = Wanted(p)
      BY <1>1 DEF Wanted
    <3>4. \A i \in DOMAIN got'[p] : got'[p][i] \notin Wanted(p)'
      BY <3>2, <3>3
    <3>5. QED
      BY <3>4, NothingWanted DEF PlayerWhole
  <2>4. QED
    BY <2>2, <2>3
<1>4. QED
  BY <1>2, <1>3 DEF WholeInv

LEMMA RequestKeepsWhole ==
  ASSUME Base, WholeInv, NEW s \in Subs, ReadRequest(s)
  PROVE  WholeInv'
<1>1. /\ Base' /\ s \notin joined
      /\ \A p \in Subs : p # s => got'[p] = got[p]
      /\ got'[s] = << >> \/ got'[s] = <<Response>>
  BY RequestKeeps
<1>2. UNCHANGED <<vars, open, joined, bc, fed>>
  BY DEF ReadRequest
<1>3. CacheWhole'
  BY <1>2, CacheWholeStill DEF WholeInv
<1>4. ASSUME NEW p \in Subs, p # s PROVE PlayerWhole(p)'
  BY <1>1, <1>2, <1>4, PlayerStill DEF WholeInv
<1>5. PlayerWhole(s)'
  <2>1. Response \notin Wanted(s)'
    BY WantedIs, Disjoint DEF Stream, Wanted
  <2>2. \A i \in DOMAIN got'[s] : got'[s][i] \notin Wanted(s)'
    BY <1>1, <2>1
  <2>3. QED
    BY <2>2, NothingWanted DEF PlayerWhole
<1>6. QED
  BY <1>3, <1>4, <1>5 DEF WholeInv

LEMMA DelInKeepsWhole ==
  ASSUME Locked, Base, WholeInv, delIn
  PROVE  WholeInv'
<1>1. Clear /\ UNCHANGED <<conn, open, joined, fresh, got, bc, fed>>
  BY DelInKeeps
<1>2. Gops' = << >>
  BY <1>1, ClearEmpties DEF Base, FanTypes
<1>3. Flat' = << >> /\ DOMAIN << >> = {}
  BY <1>2, FlatEmpty, EmptySeq DEF Flat
<1>4. CacheWhole'
  BY <1>2, <1>3, NothingWanted DEF CacheWhole
<1>5. ASSUME NEW p \in Subs PROVE PlayerWhole(p)'
  BY <1>1, PlayerStill DEF WholeInv
<1>6. QED
  BY <1>4, <1>5 DEF WholeInv

LEMMA MsgKeepsWhole ==
  ASSUME Locked, Base, WholeInv, NEW m \in Stream, OnMsg(m)
  PROVE  WholeInv'
<1> DEFINE x == [msg |-> m, header |-> header]
<1>1. /\ bc = {} /\ bc' = {[msg |-> m, todo |-> joined]}
      /\ fed' = Append(fed, x) /\ x \in FedSet /\ Len(fed') = Len(fed) + 1
      /\ UNCHANGED <<vars, conn, open, joined, fresh, got>>
  BY MsgKeeps
<1>2. fed \in Seq(FedSet) /\ Numbered(fed) /\ Len(fed) \in Nat
  BY LenProperties DEF Base, FanTypes
<1> HIDE DEF x
<1>3. Kept = Len(fed) /\ Kept' = Len(fed)
  <2>1. bc' # {} /\ (Len(fed) + 1) - 1 = Len(fed)
    BY <1>1, <1>2
  <2>2. QED
    BY <1>1, <2>1 DEF Kept
<1>4. CacheWhole'
  <2>1. Gops' = Gops /\ Flat' = Flat
    BY <1>1, CacheStill DEF Flat
  <2>2. Whole(Flat, Msgs, fed) /\ UpTo(Flat, Msgs, fed, Len(fed))
    BY <1>3 DEF WholeInv, CacheWhole
  <2>3. Whole(Flat, Msgs, fed') /\ UpTo(Flat, Msgs, fed', Len(fed))
    BY <1>1, <1>2, <2>2, StreamGrows
  <2>4. QED
    BY <1>3, <2>1, <2>3 DEF WholeInv, CacheWhole
<1>5. ASSUME NEW p \in Subs PROVE PlayerWhole(p)'
  <2>1. PlayerWhole(p) /\ Wanted(p)' = Wanted(p) /\ got'[p] = got[p]
    BY <1>1 DEF WholeInv, Wanted
  <2>2. Whole(got[p], Wanted(p), fed')
    BY <1>1, <1>2, <2>1, StreamGrows DEF PlayerWhole
  <2>3. ASSUME p \in joined', p \in open' PROVE UpTo(got'[p], Wanted(p), fed', Served(p)')
    <3>1. ~ Waits(p)
      BY <1>1 DEF Waits
    <3>2. Waits(p)'
      <4>1. p \in [msg |-> m, todo |-> joined].todo
        BY <1>1, <2>3
      <4>2. QED
        BY <1>1, <4>1 DEF Waits
    <3>3. Served(p) = Len(fed) /\ Served(p)' = Len(fed)
      BY <1>1, <1>2, <3>1, <3>2 DEF Served
    <3>4. UpTo(got[p], Wanted(p), fed, Len(fed))
      BY <1>1, <2>1, <2>3, <3>3 DEF PlayerWhole
    <3>5. UpTo(got[p], Wanted(p), fed', Len(fed))
      BY <1>1, <1>2, <2>1, <3>4, StreamGrows DEF PlayerWhole
    <3>6. QED
      BY <2>1, <3>3, <3>5
  <2>4. QED
    BY <2>1, <2>2, <2>3 DEF PlayerWhole
<1>6. QED
  BY <1>4, <1>5 DEF WholeInv

LEMMA TurnKeepsWhole ==
  ASSUME Base, WholeInv, NEW T, NEW s \in T, TurnOf(s, T)
  PROVE  WholeInv'
<1> DEFINE m == LastMsg
           N == Len(fed) - 1
<1>1. /\ Forwarding /\ T \subseteq joined
      /\ bc = {[msg |-> m, todo |-> T]} /\ bc' = {[msg |-> m, todo |-> T \ {s}]}
      /\ UNCHANGED <<vars, conn, open, joined, fed>>
  BY DEF TurnOf
<1>2. /\ s \in joined /\ s \in Subs
      /\ \A p \in Subs : p # s => got'[p] = got[p]
      /\ s \notin open => got'[s] = got[s]
      /\ s \in open => \/ Given(s, m) /\ got'[s] = Append(Before(s), m)
                       \/ NotGiven(s, m)
  BY TurnKeeps
<1>3. FanTypes /\ Numbered(fed) /\ m \in Stream /\ m \in Sent
      /\ N \in Nat /\ N + 1 = Len(fed) /\ Len(fed) \in DOMAIN fed /\ fed[Len(fed)].msg = m
  <2>1. FanTypes /\ Numbered(fed) /\ fed # << >>
    BY <1>1 DEF Base, FanTypes, Forwarding
  <2>2. /\ Len(fed) \in Nat \ {0} /\ Len(fed) \in DOMAIN fed /\ m \in Stream /\ fed[Len(fed)].msg = m
    BY <2>1, LastMsgIs
  <2>3. N \in Nat /\ N + 1 = Len(fed)
    BY <2>2
  <2>4. QED
    BY <2>1, <2>2, <2>3 DEF Sent
<1> HIDE DEF m
<1>4. \A p \in Subs : p # s => (Waits(p)' <=> Waits(p))
  <2>1. \A p : Waits(p) <=> p \in T
    BY <1>1 DEF Waits
  <2>2. \A p : Waits(p)' <=> p \in T \ {s}
    BY <1>1 DEF Waits
  <2>3. QED
    BY <2>1, <2>2
<1>5. Waits(s) /\ ~ Waits(s)'
  BY <1>1 DEF Waits
<1>6. CacheWhole'
  BY <1>1, CacheWholeStill DEF WholeInv
<1>7. ASSUME NEW p \in Subs, p # s PROVE PlayerWhole(p)'
  <2>1. PlayerWhole(p) /\ Wanted(p)' = Wanted(p) /\ Served(p)' = Served(p)
    BY <1>1, <1>4, <1>7 DEF WholeInv, Wanted, Served
  <2>2. QED
    BY <1>1, <1>2, <1>7, <2>1 DEF PlayerWhole
<1>8. PlayerWhole(s) /\ Wanted(s)' = Wanted(s) /\ Session(s)
  BY <1>2 DEF WholeInv, Wanted, Base, Sessions
<1>9. Served(s) = N /\ Served(s)' = N + 1
  BY <1>1, <1>3, <1>5 DEF Served
<1> HIDE DEF N
<1>10. CASE s \notin open
  <2>1. got'[s] = got[s] /\ s \notin open'
    BY <1>1, <1>2, <1>10
  <2>2. PlayerWhole(s)'
    BY <1>1, <1>8, <2>1 DEF PlayerWhole
  <2>3. QED
    BY <1>6, <1>7, <2>2 DEF WholeInv
<1>11. CASE s \in open /\ Given(s, m) /\ got'[s] = Append(Before(s), m)
  <2>1. Whole(Before(s), Wanted(s), fed) /\ UpTo(Before(s), Wanted(s), fed, N)
    <3>1. CASE s \in fresh /\ s \notin TsSubs
      <4>1. Before(s) = got[s] \o Cached /\ Wanted(s) = Msgs
        BY <3>1 DEF Before, Wanted
      <4>2. \A i \in DOMAIN got[s] : got[s][i] \notin Msgs
        BY <1>2, <1>3, <1>8, <3>1, <4>1, NothingYet DEF Session
      <4> DEFINE g == got[s]
                 c == CachedHeaders
                 f == Flat
      <4>3. /\ g \in Seq(Sent) /\ c \in Seq(Sent) /\ f \in Seq(Sent)
            /\ \A i \in DOMAIN c : c[i] \notin Msgs
            /\ Cached = c \o f
        <5>1. AllHeaders \subseteq Sent /\ Msgs \subseteq Sent
          BY DEF Sent, Stream
        <5>2. CachedHeaders \in Seq(AllHeaders) /\ FlattenSeq(Gops) \in Seq(Msgs)
          BY <1>3, CachedType
        <5>3. c \in Seq(Sent) /\ f \in Seq(Sent)
          BY <5>1, <5>2, SeqMonotonic DEF Flat
        <5>4. \A i \in DOMAIN c : c[i] \in AllHeaders
          BY <5>2, LenProperties, ElementOfSeq
        <5>5. g \in Seq(Sent)
          BY <1>2, <1>3 DEF FanTypes
        <5>6. QED
          BY <5>3, <5>4, <5>5, Disjoint DEF Cached, Flat
      <4>4. Whole(f, Msgs, fed) /\ UpTo(f, Msgs, fed, N)
        <5>1. Kept = N
          BY <1>1 DEF Kept, N
        <5>2. QED
          BY <5>1 DEF WholeInv, CacheWhole
      <4>5. \A i \in DOMAIN g : g[i] \notin Msgs
        BY <4>2
      <4> HIDE DEF g, c, f
      <4>6. Whole(c \o f, Msgs, fed) /\ UpTo(c \o f, Msgs, fed, N) /\ c \o f \in Seq(Sent)
        BY <4>3, <4>4, Prefixed, ConcatProperties
      <4>7. Whole(g \o (c \o f), Msgs, fed) /\ UpTo(g \o (c \o f), Msgs, fed, N)
        <5> DEFINE h == c \o f
        <5>1. h \in Seq(Sent) /\ Whole(h, Msgs, fed) /\ UpTo(h, Msgs, fed, N)
          BY <4>6
        <5> HIDE DEF h
        <5>2. Whole(g \o h, Msgs, fed) /\ UpTo(g \o h, Msgs, fed, N)
          BY <4>3, <4>5, <5>1, Prefixed
        <5>3. QED
          BY <5>2 DEF h
      <4>8. QED
        BY <4>1, <4>3, <4>7 DEF g
    <3>2. CASE ~ (s \in fresh /\ s \notin TsSubs)
      <4>1. Before(s) = got[s]
        BY <3>2 DEF Before
      <4>2. QED
        BY <1>2, <1>8, <1>9, <1>11, <4>1 DEF PlayerWhole
    <3>3. QED
      BY <3>1, <3>2
  <2>2. Before(s) \in Seq(Sent)
    BY <1>2, <1>3, BeforeType
  <2>3. N + 1 \in DOMAIN fed /\ fed[N + 1].msg = m
    BY <1>3
  <2>4. Whole(got'[s], Wanted(s), fed) /\ UpTo(got'[s], Wanted(s), fed, N + 1)
    <3> DEFINE b == Before(s)
               W == Wanted(s)
    <3>1. b \in Seq(Sent) /\ Whole(b, W, fed) /\ UpTo(b, W, fed, N)
      BY <2>1, <2>2
    <3> HIDE DEF b, W
    <3>2. Whole(Append(b, m), W, fed) /\ UpTo(Append(b, m), W, fed, N + 1)
      BY <1>3, <2>3, <3>1, AppendNext
    <3>3. QED
      BY <1>11, <3>2 DEF b, W
  <2>5. PlayerWhole(s)'
    BY <1>1, <1>8, <1>9, <2>4 DEF PlayerWhole
  <2>6. QED
    BY <1>6, <1>7, <2>5 DEF WholeInv
<1>12. CASE s \in open /\ NotGiven(s, m)
  <2>1. got' = got /\ s \in TsSubs /\ Wanted(s) = Video /\ (s \in fresh \/ m \notin Video)
    BY <1>12 DEF NotGiven, Wanted
  <2>2. UpTo(got[s], Wanted(s), fed, N + 1)
    <3>1. CASE s \in fresh
      BY <1>2, <1>3, <1>8, <3>1, NothingYet, NothingWanted DEF Session
    <3>2. CASE m \notin Video
      <4>1. UpTo(got[s], Wanted(s), fed, N) /\ Faithful(got[s], Wanted(s), fed)
        BY <1>2, <1>8, <1>9, <1>12 DEF PlayerWhole, Whole
      <4>2. fed[N + 1].msg \notin Wanted(s)
        BY <1>3, <2>1, <3>2
      <4>3. QED
        BY <1>3, <4>1, <4>2, SkipNext
    <3>3. QED
      BY <2>1, <3>1, <3>2
  <2>3. PlayerWhole(s)'
    BY <1>1, <1>8, <1>9, <2>1, <2>2 DEF PlayerWhole
  <2>4. QED
    BY <1>6, <1>7, <2>3 DEF WholeInv
<1>13. QED
  BY <1>2, <1>10, <1>11, <1>12

\* The cache is fed.
LEMMA GopsDiffer ==
  ASSUME NEW G \in Seq(Seq(Msgs)), NEW m \in Msgs,
         \A i \in DOMAIN G : G[i] # << >> /\ G[i][1] \in Keys
  PROVE  /\ m \in Keys => \A i \in DOMAIN Append(G, <<m>>) :
              Append(G, <<m>>)[i] # << >> /\ Append(G, <<m>>)[i][1] \in Keys
         /\ G # << >> => \A i \in DOMAIN Tail(G) : Tail(G)[i] # << >> /\ Tail(G)[i][1] \in Keys
         /\ G # << >> => \A i \in DOMAIN [G EXCEPT ![Len(G)] = Append(@, m)] :
              /\ [G EXCEPT ![Len(G)] = Append(@, m)][i] # << >>
              /\ [G EXCEPT ![Len(G)] = Append(@, m)][i][1] \in Keys
<1> DEFINE n == Len(G)
           e == <<m>>
<1>1. n \in Nat /\ DOMAIN G = 1 .. n /\ e \in Seq(Msgs) /\ e # << >> /\ e[1] = m
  BY LenProperties
<1> HIDE DEF n, e
<1>2. ASSUME m \in Keys, NEW i \in DOMAIN Append(G, e)
      PROVE  Append(G, e)[i] # << >> /\ Append(G, e)[i][1] \in Keys
  <2> DEFINE H == Append(G, e)
  <2>1. DOMAIN H = 1 .. n + 1 /\ H[n + 1] = e /\ \A j \in 1 .. n : H[j] = G[j]
    BY <1>1, AppendProperties, LenProperties DEF n
  <2> HIDE DEF H
  <2>2. i \in 1 .. n \/ i = n + 1
    BY <1>1, <1>2, <2>1 DEF H
  <2>3. H[i] # << >> /\ H[i][1] \in Keys
    BY <1>1, <1>2, <2>1, <2>2
  <2>4. QED
    BY <2>3 DEF H
<1>3. ASSUME G # << >>, NEW i \in DOMAIN Tail(G)
      PROVE  Tail(G)[i] # << >> /\ Tail(G)[i][1] \in Keys
  <2> DEFINE H == Tail(G)
  <2>1. DOMAIN H = 1 .. n - 1 /\ \A j \in 1 .. n - 1 : H[j] = G[j + 1]
    <3>1. H \in Seq(Seq(Msgs)) /\ Len(H) = n - 1 /\ \A j \in 1 .. Len(H) : H[j] = G[j + 1]
      BY <1>3, HeadTailProperties DEF n
    <3>2. QED
      BY <3>1, LenProperties
  <2> HIDE DEF H
  <2>2. i + 1 \in DOMAIN G /\ H[i] = G[i + 1]
    BY <1>1, <1>3, <2>1 DEF H
  <2>3. QED
    BY <2>2 DEF H
<1>4. ASSUME G # << >>, NEW i \in DOMAIN G
      PROVE  /\ [G EXCEPT ![n] = Append(@, m)][i] # << >>
             /\ [G EXCEPT ![n] = Append(@, m)][i][1] \in Keys
  <2>1. G[i] \in Seq(Msgs) /\ G[i] # << >> /\ G[i][1] \in Keys
    BY <1>1, ElementOfSeq DEF n
  <2>2. [G EXCEPT ![n] = Append(@, m)][i] = IF i = n THEN Append(G[i], m) ELSE G[i]
    OBVIOUS
  <2>3. /\ Append(G[i], m) # << >> /\ Append(G[i], m)[1] = G[i][1]
    <3> DEFINE g == G[i]
    <3>1. g \in Seq(Msgs) /\ g # << >>
      BY <2>1
    <3> HIDE DEF g
    <3>2. 1 \in 1 .. Len(g)
      BY <3>1, EmptySeq
    <3>3. Append(g, m) # << >> /\ Append(g, m)[1] = g[1]
      BY <3>1, <3>2, AppendProperties
    <3>4. QED
      BY <3>3 DEF g
  <2>4. QED
    BY <2>1, <2>2, <2>3
<1>5. DOMAIN [G EXCEPT ![n] = Append(@, m)] = DOMAIN G
  OBVIOUS
<1>6. QED
  BY <1>2, <1>3, <1>4, <1>5 DEF n, e

LEMMA FeedKeepsWhole ==
  ASSUME Base, WholeInv, broadcastFeeds
  PROVE  WholeInv'
<1> DEFINE m == LastMsg
           N == Len(fed) - 1
           G == Gops
<1>1. /\ Base' /\ Forwarding /\ bc' = {} /\ CacheFeed(m) /\ m \in Stream
      /\ bc = {[msg |-> m, todo |-> {}]}
      /\ UNCHANGED <<conn, open, joined, fresh, got, fed>>
  BY FeedKeeps
<1>2. /\ FanTypes /\ TypeOK /\ TypeOK' /\ Numbered(fed)
      /\ N \in Nat /\ N + 1 = Len(fed) /\ Len(fed) \in DOMAIN fed /\ fed[Len(fed)].msg = m
  <2>1. FanTypes /\ FanTypes' /\ Numbered(fed) /\ fed # << >>
    BY <1>1 DEF Base, FanTypes, Forwarding
  <2>2. Len(fed) \in Nat \ {0} /\ Len(fed) \in DOMAIN fed /\ fed[Len(fed)].msg = m
    BY <2>1, LastMsgIs
  <2>3. N \in Nat /\ N + 1 = Len(fed)
    BY <2>2
  <2>4. QED
    BY <2>1, <2>2, <2>3 DEF FanTypes
<1>3. Kept = N /\ Kept' = N + 1 /\ N + 1 \in DOMAIN fed /\ fed[N + 1].msg = m
  <2>1. Kept = N
    BY <1>1 DEF Kept
  <2>2. Kept' = Len(fed)
    BY <1>1 DEF Kept
  <2>3. QED
    BY <1>2, <2>1, <2>2
<1>4. \/ m \in AllHeaders /\ Gops' = G
      \/ m \in Keys /\ (Gops' = Append(G, <<m>>) \/ (G # << >> /\ Gops' = Append(Tail(G), <<m>>)))
      \/ m \in Msgs /\ G # << >> /\ Gops' = [G EXCEPT ![Len(G)] = Append(@, m)]
      \/ Gops' = G /\ G = << >>
  BY <1>1, <1>2, CacheFeedIs
<1>5. /\ G \in Seq(Seq(Msgs)) /\ Flat \in Seq(Msgs)
      /\ \A i \in DOMAIN G : G[i] # << >> /\ G[i][1] \in Keys
      /\ Whole(Flat, Msgs, fed) /\ UpTo(Flat, Msgs, fed, N)
  BY <1>2, <1>3, CachedType DEF WholeInv, CacheWhole, Flat
<1>f. Flat = FlattenSeq(G) /\ Flat' = FlattenSeq(Gops')
  BY DEF Flat
<1>l. N <= Len(fed)
  BY <1>2
<1> HIDE DEF m, N, G
<1>6. /\ \A i \in DOMAIN Gops' : Gops'[i] # << >> /\ Gops'[i][1] \in Keys
      /\ Whole(Flat', Msgs, fed) /\ UpTo(Flat', Msgs, fed, N + 1)
  <2>1. CASE m \in AllHeaders /\ Gops' = G
    <3>1. fed[N + 1].msg \notin Msgs
      BY <1>3, <2>1, Disjoint
    <3>2. UpTo(Flat, Msgs, fed, N + 1)
      BY <1>2, <1>5, <3>1, SkipNext DEF Whole
    <3>3. QED
      BY <1>5, <1>f, <2>1, <3>2
  <2>2. ASSUME m \in Keys, NEW R \in Seq(Seq(Msgs)),
               \A i \in DOMAIN R : R[i] # << >> /\ R[i][1] \in Keys,
               Whole(FlattenSeq(R), Msgs, fed), UpTo(FlattenSeq(R), Msgs, fed, N),
               Gops' = Append(R, <<m>>)
        PROVE  /\ \A i \in DOMAIN Gops' : Gops'[i] # << >> /\ Gops'[i][1] \in Keys
               /\ Whole(Flat', Msgs, fed) /\ UpTo(Flat', Msgs, fed, N + 1)
    <3>1. m \in Msgs /\ <<m>> \in Seq(Msgs)
      BY <2>2 DEF Msgs
    <3> DEFINE f == FlattenSeq(R)
    <3>2. f \in Seq(Msgs)
      BY FlatType
    <3>3. Flat' = f \o <<m>>
      BY <1>f, <2>2, <3>1, FlatAppend
    <3>4. Whole(f, Msgs, fed) /\ UpTo(f, Msgs, fed, N)
      BY <2>2
    <3> HIDE DEF f
    <3>5. Flat' = Append(f, m)
      BY <3>1, <3>2, <3>3, AppendIsConcat
    <3>6. Whole(Append(f, m), Msgs, fed) /\ UpTo(Append(f, m), Msgs, fed, N + 1)
      BY <1>2, <1>3, <3>1, <3>2, <3>4, AppendNext
    <3>7. \A i \in DOMAIN Gops' : Gops'[i] # << >> /\ Gops'[i][1] \in Keys
      BY <2>2, <3>1, GopsDiffer
    <3>8. QED
      BY <3>5, <3>6, <3>7
  <2>3. CASE m \in Keys /\ Gops' = Append(G, <<m>>)
    BY <1>5, <1>f, <2>2, <2>3
  <2>4. CASE m \in Keys /\ G # << >> /\ Gops' = Append(Tail(G), <<m>>)
    <3> DEFINE R == Tail(G)
    <3>1. R \in Seq(Seq(Msgs)) /\ Head(G) \in Seq(Msgs)
      BY <1>5, <2>4, HeadTailProperties
    <3>2. \A i \in DOMAIN R : R[i] # << >> /\ R[i][1] \in Keys
      <4>1. m \in Msgs
        BY <2>4 DEF Msgs
      <4>2. QED
        BY <1>5, <2>4, <4>1, GopsDiffer
    <3>3. Flat = Head(G) \o FlattenSeq(R)
      BY <1>5, <1>f, <2>4, FlatTail
    <3>4. Whole(FlattenSeq(R), Msgs, fed) /\ UpTo(FlattenSeq(R), Msgs, fed, N)
      <4> DEFINE h == Head(G)
                 r == FlattenSeq(R)
      <4>1. h \in Seq(Msgs) /\ r \in Seq(Msgs)
        BY <3>1, FlatType
      <4>2. Whole(h \o r, Msgs, fed) /\ UpTo(h \o r, Msgs, fed, N)
        BY <1>5, <3>3
      <4> HIDE DEF h, r
      <4>3. Whole(r, Msgs, fed) /\ UpTo(r, Msgs, fed, N)
        BY <1>2, <1>l, <4>1, <4>2, BeginningDropped
      <4>4. QED
        BY <4>3 DEF r
    <3>5. Gops' = Append(R, <<m>>)
      BY <2>4
    <3> HIDE DEF R
    <3>6. QED
      BY <2>2, <2>4, <3>1, <3>2, <3>4, <3>5
  <2>5. CASE m \in Msgs /\ G # << >> /\ Gops' = [G EXCEPT ![Len(G)] = Append(@, m)]
    <3>1. Flat' = Append(Flat, m)
      BY <1>5, <1>f, <2>5, FlatLonger
    <3>2. Whole(Append(Flat, m), Msgs, fed) /\ UpTo(Append(Flat, m), Msgs, fed, N + 1)
      BY <1>2, <1>3, <1>5, <2>5, AppendNext
    <3>3. \A i \in DOMAIN Gops' : Gops'[i] # << >> /\ Gops'[i][1] \in Keys
      BY <1>5, <2>5, GopsDiffer
    <3>4. QED
      BY <3>1, <3>2, <3>3
  <2>6. CASE Gops' = G /\ G = << >>
    <3>1. Flat' = << >> /\ DOMAIN << >> = {}
      BY <1>f, <2>6, FlatEmpty, EmptySeq
    <3>2. Whole(Flat', Msgs, fed) /\ UpTo(Flat', Msgs, fed, N + 1)
      BY <3>1, NothingWanted
    <3>3. QED
      BY <1>5, <2>6, <3>2
  <2>7. QED
    BY <1>4, <2>1, <2>3, <2>4, <2>5, <2>6
<1>7. CacheWhole'
  BY <1>1, <1>3, <1>6 DEF CacheWhole
<1>8. ASSUME NEW p \in Subs PROVE PlayerWhole(p)'
  <2>1. PlayerWhole(p) /\ Wanted(p)' = Wanted(p) /\ ~ Waits(p) /\ ~ Waits(p)'
    BY <1>1 DEF WholeInv, Wanted, Waits
  <2>2. Served(p)' = Served(p)
    BY <1>1, <2>1 DEF Served
  <2>3. QED
    BY <1>1, <2>1, <2>2 DEF PlayerWhole
<1>9. QED
  BY <1>7, <1>8 DEF WholeInv

LEMMA BaseStep ==
  ASSUME Locked, Base, [FanNext]_allVars
  PROVE  Base'
<1>1. ASSUME NEW s \in Subs,
             \/ Accept(s) \/ ReadRequestFails(s) \/ ReadRequest(s) \/ AddSubSession(s)
             \/ Closes(s) \/ DelSubSession(s)
      PROVE  Base'
  BY <1>1, AcceptKeeps, FailsKeeps, RequestKeeps, AddKeeps, ClosesKeeps, DelKeeps
<1>2. CASE addIn \/ UNCHANGED allVars
  BY <1>2, QuietKeeps
<1>3. CASE delIn
  BY <1>3, DelInKeeps
<1>4. CASE broadcastWrites
  <2>1. PICK T \in SUBSET joined : \E s \in T : TurnOf(s, T)
    BY <1>4, WritesOne DEF Base
  <2>2. PICK s \in T : TurnOf(s, T)
    BY <2>1
  <2>3. QED
    BY <2>2, TurnKeeps
<1>5. CASE broadcastFeeds
  BY <1>5, FeedKeeps
<1>6. ASSUME NEW m \in Msgs \cup UNION {Headers[k] : k \in HeaderKinds}, OnMsg(m) PROVE Base'
  BY <1>6, MsgKeeps DEF Stream, AllHeaders
<1>7. QED
  BY <1>1, <1>2, <1>3, <1>4, <1>5, <1>6 DEF FanNext

LEMMA WholeStep ==
  ASSUME Locked, Base, WholeInv, [FanNext]_allVars
  PROVE  WholeInv'
<1>1. ASSUME NEW s \in Subs,
             Accept(s) \/ ReadRequestFails(s) \/ AddSubSession(s) \/ Closes(s) \/ DelSubSession(s)
      PROVE  WholeInv'
  BY <1>1, SessionsKeepWhole
<1>2. ASSUME NEW s \in Subs, ReadRequest(s) PROVE WholeInv'
  BY <1>2, RequestKeepsWhole
<1>3. CASE addIn \/ UNCHANGED allVars
  BY <1>3, SessionsKeepWhole
<1>4. CASE delIn
  BY <1>4, DelInKeepsWhole
<1>5. CASE broadcastWrites
  <2>1. PICK T \in SUBSET joined : \E s \in T : TurnOf(s, T)
    BY <1>5, WritesOne DEF Base
  <2>2. PICK s \in T : TurnOf(s, T)
    BY <2>1
  <2>3. QED
    BY <2>2, TurnKeepsWhole
<1>6. CASE broadcastFeeds
  BY <1>6, FeedKeepsWhole
<1>7. ASSUME NEW m \in Msgs \cup UNION {Headers[k] : k \in HeaderKinds}, OnMsg(m) PROVE WholeInv'
  BY <1>7, MsgKeepsWhole DEF Stream, AllHeaders
<1>8. QED
  BY <1>1, <1>2, <1>3, <1>4, <1>5, <1>6, <1>7 DEF FanNext

LEMMA WholeInit == FanInit => WholeInv
<1> SUFFICES ASSUME FanInit PROVE WholeInv
  OBVIOUS
<1>1. Init /\ TypeOK /\ joined = {} /\ got = [s \in Subs |-> << >>] /\ DOMAIN << >> = {}
  BY TypeInit, EmptySeq DEF FanInit
<1>2. Gops = << >>
  BY <1>1, EmptyRing DEF Init, isGOPRingEmpty
<1>3. Flat = << >>
  BY <1>2, FlatEmpty DEF Flat
<1>4. CacheWhole
  BY <1>1, <1>2, <1>3, NothingWanted DEF CacheWhole
<1>5. ASSUME NEW s \in Subs PROVE PlayerWhole(s)
  BY <1>1, NothingWanted DEF PlayerWhole
<1>6. QED
  BY <1>4, <1>5 DEF WholeInv

LEMMA WholeIsOnce ==
  ASSUME Base, WholeInv
  PROVE  EachMessageOnce
<1> SUFFICES ASSUME NEW s \in Subs, NEW i \in DOMAIN got[s], got[s][i] \in Wanted(s)
    PROVE
      /\ got[s][i][2] \in DOMAIN fed /\ fed[got[s][i][2]].msg = got[s][i]
      /\ \A j \in DOMAIN got[s] : i < j /\ got[s][j] \in Wanted(s) =>
           /\ got[s][i][2] < got[s][j][2]
           /\ \A n \in got[s][i][2] .. got[s][j][2] :
                fed[n].msg \in Wanted(s) => \E l \in DOMAIN got[s] : got[s][l] = fed[n].msg
      /\ s \in joined \cap open => \A n \in got[s][i][2] .. Len(fed) :
           fed[n].msg \in Wanted(s) =>
             \/ \E l \in DOMAIN got[s] : got[s][l] = fed[n].msg
             \/ \E b \in bc : s \in b.todo /\ b.msg = fed[n].msg
  BY DEF EachMessageOnce
<1>1. /\ Faithful(got[s], Wanted(s), fed) /\ InOrder(got[s], Wanted(s))
      /\ NoGap(got[s], Wanted(s), fed) /\ Numbered(fed)
      /\ s \in joined \cap open => UpTo(got[s], Wanted(s), fed, Served(s))
  BY DEF WholeInv, PlayerWhole, Whole, Base, FanTypes
<1>2. got[s][i][2] \in DOMAIN fed /\ fed[got[s][i][2]].msg = got[s][i]
  BY <1>1 DEF Faithful
<1>3. \A j \in DOMAIN got[s] : i < j /\ got[s][j] \in Wanted(s) =>
        /\ got[s][i][2] < got[s][j][2]
        /\ \A n \in got[s][i][2] .. got[s][j][2] :
             fed[n].msg \in Wanted(s) => \E l \in DOMAIN got[s] : got[s][l] = fed[n].msg
  BY <1>1 DEF InOrder, NoGap, Has
<1>4. ASSUME s \in joined \cap open, NEW n \in got[s][i][2] .. Len(fed), fed[n].msg \in Wanted(s)
      PROVE  \/ \E l \in DOMAIN got[s] : got[s][l] = fed[n].msg
             \/ \E b \in bc : s \in b.todo /\ b.msg = fed[n].msg
  <2>1. \A x \in got[s][i][2] .. Served(s) : fed[x].msg \in Wanted(s) => Has(got[s], fed[x].msg)
    BY <1>1, <1>4 DEF UpTo
  <2>2. CASE ~ Waits(s)
    <3>1. Served(s) = Len(fed)
      BY <2>2 DEF Served
    <3>2. Has(got[s], fed[n].msg)
      BY <1>4, <2>1, <3>1
    <3>3. QED
      BY <3>2 DEF Has
  <2>3. CASE Waits(s) /\ n = Len(fed)
    <3>1. PICK b \in bc : s \in b.todo
      BY <2>3 DEF Waits
    <3>2. Forwarding
      BY <3>1 DEF Base, OneBroadcast
    <3>3. PICK T \in SUBSET joined : bc = {[msg |-> LastMsg, todo |-> T]}
      BY <3>2 DEF Forwarding
    <3>4. b.msg = fed[n].msg
      BY <2>3, <3>1, <3>3 DEF LastMsg
    <3>5. QED
      BY <3>1, <3>4
  <2>4. CASE Waits(s) /\ n # Len(fed)
    <3>1. Served(s) = Len(fed) - 1 /\ Len(fed) \in Nat /\ got[s][i][2] \in Nat
      BY <1>1, <1>2, <2>4 DEF Served, Numbered
    <3>2. n \in got[s][i][2] .. Served(s)
      BY <2>4, <3>1
    <3>3. Has(got[s], fed[n].msg)
      BY <1>4, <2>1, <3>2
    <3>4. QED
      BY <3>3 DEF Has
  <2>5. QED
    BY <2>2, <2>3, <2>4
<1>5. QED
  BY <1>2, <1>3, <1>4

\* While messages come under the group's mutex, what the cache holds and what is forwarded
\* join without a seam for every player, of any number of them, that comes at any moment
\* and stays however long, across any number of inputs (broadcastRTMP, OnTSPackets).
THEOREM NoSeam ==
  ASSUME Locked
  PROVE  FanSpec => []EachMessageOnce
<1>1. FanInit => Base /\ WholeInv
  BY BaseInit, WholeInit
<1>2. Base /\ WholeInv /\ [FanNext]_allVars => Base' /\ WholeInv'
  BY BaseStep, WholeStep
<1>3. Base /\ WholeInv => EachMessageOnce
  BY WholeIsOnce
<1>4. QED
  BY <1>1, <1>2, <1>3, PTL DEF FanSpec

-----------------------------------------------------------------------------
(* The cache, as the group uses it, implements its specification.          *)

CacheUsed == TypeOK /\ \A b \in bc : b.msg \in Stream

LEMMA FanUsesCache ==
  ASSUME CacheUsed, [FanNext]_allVars
  PROVE  [Next]_vars /\ CacheUsed'
<1>1. [Next]_vars
  <2>1. CASE broadcastFeeds
    <3>1. PICK b \in bc : CacheFeed(b.msg)
      BY <2>1 DEF broadcastFeeds
    <3> DEFINE m == b.msg
    <3>2. m \in Stream
      BY DEF CacheUsed
    <3>3. CacheFeed(m)
      BY <3>1
    <3> HIDE DEF m
    <3>4. CASE IsHeader(m) /\ FeedHeader(KindOf(m), m)
      BY <3>4, Disjoint DEF Next
    <3>5. CASE ~IsHeader(m) /\ FeedMsg(m)
      <4>1. m \in Msgs
        BY <3>2, <3>5, Disjoint DEF Stream
      <4>2. QED
        BY <3>5, <4>1 DEF Next
    <3>6. QED
      BY <3>3, <3>4, <3>5 DEF CacheFeed
  <2>2. CASE delIn
    BY <2>2 DEF delIn, Next
  <2>3. CASE ~ broadcastFeeds /\ ~ delIn
    <3>1. UNCHANGED vars
      BY <2>3 DEF FanNext, Accept, ReadRequestFails, ReadRequest, AddSubSession, Closes,
                  DelSubSession, addIn, OnMsg, broadcastWrites, allVars
    <3>2. QED
      BY <3>1
  <2>4. QED
    BY <2>1, <2>2, <2>3
<1>2. \A b \in bc' : b.msg \in Stream
  <2>1. CASE broadcastWrites
    <3>1. PICK b \in bc : \E s \in b.todo : bc' = (bc \ {b}) \cup {[b EXCEPT !.todo = @ \ {s}]}
      BY <2>1 DEF broadcastWrites
    <3>2. PICK s \in b.todo : bc' = (bc \ {b}) \cup {[b EXCEPT !.todo = @ \ {s}]}
      BY <3>1
    <3>3. [b EXCEPT !.todo = @ \ {s}].msg = b.msg
      OBVIOUS
    <3>4. QED
      BY <3>2, <3>3 DEF CacheUsed
  <2>2. CASE broadcastFeeds
    BY <2>2 DEF broadcastFeeds, CacheUsed
  <2>3. ASSUME NEW m \in Msgs \cup UNION {Headers[k] : k \in HeaderKinds}, OnMsg(m)
        PROVE  \A b \in bc' : b.msg \in Stream
    <3>1. bc' = bc \cup {[msg |-> m, todo |-> joined]} /\ m \in Stream
      BY <2>3 DEF OnMsg, Stream, AllHeaders
    <3>2. QED
      BY <3>1 DEF CacheUsed
  <2>4. CASE bc' = bc
    BY <2>4 DEF CacheUsed
  <2>5. bc' = bc \/ broadcastWrites \/ broadcastFeeds
        \/ \E m \in Msgs \cup UNION {Headers[k] : k \in HeaderKinds} : OnMsg(m)
    BY DEF FanNext, Accept, ReadRequestFails, ReadRequest, AddSubSession, Closes,
           DelSubSession, addIn, delIn, allVars, fanVars
  <2>6. QED
    BY <2>1, <2>2, <2>3, <2>4, <2>5
<1>3. TypeOK'
  BY <1>1, TypeStep DEF CacheUsed
<1>4. QED
  BY <1>1, <1>2, <1>3 DEF CacheUsed

\* What the group does with a cache, from messages of the stream to the end of an input,
\* is what the cache's specification allows: a fresh player finds the last GOPs in it.
\* (Without the mutex too: Feed and Clear are called one at a time.)
THEOREM PlayersFindTheWindow == FanSpec => ImplementsWindow
<1>1. FanInit => CacheUsed /\ Init
  BY TypeInit DEF FanInit, CacheUsed
<1>2. CacheUsed /\ [FanNext]_allVars => [Next]_vars /\ CacheUsed'
  BY FanUsesCache
<1>3. QED
  BY <1>1, <1>2, RingImplementsWindow, PTL DEF FanSpec, Spec


-----------------------------------------------------------------------------
(* No picture without its key frame.                                       *)

HasKey(g) == \E j \in DOMAIN g : g[j] \in Keys
Preceded(g) == \A i \in DOMAIN g : g[i] \in Video \ Keys => \E j \in DOMAIN g : j < i /\ g[j] \in Keys

\* A player that is not fresh has had a key frame if the cache has: the message under way
\* goes to the players before it goes to the cache.
MustHold(s) ==
  /\ s \in joined /\ s \in open /\ s \notin fresh
  /\ Gops # << >> \/ (bc # {} /\ ~ Waits(s) /\ LastMsg \in Keys)

PlayerKey(s) == Preceded(got[s]) /\ (MustHold(s) => HasKey(got[s]))

KeyInv ==
  /\ Gops # << >> => header[VideoHeader] # None
  /\ \A s \in Subs : PlayerKey(s)

LEMMA PrecededNext ==
  ASSUME NEW A, NEW g \in Seq(A), NEW x \in A, Preceded(g), x \in Video \ Keys => HasKey(g)
  PROVE  /\ Preceded(Append(g, x))
         /\ HasKey(g) \/ x \in Keys => HasKey(Append(g, x))
<1> DEFINE h == Append(g, x)
<1>1. /\ DOMAIN g = 1 .. Len(g) /\ DOMAIN h = 1 .. Len(g) + 1 /\ Len(g) \in Nat
      /\ h[Len(g) + 1] = x /\ \A i \in 1 .. Len(g) : h[i] = g[i]
  BY AppendProperties, LenProperties
<1> HIDE DEF h
<1>2. \A i \in DOMAIN g : i \in DOMAIN h /\ h[i] = g[i] /\ i < Len(g) + 1
  BY <1>1
<1>3. \A i \in DOMAIN h : i \in DOMAIN g \/ i = Len(g) + 1
  BY <1>1
<1>4. Preceded(h)
  <2> SUFFICES ASSUME NEW i \in DOMAIN h, h[i] \in Video \ Keys
               PROVE  \E j \in DOMAIN h : j < i /\ h[j] \in Keys
    BY DEF Preceded
  <2>1. CASE i \in DOMAIN g
    BY <1>2, <2>1 DEF Preceded
  <2>2. CASE i = Len(g) + 1
    <3>1. PICK j \in DOMAIN g : g[j] \in Keys
      BY <1>1, <2>2 DEF HasKey
    <3>2. QED
      BY <1>2, <2>2, <3>1
  <2>3. QED
    BY <1>3, <2>1, <2>2
<1>5. HasKey(g) \/ x \in Keys => HasKey(h)
  <2>1. Len(g) + 1 \in DOMAIN h
    BY <1>1
  <2>2. QED
    BY <1>1, <1>2, <2>1 DEF HasKey
<1>6. QED
  BY <1>4, <1>5 DEF h

LEMMA PrecededAfter ==
  ASSUME NEW A, NEW g \in Seq(A), NEW f \in Seq(A), Preceded(g), Preceded(f)
  PROVE  Preceded(g \o f) /\ (HasKey(g) \/ HasKey(f) => HasKey(g \o f))
<1> DEFINE h == g \o f
           d == Len(g)
<1>1. /\ DOMAIN g = 1 .. d /\ DOMAIN f = 1 .. Len(f) /\ d \in Nat /\ Len(f) \in Nat
      /\ h \in Seq(A) /\ Len(h) = d + Len(f)
      /\ \A i \in 1 .. d + Len(f) : h[i] = IF i <= d THEN g[i] ELSE f[i - d]
  BY ConcatProperties, LenProperties
<1>2. DOMAIN h = 1 .. d + Len(f)
  BY <1>1, LenProperties
<1> HIDE DEF h, d
<1>3. \A i \in DOMAIN g : i \in DOMAIN h /\ h[i] = g[i]
  BY <1>1, <1>2
<1>4. \A i \in DOMAIN f : d + i \in DOMAIN h /\ h[d + i] = f[i]
  <2> TAKE i \in DOMAIN f
  <2>1. d + i \in 1 .. d + Len(f) /\ ~ (d + i <= d) /\ (d + i) - d = i
    BY <1>1
  <2>2. h[d + i] = f[i]
    BY <1>1, <2>1
  <2>3. QED
    BY <1>2, <2>1, <2>2
<1>5. \A i \in DOMAIN h : \/ i \in DOMAIN g
                          \/ i - d \in DOMAIN f /\ d + (i - d) = i /\ i - d \in Nat
  BY <1>1, <1>2
<1>6. Preceded(h)
  <2> SUFFICES ASSUME NEW i \in DOMAIN h, h[i] \in Video \ Keys
               PROVE  \E j \in DOMAIN h : j < i /\ h[j] \in Keys
    BY DEF Preceded
  <2>1. CASE i \in DOMAIN g
    BY <1>3, <2>1 DEF Preceded
  <2>2. CASE i - d \in DOMAIN f /\ d + (i - d) = i /\ i - d \in Nat
    <3>1. f[i - d] \in Video \ Keys
      BY <1>4, <2>2
    <3>2. PICK j \in DOMAIN f : j < i - d /\ f[j] \in Keys
      BY <2>2, <3>1 DEF Preceded
    <3>3. d + j < i
      BY <1>1, <2>2, <3>2
    <3>4. QED
      BY <1>4, <3>2, <3>3
  <2>3. QED
    BY <1>5, <2>1, <2>2
<1>7. HasKey(g) \/ HasKey(f) => HasKey(h)
  BY <1>3, <1>4 DEF HasKey
<1>8. QED
  BY <1>6, <1>7 DEF h

\* The cache begins with a key frame.
LEMMA CacheBegins ==
  ASSUME FanTypes, CacheWhole
  PROVE  /\ Flat \in Seq(Msgs) /\ Preceded(Flat)
         /\ Gops # << >> => HasKey(Flat)
<1>1. Gops \in Seq(Seq(Msgs)) /\ Flat \in Seq(Msgs)
  BY CachedType DEF Flat
<1>2. CASE Gops = << >>
  <2>1. Flat = << >> /\ DOMAIN << >> = {}
    BY <1>2, FlatEmpty, EmptySeq DEF Flat
  <2>2. QED
    BY <1>1, <1>2, <2>1 DEF Preceded
<1>3. CASE Gops # << >>
  <2> DEFINE h == Head(Gops)
             r == FlattenSeq(Tail(Gops))
  <2>1. h \in Seq(Msgs) /\ Tail(Gops) \in Seq(Seq(Msgs)) /\ h = Gops[1]
    BY <1>1, <1>3, HeadTailProperties
  <2>2. r \in Seq(Msgs) /\ Flat = h \o r
    BY <1>1, <1>3, <2>1, FlatType, FlatTail DEF Flat
  <2>3. h # << >> /\ h[1] \in Keys
    <3>1. 1 \in DOMAIN Gops
      BY <1>1, <1>3, EmptySeq, LenProperties
    <3>2. QED
      BY <2>1, <3>1 DEF CacheWhole
  <2> HIDE DEF h, r
  <2>4. 1 \in 1 .. Len(h) /\ Len(h) \in Nat
    BY <2>1, <2>3, EmptySeq
  <2>5. /\ Len(Flat) = Len(h) + Len(r) /\ Len(r) \in Nat
        /\ \A i \in 1 .. Len(h) + Len(r) : Flat[i] = IF i <= Len(h) THEN h[i] ELSE r[i - Len(h)]
    BY <2>1, <2>2, ConcatProperties
  <2>6. Flat[1] \in Keys
    BY <2>3, <2>4, <2>5
  <2>7. DOMAIN Flat = 1 .. Len(Flat) /\ Len(Flat) \in Nat
    BY <1>1, LenProperties
  <2>8. 1 \in DOMAIN Flat
    BY <2>4, <2>5, <2>7
  <2>9. \A i \in DOMAIN Flat : i # 1 => 1 < i
    BY <2>7
  <2>10. Preceded(Flat)
    BY <2>6, <2>8, <2>9 DEF Preceded
  <2>11. QED
    BY <1>1, <2>6, <2>8, <2>10 DEF HasKey
<1>4. QED
  BY <1>2, <1>3

LEMMA BeforeBegins ==
  ASSUME FanTypes, CacheWhole, NEW s \in Subs, Preceded(got[s])
  PROVE  /\ Preceded(Before(s))
         /\ HasKey(got[s]) => HasKey(Before(s))
         /\ s \in fresh /\ s \notin TsSubs /\ Gops # << >> => HasKey(Before(s))
<1>1. CASE s \in fresh /\ s \notin TsSubs
  <2> DEFINE g == got[s]
             c == CachedHeaders
             f == Flat
  <2>1. Before(s) = g \o (c \o f)
    BY <1>1 DEF Before, Cached, Flat
  <2>2. /\ g \in Seq(Sent) /\ c \in Seq(Sent) /\ f \in Seq(Sent)
        /\ \A i \in DOMAIN c : c[i] \notin Msgs
    <3>1. AllHeaders \subseteq Sent /\ Msgs \subseteq Sent
      BY DEF Sent, Stream
    <3>2. c \in Seq(AllHeaders) /\ f \in Seq(Msgs)
      BY CachedType, CacheBegins
    <3>3. c \in Seq(Sent) /\ f \in Seq(Sent)
      BY <3>1, <3>2, SeqMonotonic
    <3>4. \A i \in DOMAIN c : c[i] \in AllHeaders
      BY <3>2, LenProperties, ElementOfSeq
    <3>5. g \in Seq(Sent)
      BY DEF FanTypes
    <3>6. QED
      BY <3>3, <3>4, <3>5, Disjoint
  <2>3. Preceded(g) /\ Preceded(f) /\ (Gops # << >> => HasKey(f))
    BY CacheBegins
  <2> HIDE DEF g, c, f
  <2>4. Preceded(c)
    BY <2>2, Disjoint DEF Preceded
  <2>5. c \o f \in Seq(Sent) /\ Preceded(c \o f) /\ (Gops # << >> => HasKey(c \o f))
    BY <2>2, <2>3, <2>4, PrecededAfter, ConcatProperties
  <2> DEFINE h == c \o f
  <2>6. h \in Seq(Sent) /\ Preceded(h) /\ (Gops # << >> => HasKey(h))
    BY <2>5
  <2> HIDE DEF h
  <2>7. Preceded(g \o h) /\ (HasKey(g) \/ HasKey(h) => HasKey(g \o h))
    BY <2>2, <2>3, <2>6, PrecededAfter
  <2>8. QED
    BY <1>1, <2>1, <2>6, <2>7 DEF g, h
<1>2. CASE ~ (s \in fresh /\ s \notin TsSubs)
  BY <1>2 DEF Before
<1>3. QED
  BY <1>1, <1>2

LEMMA KeyStill ==
  ASSUME NEW p, PlayerKey(p), got'[p] = got[p], MustHold(p)' => MustHold(p)
  PROVE  PlayerKey(p)'
BY DEF PlayerKey, Preceded, HasKey

\* Steps of the players' sessions, and an input that comes.
LEMMA SessionsKeepKey ==
  ASSUME Base, KeyInv,
         \/ \E s \in Subs : \/ Accept(s) \/ ReadRequestFails(s) \/ AddSubSession(s)
                            \/ Closes(s) \/ DelSubSession(s)
         \/ addIn \/ UNCHANGED allVars
  PROVE  KeyInv'
<1>1. UNCHANGED <<vars, got, bc, fed>>
  BY DEF Accept, ReadRequestFails, AddSubSession, Closes, DelSubSession, addIn, allVars, fanVars
<1>2. Gops' = Gops /\ header' = header
  BY <1>1, CacheStill
<1>3. ASSUME NEW p \in Subs PROVE PlayerKey(p)'
  <2>1. PlayerKey(p) /\ Session(p)
    BY DEF KeyInv, Base, Sessions
  <2>2. LastMsg' = LastMsg /\ (Waits(p)' <=> Waits(p))
    BY <1>1 DEF LastMsg, Waits
  <2>3. p \in joined' /\ p \in open' /\ p \notin fresh' => p \in joined /\ p \in open /\ p \notin fresh
    BY <2>1 DEF Accept, ReadRequestFails, AddSubSession, Closes, DelSubSession, addIn,
                allVars, fanVars, Session
  <2>4. MustHold(p)' => MustHold(p)
    BY <1>1, <1>2, <2>2, <2>3 DEF MustHold
  <2>5. QED
    BY <1>1, <2>1, <2>4, KeyStill
<1>4. QED
  BY <1>2, <1>3 DEF KeyInv

LEMMA RequestKeepsKey ==
  ASSUME Base, KeyInv, NEW s \in Subs, ReadRequest(s)
  PROVE  KeyInv'
<1>1. /\ s \notin joined
      /\ \A p \in Subs : p # s => got'[p] = got[p]
      /\ got'[s] = << >> \/ got'[s] = <<Response>>
  BY RequestKeeps
<1>2. UNCHANGED <<vars, open, joined, fresh, bc, fed>>
  BY DEF ReadRequest
<1>3. Gops' = Gops /\ header' = header /\ LastMsg' = LastMsg
  BY <1>2, CacheStill DEF LastMsg
<1>4. \A p \in Subs : MustHold(p)' => MustHold(p)
  BY <1>2, <1>3 DEF MustHold, Waits
<1>5. ASSUME NEW p \in Subs, p # s PROVE PlayerKey(p)'
  BY <1>1, <1>4, <1>5, KeyStill DEF KeyInv
<1>6. PlayerKey(s)'
  <2>1. Response \notin Video
    BY Disjoint DEF Stream
  <2>2. ~ MustHold(s)'
    BY <1>1, <1>2 DEF MustHold
  <2>3. Preceded(got'[s])
    BY <1>1, <2>1 DEF Preceded
  <2>4. QED
    BY <2>2, <2>3 DEF PlayerKey, Preceded
<1>7. QED
  BY <1>3, <1>5, <1>6 DEF KeyInv

LEMMA DelInKeepsKey ==
  ASSUME Locked, Base, KeyInv, delIn
  PROVE  KeyInv'
<1>1. bc = {} /\ Clear /\ UNCHANGED <<conn, open, joined, fresh, got, bc, fed>>
  BY DelInKeeps
<1>2. Gops' = << >>
  BY <1>1, ClearEmpties DEF Base, FanTypes
<1>3. \A p \in Subs : ~ MustHold(p)'
  BY <1>1, <1>2 DEF MustHold
<1>4. \A p \in Subs : PlayerKey(p)'
  BY <1>1, <1>3, KeyStill DEF KeyInv
<1>5. QED
  BY <1>2, <1>4 DEF KeyInv

LEMMA MsgKeepsKey ==
  ASSUME Locked, Base, KeyInv, NEW m \in Stream, OnMsg(m)
  PROVE  KeyInv'
<1>1. /\ bc = {} /\ bc' = {[msg |-> m, todo |-> joined]}
      /\ UNCHANGED <<vars, conn, open, joined, fresh, got>>
  BY MsgKeeps
<1>2. Gops' = Gops /\ header' = header
  BY <1>1, CacheStill
<1>3. ASSUME NEW p \in Subs, MustHold(p)' PROVE MustHold(p)
  <2>1. p \in joined
    BY <1>1, <1>3 DEF MustHold
  <2>2. Waits(p)'
    <3>1. p \in [msg |-> m, todo |-> joined].todo
      BY <2>1
    <3>2. QED
      BY <1>1, <3>1 DEF Waits
  <2>3. QED
    BY <1>1, <1>2, <1>3, <2>2 DEF MustHold
<1>4. \A p \in Subs : PlayerKey(p)'
  BY <1>1, <1>3, KeyStill DEF KeyInv
<1>5. QED
  BY <1>2, <1>4 DEF KeyInv

LEMMA TurnKeepsKey ==
  ASSUME Base, CacheWhole, KeyInv, NEW T, NEW s \in T, TurnOf(s, T)
  PROVE  KeyInv'
<1> DEFINE m == LastMsg
<1>1. /\ Forwarding /\ T \subseteq joined
      /\ bc = {[msg |-> m, todo |-> T]} /\ bc' = {[msg |-> m, todo |-> T \ {s}]}
      /\ UNCHANGED <<vars, conn, open, joined, fed>>
  BY DEF TurnOf
<1>2. /\ s \in joined /\ s \in Subs
      /\ \A p \in Subs : p # s => got'[p] = got[p] /\ (p \in fresh' <=> p \in fresh)
      /\ s \notin open => got'[s] = got[s]
      /\ s \in open => \/ Given(s, m) /\ got'[s] = Append(Before(s), m)
                       \/ NotGiven(s, m)
  BY TurnKeeps
<1>3. FanTypes /\ m \in Sent /\ Gops' = Gops /\ header' = header /\ LastMsg' = m
  <2>1. FanTypes /\ m \in Stream
    BY <1>1, LastMsgIs DEF Base, Forwarding
  <2>2. QED
    BY <1>1, <2>1, CacheStill DEF Sent, LastMsg
<1>4. /\ m \in Video => header[VideoHeader] # None
      /\ m \in Video \ Keys => Gops # << >>
  BY <1>1, <1>3, EmptyRing DEF Forwarding, FanTypes
<1> HIDE DEF m
<1>5. ASSUME NEW p \in Subs, p # s PROVE PlayerKey(p)'
  <2>1. Waits(p)' <=> Waits(p)
    <3>1. (Waits(p) <=> p \in T) /\ (Waits(p)' <=> p \in T \ {s})
      BY <1>1 DEF Waits
    <3>2. QED
      BY <1>5, <3>1
  <2>2. MustHold(p)' => MustHold(p)
    BY <1>1, <1>2, <1>3, <1>5, <2>1 DEF MustHold, m
  <2>3. QED
    BY <1>2, <1>5, <2>2, KeyStill DEF KeyInv
<1>6. PlayerKey(s) /\ Waits(s)
  BY <1>1, <1>2 DEF KeyInv, Waits
<1>7. CASE s \notin open
  <2>1. ~ MustHold(s)'
    BY <1>1, <1>7 DEF MustHold
  <2>2. PlayerKey(s)'
    BY <1>2, <1>6, <1>7, <2>1, KeyStill
  <2>3. QED
    BY <1>2, <1>3, <1>5, <2>2 DEF KeyInv
<1>8. CASE s \in open /\ NotGiven(s, m)
  <2>1. got' = got /\ fresh' = fresh /\ (s \in fresh \/ m \notin Video)
    BY <1>8 DEF NotGiven
  <2>2. MustHold(s)' => MustHold(s)
    BY <1>1, <1>3, <2>1, Disjoint DEF MustHold
  <2>3. PlayerKey(s)'
    BY <1>6, <2>1, <2>2, KeyStill
  <2>4. QED
    BY <1>2, <1>3, <1>5, <2>3 DEF KeyInv
<1>9. CASE s \in open /\ Given(s, m) /\ got'[s] = Append(Before(s), m)
  <2> DEFINE b == Before(s)
  <2>1. /\ b \in Seq(Sent) /\ Preceded(b)
        /\ HasKey(got[s]) => HasKey(b)
        /\ s \in fresh /\ s \notin TsSubs /\ Gops # << >> => HasKey(b)
    BY <1>2, <1>3, <1>6, BeforeType, BeforeBegins DEF PlayerKey
  <2> HIDE DEF b
  <2>2. s \in TsSubs /\ s \in fresh =>
          m \in Keys \/ (m \notin Video /\ header[VideoHeader] = None)
    <3>1. SUFFICES ASSUME s \in TsSubs, s \in fresh
                   PROVE  m \in Keys \/ (m \notin Video /\ header[VideoHeader] = None)
      OBVIOUS
    <3>2. TRUE \in Packets(m)
      BY <1>9, <3>1 DEF Given
    <3>3. ~ IsHeader(m)
      <4>1. m \in Keys => ~ IsHeader(m)
        BY Disjoint DEF Stream
      <4>2. m \in Video \ Keys => ~ IsHeader(m)
        BY Disjoint DEF Stream
      <4>3. IsHeader(m) => Packets(m) = {}
        BY <4>1, <4>2 DEF Packets
      <4>4. QED
        BY <3>2, <4>3
    <3>4. m \notin Video \ Keys
      BY <3>2, <3>3, Disjoint DEF Packets
    <3>5. m \notin Keys => header[VideoHeader] = None
      BY <3>2, <3>3, <3>4 DEF Packets
    <3>6. QED
      BY <3>4, <3>5
  <2>3. Gops # << >> => HasKey(b) \/ m \in Keys
    <3>1. CASE s \notin fresh
      <4>1. Gops # << >> => MustHold(s)
        BY <1>2, <1>9, <3>1 DEF MustHold
      <4>2. QED
        BY <1>6, <2>1, <4>1 DEF PlayerKey
    <3>2. CASE s \in fresh /\ s \notin TsSubs
      BY <2>1, <3>2
    <3>3. CASE s \in fresh /\ s \in TsSubs
      BY <2>2, <3>3 DEF KeyInv
    <3>4. QED
      BY <3>1, <3>2, <3>3
  <2>4. m \in Video \ Keys => HasKey(b)
    BY <1>4, <2>3
  <2>5. /\ Preceded(Append(b, m))
        /\ HasKey(b) \/ m \in Keys => HasKey(Append(b, m))
    BY <1>3, <2>1, <2>4, PrecededNext
  <2>6. MustHold(s)' => HasKey(Append(b, m))
    BY <1>3, <2>3, <2>5 DEF MustHold
  <2>7. got'[s] = Append(b, m)
    BY <1>9 DEF b
  <2>8. PlayerKey(s)'
    BY <2>5, <2>6, <2>7 DEF PlayerKey, Preceded, HasKey
  <2>9. QED
    BY <1>2, <1>3, <1>5, <2>8 DEF KeyInv
<1>10. QED
  BY <1>2, <1>7, <1>8, <1>9

LEMMA FeedKeepsKey ==
  ASSUME Base, KeyInv, broadcastFeeds
  PROVE  KeyInv'
<1> DEFINE m == LastMsg
<1>1. /\ Base' /\ Forwarding /\ bc' = {} /\ CacheFeed(m) /\ m \in Stream
      /\ bc = {[msg |-> m, todo |-> {}]}
      /\ UNCHANGED <<conn, open, joined, fresh, got, fed>>
  BY FeedKeeps
<1>2. TypeOK /\ TypeOK' /\ header \in [HeaderKinds -> {None} \cup AllHeaders]
  BY <1>1 DEF Base, FanTypes, TypeOK, AllHeaders
<1>3. m \in Video => header[VideoHeader] # None
  BY <1>1 DEF Forwarding
<1>4. \A p : ~ Waits(p)
  BY <1>1 DEF Waits
<1> HIDE DEF m
<1>5. \/ m \in AllHeaders /\ Gops' = Gops /\ header' = [header EXCEPT ![KindOf(m)] = m]
      \/ m \in Keys /\ header' = header
      \/ header' = header /\ (Gops' # << >> => Gops # << >>)
  BY <1>1, <1>2, CacheFeedIs
<1>6. header[VideoHeader] # None => header'[VideoHeader] # None
  <2>1. CASE m \in AllHeaders /\ header' = [header EXCEPT ![KindOf(m)] = m]
    <3>1. m # None
      BY <2>1, NoneFresh DEF AllHeaders
    <3>2. VideoHeader \in HeaderKinds
      BY FanoutConstants
    <3>3. QED
      BY <1>2, <2>1, <3>1, <3>2
  <2>2. CASE header' = header
    BY <2>2
  <2>3. QED
    BY <1>5, <2>1, <2>2
<1>7. Gops' # << >> => header'[VideoHeader] # None
  BY <1>3, <1>5, <1>6, Disjoint DEF KeyInv
<1>8. ASSUME NEW p \in Subs PROVE PlayerKey(p)'
  <2>1. MustHold(p)' => MustHold(p)
    BY <1>1, <1>4, <1>5 DEF MustHold, m
  <2>2. QED
    BY <1>1, <2>1, KeyStill DEF KeyInv
<1>9. QED
  BY <1>7, <1>8 DEF KeyInv

LEMMA KeysStep ==
  ASSUME Locked, Base, CacheWhole, KeyInv, [FanNext]_allVars
  PROVE  KeyInv'
<1>1. ASSUME NEW s \in Subs,
             Accept(s) \/ ReadRequestFails(s) \/ AddSubSession(s) \/ Closes(s) \/ DelSubSession(s)
      PROVE  KeyInv'
  BY <1>1, SessionsKeepKey
<1>2. ASSUME NEW s \in Subs, ReadRequest(s) PROVE KeyInv'
  BY <1>2, RequestKeepsKey
<1>3. CASE addIn \/ UNCHANGED allVars
  BY <1>3, SessionsKeepKey
<1>4. CASE delIn
  BY <1>4, DelInKeepsKey
<1>5. CASE broadcastWrites
  <2>1. PICK T \in SUBSET joined : \E s \in T : TurnOf(s, T)
    BY <1>5, WritesOne DEF Base
  <2>2. PICK s \in T : TurnOf(s, T)
    BY <2>1
  <2>3. QED
    BY <2>2, TurnKeepsKey
<1>6. CASE broadcastFeeds
  BY <1>6, FeedKeepsKey
<1>7. ASSUME NEW m \in Msgs \cup UNION {Headers[k] : k \in HeaderKinds}, OnMsg(m) PROVE KeyInv'
  BY <1>7, MsgKeepsKey DEF Stream, AllHeaders
<1>8. QED
  BY <1>1, <1>2, <1>3, <1>4, <1>5, <1>6, <1>7 DEF FanNext

LEMMA KeysInit == FanInit => KeyInv
<1> SUFFICES ASSUME FanInit PROVE KeyInv
  OBVIOUS
<1>1. Init /\ TypeOK /\ joined = {} /\ got = [s \in Subs |-> << >>] /\ DOMAIN << >> = {}
  BY TypeInit, EmptySeq DEF FanInit
<1>2. Gops = << >>
  BY <1>1, EmptyRing DEF Init, isGOPRingEmpty
<1>3. ASSUME NEW s \in Subs PROVE PlayerKey(s)
  <2>1. got[s] = << >> /\ ~ MustHold(s)
    BY <1>1 DEF MustHold
  <2>2. QED
    BY <1>1, <2>1 DEF PlayerKey, Preceded
<1>4. QED
  BY <1>2, <1>3 DEF KeyInv

\* Of two numbers a key frame stands between, the last such one.
LEMMA LastKeyBefore ==
  ASSUME NEW F, Numbered(F), NEW a \in DOMAIN F, F[a].msg \in Keys, NEW n \in Nat, a < n
  PROVE  \E c \in a .. n - 1 : F[c].msg \in Keys /\ \A x \in c + 1 .. n - 1 : F[x].msg \notin Keys
<1> DEFINE S == {d \in Nat : n - 1 - d \in a .. n - 1 /\ F[n - 1 - d].msg \in Keys}
<1>1. a \in Nat /\ n - 1 - a \in Nat /\ n - 1 - (n - 1 - a) = a /\ a \in a .. n - 1
  BY DEF Numbered
<1>2. n - 1 - a \in S
  <2>1. F[n - 1 - (n - 1 - a)].msg \in Keys
    BY <1>1
  <2>2. QED
    BY <1>1, <2>1
<1>3. S \subseteq Nat
  OBVIOUS
<1> HIDE DEF S
<1>4. PICK d \in S : \A e \in S : d <= e
  BY <1>2, <1>3, LeastNat
<1>5. d \in Nat /\ n - 1 - d \in a .. n - 1 /\ F[n - 1 - d].msg \in Keys
  BY <1>4 DEF S
<1>6. ASSUME NEW x \in (n - 1 - d) + 1 .. n - 1, F[x].msg \in Keys PROVE FALSE
  <2>1. n - 1 - x \in Nat /\ n - 1 - (n - 1 - x) = x /\ x \in a .. n - 1 /\ n - 1 - x < d
    BY <1>1, <1>5
  <2>2. F[n - 1 - (n - 1 - x)].msg \in Keys
    BY <1>6, <2>1
  <2>3. n - 1 - x \in S
    BY <2>1, <2>2 DEF S
  <2>4. QED
    BY <1>4, <1>5, <2>1, <2>3
<1>7. QED
  BY <1>5, <1>6

LEMMA KeyIsStart ==
  ASSUME Base, WholeInv, KeyInv
  PROVE  StartsAtKeyFrame
<1> SUFFICES ASSUME NEW s \in Subs, NEW i \in DOMAIN got[s], got[s][i] \in Video \ Keys
             PROVE  \E j \in 1 .. i - 1 :
                      /\ got[s][j] \in Keys
                      /\ \A n \in got[s][j][2] + 1 .. got[s][i][2] - 1 : fed[n].msg \notin Keys
  BY DEF StartsAtKeyFrame
<1> DEFINE g == got[s]
           W == Wanted(s)
<1>1. /\ Faithful(g, W, fed) /\ InOrder(g, W) /\ NoGap(g, W, fed) /\ Numbered(fed)
      /\ Preceded(g) /\ g \in Seq(Sent) /\ Video \subseteq W /\ Keys \subseteq Video
  BY WantedIs, Disjoint DEF WholeInv, PlayerWhole, Whole, Base, FanTypes, KeyInv, PlayerKey
<1>2. DOMAIN g = 1 .. Len(g) /\ Len(g) \in Nat
  BY <1>1, LenProperties
<1>3. i \in DOMAIN g /\ g[i] \in Video \ Keys
  OBVIOUS
<1> HIDE DEF g, W
<1>4. PICK k \in DOMAIN g : k < i /\ g[k] \in Keys
  BY <1>1, <1>3 DEF Preceded
<1> DEFINE a == g[k][2]
           n == g[i][2]
<1>5. /\ a \in DOMAIN fed /\ fed[a].msg = g[k] /\ n \in DOMAIN fed /\ fed[n].msg = g[i]
      /\ a \in Nat /\ n \in Nat /\ a < n /\ n <= Len(fed) /\ DOMAIN fed = 1 .. Len(fed)
  <2>1. g[k] \in W /\ g[i] \in W
    BY <1>1, <1>3, <1>4
  <2>2. a \in DOMAIN fed /\ fed[a].msg = g[k] /\ n \in DOMAIN fed /\ fed[n].msg = g[i]
    BY <1>1, <1>3, <2>1 DEF Faithful
  <2>3. a < n
    BY <1>1, <1>3, <1>4, <2>1 DEF InOrder
  <2>4. QED
    BY <1>1, <2>2, <2>3 DEF Numbered
<1>6. NoGap(g, W, fed) => \A x \in a .. n : fed[x].msg \in W => Has(g, fed[x].msg)
  BY <1>1, <1>3, <1>4 DEF NoGap
<1> HIDE DEF a, n
<1>7. PICK c \in a .. n - 1 : fed[c].msg \in Keys /\ \A x \in c + 1 .. n - 1 : fed[x].msg \notin Keys
  BY <1>1, <1>4, <1>5, LastKeyBefore
<1>8. c \in a .. n /\ c \in DOMAIN fed /\ c \in Nat /\ c < n
  BY <1>5, <1>7
<1>9. PICK j \in DOMAIN g : g[j] = fed[c].msg
  BY <1>1, <1>6, <1>7, <1>8 DEF Has
<1>10. g[j][2] = c /\ g[j] \in W
  BY <1>1, <1>7, <1>8, <1>9 DEF Numbered
<1>11. j < i
  <2>1. SUFFICES ASSUME ~ (j < i) PROVE FALSE
    OBVIOUS
  <2>2. i = j \/ i < j
    BY <1>2, <1>3, <2>1
  <2>3. i # j
    BY <1>3, <1>7, <1>9
  <2>4. n < c
    BY <1>1, <1>3, <1>10, <2>2, <2>3 DEF InOrder, n
  <2>5. QED
    BY <1>5, <1>8, <2>4
<1>12. j \in 1 .. i - 1 /\ g[j] \in Keys /\ \A x \in g[j][2] + 1 .. n - 1 : fed[x].msg \notin Keys
  BY <1>2, <1>3, <1>7, <1>9, <1>10, <1>11
<1>13. QED
  BY <1>12 DEF g, n

\* While messages come under the group's mutex, no player ever gets a picture without the
\* key frame of its GOP: an RTMP or HTTP-FLV player starts in the cache, which begins with
\* one, an HTTP-TS player waits for one (broadcastRTMP, OnTSPackets).
THEOREM NothingBeforeItsKeyFrame ==
  ASSUME Locked
  PROVE  FanSpec => []StartsAtKeyFrame
<1>1. FanInit => Base /\ WholeInv /\ KeyInv
  BY BaseInit, WholeInit, KeysInit
<1>2. Base /\ WholeInv /\ KeyInv /\ [FanNext]_allVars => Base' /\ WholeInv' /\ KeyInv'
  BY BaseStep, WholeStep, KeysStep DEF WholeInv
<1>3. Base /\ WholeInv /\ KeyInv => StartsAtKeyFrame
  BY KeyIsStart
<1>4. QED
  BY <1>1, <1>2, <1>3, PTL DEF FanSpec

-----------------------------------------------------------------------------
(* Each message behind its headers.                                        *)

\* Ahead of g's i-th element the last header of kind k is h; it is the last one in g.
Ahead(g, i, k, h) ==
  \E j \in DOMAIN g : /\ j < i /\ g[j] = h
                      /\ \A l \in DOMAIN g : j < l /\ l < i => g[l] \notin Headers[k]
Ends(g, k, h) == Ahead(g, Len(g) + 1, k, h)

\* Every message of g is behind the headers it has in the stream F.
Decodable(g, F) ==
  \A i \in DOMAIN g : g[i] \in Msgs => \A k \in HeaderKinds :
    F[g[i][2]].header[k] # None => Ahead(g, i, k, F[g[i][2]].header[k])

\* The header of a kind a player has: one under way goes to the players before it goes to
\* the cache.
HeaderOf(s, k) ==
  IF bc # {} /\ ~ Waits(s) /\ LastMsg \in Headers[k] THEN LastMsg ELSE header[k]

\* What the cache holds was sent under the headers it holds.
CacheHeaders ==
  \A i \in DOMAIN Flat : \A k \in HeaderKinds : fed[Flat[i][2]].header[k] \in {None, header[k]}

PlayerHeaders(s) ==
  s \notin TsSubs =>
    /\ Decodable(got[s], fed)
    /\ s \in joined /\ s \in open /\ s \notin fresh =>
         \A k \in HeaderKinds : HeaderOf(s, k) # None => Ends(got[s], k, HeaderOf(s, k))

HeaderInv == CacheHeaders /\ \A s \in Subs : PlayerHeaders(s)

LEMMA AheadStays ==
  ASSUME NEW g, NEW b, NEW n \in Nat, DOMAIN g = 1 .. n, DOMAIN b \subseteq Nat \ {0},
         \A i \in DOMAIN g : i \in DOMAIN b /\ b[i] = g[i],
         NEW i \in 1 .. n + 1, NEW k, NEW h, Ahead(g, i, k, h)
  PROVE  Ahead(b, i, k, h)
<1>1. PICK j \in DOMAIN g : /\ j < i /\ g[j] = h
                            /\ \A l \in DOMAIN g : j < l /\ l < i => g[l] \notin Headers[k]
  BY DEF Ahead
<1>2. \A l \in DOMAIN b : l < i => l \in DOMAIN g
  OBVIOUS
<1>3. QED
  BY <1>1, <1>2 DEF Ahead

\* The next element.
LEMMA NextEnds ==
  ASSUME NEW A, NEW g \in Seq(A), NEW x \in A, NEW k, NEW h,
         x = h \/ (Ends(g, k, h) /\ x \notin Headers[k])
  PROVE  Ends(Append(g, x), k, h)
<1> DEFINE b == Append(g, x)
           n == Len(g)
<1>1. /\ DOMAIN g = 1 .. n /\ DOMAIN b = 1 .. n + 1 /\ n \in Nat /\ Len(b) = n + 1
      /\ b[n + 1] = x /\ \A i \in 1 .. n : b[i] = g[i]
  BY AppendProperties, LenProperties
<1> HIDE DEF b, n
<1>2. CASE x = h
  <2>1. n + 1 \in DOMAIN b /\ n + 1 < Len(b) + 1
    BY <1>1
  <2>2. \A l \in DOMAIN b : ~ (n + 1 < l)
    BY <1>1
  <2>3. QED
    BY <1>1, <1>2, <2>1, <2>2 DEF Ends, Ahead, b
<1>3. CASE Ends(g, k, h) /\ x \notin Headers[k]
  <2>1. PICK j \in DOMAIN g : /\ j < n + 1 /\ g[j] = h
                              /\ \A l \in DOMAIN g : j < l /\ l < n + 1 => g[l] \notin Headers[k]
    BY <1>3 DEF Ends, Ahead, n
  <2>2. j \in DOMAIN b /\ j < Len(b) + 1 /\ b[j] = h
    BY <1>1, <2>1
  <2>3. ASSUME NEW l \in DOMAIN b, j < l PROVE b[l] \notin Headers[k]
    <3>1. l = n + 1 \/ (l \in DOMAIN g /\ l < n + 1)
      BY <1>1
    <3>2. QED
      BY <1>1, <1>3, <2>1, <2>3, <3>1
  <2>4. QED
    BY <2>2, <2>3 DEF Ends, Ahead, b
<1>4. QED
  BY <1>2, <1>3

LEMMA NextDecodable ==
  ASSUME NEW A, NEW g \in Seq(A), NEW x \in A, NEW F, Decodable(g, F),
         x \in Msgs => \A k \in HeaderKinds :
           F[x[2]].header[k] # None => Ends(g, k, F[x[2]].header[k])
  PROVE  Decodable(Append(g, x), F)
<1> DEFINE b == Append(g, x)
           n == Len(g)
<1>1. /\ DOMAIN g = 1 .. n /\ DOMAIN b = 1 .. n + 1 /\ n \in Nat
      /\ b[n + 1] = x /\ \A i \in 1 .. n : b[i] = g[i]
  BY AppendProperties, LenProperties
<1> HIDE DEF b, n
<1>2. /\ \A i \in DOMAIN g : i \in DOMAIN b /\ b[i] = g[i]
      /\ DOMAIN b \subseteq Nat \ {0}
  BY <1>1
<1> SUFFICES ASSUME NEW i \in DOMAIN b, b[i] \in Msgs, NEW k \in HeaderKinds,
                    F[b[i][2]].header[k] # None
             PROVE  Ahead(b, i, k, F[b[i][2]].header[k])
  BY DEF Decodable, b
<1>3. i \in 1 .. n + 1
  BY <1>1
<1> DEFINE h == F[b[i][2]].header[k]
<1>4. Ahead(g, i, k, h)
  <2>1. CASE i \in DOMAIN g
    BY <1>2, <2>1 DEF Decodable
  <2>2. CASE i = n + 1
    BY <1>1, <2>2 DEF Ends, n
  <2>3. QED
    BY <1>1, <1>3, <2>1, <2>2
<1> HIDE DEF h
<1>5. Ahead(b, i, k, h)
  BY <1>1, <1>2, <1>3, <1>4, AheadStays
<1>6. QED
  BY <1>5 DEF h

\* Headers behind headers.
LEMMA EndsAfter ==
  ASSUME NEW A, NEW g \in Seq(A), NEW c \in Seq(A), NEW k, NEW h, Ends(c, k, h)
  PROVE  Ends(g \o c, k, h)
<1> DEFINE b == g \o c
           d == Len(g)
           n == Len(c)
<1>1. /\ d \in Nat /\ n \in Nat /\ DOMAIN c = 1 .. n /\ Len(b) = d + n /\ b \in Seq(A)
      /\ \A i \in 1 .. d + n : b[i] = IF i <= d THEN g[i] ELSE c[i - d]
  BY ConcatProperties, LenProperties
<1>2. DOMAIN b = 1 .. d + n
  BY <1>1, LenProperties
<1> HIDE DEF b, d, n
<1>3. PICK j \in DOMAIN c : /\ j < n + 1 /\ c[j] = h
                            /\ \A l \in DOMAIN c : j < l /\ l < n + 1 => c[l] \notin Headers[k]
  BY DEF Ends, Ahead, n
<1>4. /\ d + j \in 1 .. d + n /\ ~ (d + j <= d) /\ (d + j) - d = j /\ d + j < Len(b) + 1
  BY <1>1, <1>3
<1>5. d + j \in DOMAIN b /\ b[d + j] = h
  BY <1>1, <1>2, <1>3, <1>4
<1>6. ASSUME NEW l \in DOMAIN b, d + j < l PROVE b[l] \notin Headers[k]
  <2>1. l \in 1 .. d + n /\ ~ (l <= d) /\ l - d \in 1 .. n /\ j < l - d /\ l - d < n + 1
    BY <1>1, <1>2, <1>3, <1>6
  <2>2. b[l] = c[l - d]
    BY <1>1, <2>1
  <2>3. QED
    BY <1>1, <1>3, <2>1, <2>2
<1>7. QED
  BY <1>4, <1>5, <1>6 DEF Ends, Ahead, b

\* Messages behind headers.
LEMMA AheadOfMessages ==
  ASSUME NEW A, NEW g \in Seq(A), NEW f \in Seq(A), \A i \in DOMAIN f : f[i] \in Msgs,
         NEW k \in HeaderKinds, NEW h, Ends(g, k, h),
         NEW i \in Len(g) + 1 .. Len(g) + Len(f) + 1
  PROVE  Ahead(g \o f, i, k, h)
<1> DEFINE b == g \o f
           d == Len(g)
           n == Len(f)
<1>1. /\ d \in Nat /\ n \in Nat /\ DOMAIN g = 1 .. d /\ DOMAIN f = 1 .. n /\ b \in Seq(A)
      /\ Len(b) = d + n
      /\ \A x \in 1 .. d + n : b[x] = IF x <= d THEN g[x] ELSE f[x - d]
  BY ConcatProperties, LenProperties
<1>2. DOMAIN b = 1 .. d + n
  BY <1>1, LenProperties
<1>3. i \in d + 1 .. d + n + 1
  OBVIOUS
<1> HIDE DEF b, d, n
<1>4. PICK j \in DOMAIN g : /\ j < d + 1 /\ g[j] = h
                            /\ \A l \in DOMAIN g : j < l /\ l < d + 1 => g[l] \notin Headers[k]
  BY DEF Ends, Ahead, d
<1>5. j \in DOMAIN b /\ b[j] = h /\ j < i
  BY <1>1, <1>2, <1>3, <1>4
<1>6. ASSUME NEW l \in DOMAIN b, j < l PROVE b[l] \notin Headers[k]
  <2>1. CASE l <= d
    <3>1. l \in DOMAIN g /\ l < d + 1 /\ b[l] = g[l]
      BY <1>1, <1>2, <2>1
    <3>2. QED
      BY <1>4, <1>6, <3>1
  <2>2. CASE ~ (l <= d)
    <3>1. l - d \in DOMAIN f /\ b[l] = f[l - d]
      BY <1>1, <1>2, <2>2
    <3>2. b[l] \in Msgs
      BY <3>1
    <3>3. QED
      BY <3>2, FanoutConstants
  <2>3. QED
    BY <2>1, <2>2
<1>7. QED
  BY <1>5, <1>6 DEF Ahead, b

LEMMA NoMessages ==
  ASSUME NEW g, NEW F, \A i \in DOMAIN g : g[i] \notin Msgs
  PROVE  Decodable(g, F)
BY DEF Decodable

LEMMA DecodableAfter ==
  ASSUME NEW A, NEW g \in Seq(A), NEW f \in Seq(A), \A i \in DOMAIN f : f[i] \in Msgs,
         NEW F, Decodable(g, F),
         \A i \in DOMAIN f : \A k \in HeaderKinds :
           F[f[i][2]].header[k] # None => Ends(g, k, F[f[i][2]].header[k])
  PROVE  Decodable(g \o f, F)
<1> DEFINE b == g \o f
           d == Len(g)
           n == Len(f)
<1>1. /\ d \in Nat /\ n \in Nat /\ DOMAIN g = 1 .. d /\ DOMAIN f = 1 .. n /\ b \in Seq(A)
      /\ Len(b) = d + n
      /\ \A x \in 1 .. d + n : b[x] = IF x <= d THEN g[x] ELSE f[x - d]
  BY ConcatProperties, LenProperties
<1>2. DOMAIN b = 1 .. d + n
  BY <1>1, LenProperties
<1> SUFFICES ASSUME NEW i \in DOMAIN b, b[i] \in Msgs, NEW k \in HeaderKinds,
                    F[b[i][2]].header[k] # None
             PROVE  Ahead(b, i, k, F[b[i][2]].header[k])
  BY DEF Decodable
<1> DEFINE h == F[b[i][2]].header[k]
<1> HIDE DEF b, d, n
<1>3. CASE i <= d
  <2>1. i \in DOMAIN g /\ b[i] = g[i] /\ i \in 1 .. d + 1
    BY <1>1, <1>2, <1>3
  <2>2. Ahead(g, i, k, h)
    BY <2>1 DEF Decodable
  <2>3. \A x \in DOMAIN g : x \in DOMAIN b /\ b[x] = g[x]
    BY <1>1, <1>2
  <2>4. DOMAIN b \subseteq Nat \ {0}
    BY <1>1, <1>2
  <2> HIDE DEF h
  <2>5. Ahead(b, i, k, h)
    BY <1>1, <2>1, <2>2, <2>3, <2>4, AheadStays
  <2>6. QED
    BY <2>5 DEF h
<1>4. CASE ~ (i <= d)
  <2>1. i - d \in DOMAIN f /\ b[i] = f[i - d] /\ i \in d + 1 .. d + n + 1
    BY <1>1, <1>2, <1>4
  <2>2. Ends(g, k, h)
    BY <2>1
  <2> HIDE DEF h
  <2>3. Ahead(g \o f, i, k, h)
    BY <2>1, <2>2, AheadOfMessages DEF d, n
  <2>4. QED
    BY <2>3 DEF h, b
<1>5. QED
  BY <1>3, <1>4

LEMMA CachedHeadersEnd ==
  ASSUME FanTypes, NEW k \in HeaderKinds, header[k] # None
  PROVE  Ends(CachedHeaders, k, header[k])
<1> DEFINE c == CachedHeaders
           h == header[k]
           n == Len(c)
           S == {x \in Nat : \E j \in DOMAIN c : c[j] = h /\ j + x = n}
<1>1. /\ Has(c, h) /\ c \in Seq(AllHeaders) /\ h \in Headers[k]
      /\ \A i \in DOMAIN c : \E q \in HeaderKinds : header[q] # None /\ c[i] = header[q]
  BY CachedType DEF FanTypes
<1>2. n \in Nat /\ DOMAIN c = 1 .. n
  BY <1>1, LenProperties
<1>3. \A i \in DOMAIN c : c[i] \in Headers[k] => c[i] = h
  <2> SUFFICES ASSUME NEW i \in DOMAIN c, c[i] \in Headers[k] PROVE c[i] = h
    OBVIOUS
  <2>1. PICK q \in HeaderKinds : header[q] # None /\ c[i] = header[q]
    BY <1>1
  <2>2. c[i] \in Headers[q]
    BY <2>1 DEF FanTypes
  <2>3. q = k
    BY <2>2, FanoutConstants
  <2>4. QED
    BY <2>1, <2>3
<1> HIDE DEF c, h, n
<1>4. S # {} /\ S \subseteq Nat
  <2>1. PICK j \in DOMAIN c : c[j] = h
    BY <1>1 DEF Has
  <2>2. n - j \in Nat /\ j + (n - j) = n
    BY <1>2
  <2>3. QED
    BY <2>1, <2>2
<1> HIDE DEF S
<1>5. PICK x \in S : \A y \in S : x <= y
  BY <1>4, LeastNat
<1>6. x \in Nat /\ \E j \in DOMAIN c : c[j] = h /\ j + x = n
  BY <1>5 DEF S
<1>7. PICK j \in DOMAIN c : c[j] = h /\ j + x = n
  BY <1>6
<1>8. ASSUME NEW l \in DOMAIN c, j < l PROVE c[l] \notin Headers[k]
  <2>1. SUFFICES ASSUME c[l] \in Headers[k] PROVE FALSE
    OBVIOUS
  <2>2. n - l \in Nat /\ l + (n - l) = n /\ n - l < x
    BY <1>2, <1>6, <1>7, <1>8
  <2>3. n - l \in S
    BY <1>3, <2>1, <2>2 DEF S
  <2>4. QED
    BY <1>5, <1>6, <2>2, <2>3
<1>9. j < n + 1
  BY <1>2
<1>10. QED
  BY <1>7, <1>8, <1>9 DEF Ends, Ahead, c, h, n

\* What a player has when a message comes to it.
LEMMA BeforeHeaders ==
  ASSUME FanTypes, CacheHeaders, NEW s \in Subs, Session(s), s \in fresh, s \notin TsSubs
  PROVE  /\ Decodable(Before(s), fed)
         /\ \A k \in HeaderKinds : header[k] # None => Ends(Before(s), k, header[k])
<1> DEFINE g == got[s]
           c == CachedHeaders
           f == Flat
           b == g \o c
<1>1. /\ g \in Seq(Sent) /\ c \in Seq(Sent) /\ f \in Seq(Sent)
      /\ \A i \in DOMAIN c : c[i] \notin Msgs
      /\ \A i \in DOMAIN g : g[i] \notin Msgs
      /\ \A i \in DOMAIN f : f[i] \in Msgs
  <2>1. AllHeaders \subseteq Sent /\ Msgs \subseteq Sent
    BY DEF Sent, Stream
  <2>2. c \in Seq(AllHeaders) /\ f \in Seq(Msgs)
    BY CachedType DEF Flat
  <2>3. c \in Seq(Sent) /\ f \in Seq(Sent)
    BY <2>1, <2>2, SeqMonotonic
  <2>4. \A i \in DOMAIN c : c[i] \in AllHeaders
    BY <2>2, LenProperties, ElementOfSeq
  <2>5. \A i \in DOMAIN f : f[i] \in Msgs
    BY <2>2, LenProperties, ElementOfSeq
  <2>6. g \in Seq(Sent)
    BY DEF FanTypes
  <2>7. \A i \in DOMAIN g : g[i] \notin Msgs
    BY NothingYet, Disjoint DEF Session, Stream
  <2>8. QED
    BY <2>3, <2>4, <2>5, <2>6, <2>7, Disjoint
<1>2. Before(s) = g \o (c \o f)
  BY DEF Before, Cached, Flat
<1>3. \A k \in HeaderKinds : header[k] # None => Ends(c, k, header[k])
  BY CachedHeadersEnd
<1>4. \A i \in DOMAIN f : \A k \in HeaderKinds : fed[f[i][2]].header[k] \in {None, header[k]}
  BY DEF CacheHeaders
<1> HIDE DEF g, c, f
<1>5. b \in Seq(Sent) /\ g \o (c \o f) = b \o f
  <2>1. g \o c \in Seq(Sent)
    BY <1>1, ConcatProperties
  <2>2. g \o (c \o f) = (g \o c) \o f
    BY <1>1, ConcatAssociative
  <2>3. QED
    BY <2>1, <2>2
<1>6. Decodable(b, fed)
  <2>1. Len(g) \in Nat /\ Len(c) \in Nat /\ Len(b) = Len(g) + Len(c)
        /\ DOMAIN g = 1 .. Len(g) /\ DOMAIN c = 1 .. Len(c)
        /\ \A i \in 1 .. Len(g) + Len(c) : b[i] = IF i <= Len(g) THEN g[i] ELSE c[i - Len(g)]
    BY <1>1, ConcatProperties, LenProperties
  <2>2. DOMAIN b = 1 .. Len(g) + Len(c)
    BY <1>5, <2>1, LenProperties
  <2> HIDE DEF b
  <2>3. \A i \in DOMAIN b : \/ i \in DOMAIN g /\ b[i] = g[i]
                            \/ i - Len(g) \in DOMAIN c /\ b[i] = c[i - Len(g)]
    BY <2>1, <2>2
  <2>4. \A i \in DOMAIN b : b[i] \notin Msgs
    BY <1>1, <2>3
  <2>5. QED
    BY <2>4, NoMessages
<1>7. \A k \in HeaderKinds : header[k] # None => Ends(b, k, header[k])
  BY <1>1, <1>3, EndsAfter
<1> HIDE DEF b
<1>8. Decodable(b \o f, fed)
  <2>1. \A i \in DOMAIN f : \A k \in HeaderKinds :
          fed[f[i][2]].header[k] # None => Ends(b, k, fed[f[i][2]].header[k])
    BY <1>4, <1>7
  <2>2. QED
    BY <1>1, <1>5, <1>6, <2>1, DecodableAfter
<1>9. ASSUME NEW k \in HeaderKinds, header[k] # None PROVE Ends(b \o f, k, header[k])
  <2>1. Len(b) \in Nat /\ Len(f) \in Nat /\ Len(b \o f) = Len(b) + Len(f)
    BY <1>1, <1>5, ConcatProperties, LenProperties
  <2>2. Len(b \o f) + 1 \in Len(b) + 1 .. Len(b) + Len(f) + 1
    BY <2>1
  <2>3. Ahead(b \o f, Len(b \o f) + 1, k, header[k])
    BY <1>1, <1>5, <1>7, <1>9, <2>2, AheadOfMessages
  <2>4. QED
    BY <2>3 DEF Ends
<1>10. QED
  BY <1>2, <1>5, <1>8, <1>9

Live(s) == s \in joined /\ s \in open /\ s \notin fresh

LEMMA HeadersStill ==
  ASSUME NEW p, PlayerHeaders(p), got'[p] = got[p], fed' = fed,
         Live(p)' => Live(p) /\ \A k \in HeaderKinds : HeaderOf(p, k)' = HeaderOf(p, k)
  PROVE  PlayerHeaders(p)'
<1>1. Decodable(got[p], fed)' <=> Decodable(got[p], fed)
  BY DEF Decodable, Ahead
<1>2. ASSUME NEW k, NEW h PROVE Ends(got'[p], k, h) <=> Ends(got[p], k, h)
  OBVIOUS
<1>3. p \notin TsSubs /\ Live(p)' =>
        \A k \in HeaderKinds : HeaderOf(p, k)' # None => Ends(got'[p], k, HeaderOf(p, k)')
  BY <1>2 DEF PlayerHeaders, Live
<1>4. p \notin TsSubs =>
        /\ Decodable(got[p], fed)'
        /\ Live(p)' => \A k \in HeaderKinds : HeaderOf(p, k)' # None => Ends(got'[p], k, HeaderOf(p, k)')
  BY <1>1, <1>3 DEF PlayerHeaders
<1>5. QED
  BY <1>4 DEF PlayerHeaders, Live, Ends, Ahead

LEMMA CacheHeadersStill ==
  ASSUME CacheHeaders, UNCHANGED vars, fed' = fed
  PROVE  CacheHeaders'
<1>1. Gops' = Gops /\ Flat' = Flat /\ header' = header
  BY CacheStill DEF Flat
<1>2. QED
  BY <1>1 DEF CacheHeaders

LEMMA SessionsKeepHeaders ==
  ASSUME Base, HeaderInv,
         \/ \E s \in Subs : \/ Accept(s) \/ ReadRequestFails(s) \/ AddSubSession(s)
                            \/ Closes(s) \/ DelSubSession(s)
         \/ addIn \/ UNCHANGED allVars
  PROVE  HeaderInv'
<1>1. UNCHANGED <<vars, got, bc, fed>>
  BY DEF Accept, ReadRequestFails, AddSubSession, Closes, DelSubSession, addIn, allVars, fanVars
<1>2. header' = header /\ LastMsg' = LastMsg
  BY <1>1, CacheStill DEF LastMsg
<1>3. CacheHeaders'
  BY <1>1, CacheHeadersStill DEF HeaderInv
<1>4. ASSUME NEW p \in Subs PROVE PlayerHeaders(p)'
  <2>1. PlayerHeaders(p) /\ Session(p)
    BY DEF HeaderInv, Base, Sessions
  <2>2. \A k \in HeaderKinds : HeaderOf(p, k)' = HeaderOf(p, k)
    BY <1>1, <1>2 DEF HeaderOf, Waits
  <2>3. Live(p)' => Live(p)
    BY <2>1 DEF Accept, ReadRequestFails, AddSubSession, Closes, DelSubSession, addIn,
                allVars, fanVars, Session, Live
  <2>4. QED
    BY <1>1, <2>1, <2>2, <2>3, HeadersStill
<1>5. QED
  BY <1>3, <1>4 DEF HeaderInv

LEMMA RequestKeepsHeaders ==
  ASSUME Base, HeaderInv, NEW s \in Subs, ReadRequest(s)
  PROVE  HeaderInv'
<1>1. /\ s \notin joined
      /\ \A p \in Subs : p # s => got'[p] = got[p]
      /\ got'[s] = << >> \/ got'[s] = <<Response>>
  BY RequestKeeps
<1>2. UNCHANGED <<vars, open, joined, fresh, bc, fed>>
  BY DEF ReadRequest
<1>3. header' = header /\ LastMsg' = LastMsg
  BY <1>2, CacheStill DEF LastMsg
<1>4. CacheHeaders'
  BY <1>2, CacheHeadersStill DEF HeaderInv
<1>5. ASSUME NEW p \in Subs, p # s PROVE PlayerHeaders(p)'
  <2>1. \A k \in HeaderKinds : HeaderOf(p, k)' = HeaderOf(p, k)
    BY <1>2, <1>3 DEF HeaderOf, Waits
  <2>2. Live(p)' => Live(p)
    BY <1>2 DEF Live
  <2>3. QED
    BY <1>1, <1>2, <1>5, <2>1, <2>2, HeadersStill DEF HeaderInv
<1>6. PlayerHeaders(s)'
  <2>1. Response \notin Msgs
    BY Disjoint DEF Stream
  <2>2. \A i \in DOMAIN got'[s] : got'[s][i] \notin Msgs
    BY <1>1, <2>1
  <2>3. Decodable(got'[s], fed')
    BY <2>2, NoMessages
  <2>4. s \notin joined'
    BY <1>1, <1>2
  <2>5. QED
    BY <2>3, <2>4 DEF PlayerHeaders, Decodable, Ahead
<1>7. QED
  BY <1>4, <1>5, <1>6 DEF HeaderInv

LEMMA DelInKeepsHeaders ==
  ASSUME Locked, Base, HeaderInv, delIn
  PROVE  HeaderInv'
<1>1. bc = {} /\ Clear /\ UNCHANGED <<conn, open, joined, fresh, got, bc, fed>>
  BY DelInKeeps
<1>2. Gops' = << >> /\ \A k \in HeaderKinds : header'[k] = None
  BY <1>1, ClearEmpties DEF Base, FanTypes
<1>3. Flat' = << >> /\ DOMAIN << >> = {}
  BY <1>2, FlatEmpty, EmptySeq DEF Flat
<1>4. CacheHeaders'
  BY <1>3 DEF CacheHeaders
<1>5. ASSUME NEW p \in Subs PROVE PlayerHeaders(p)'
  <2>1. \A k \in HeaderKinds : HeaderOf(p, k)' = None
    BY <1>1, <1>2 DEF HeaderOf
  <2>2. p \notin TsSubs => Decodable(got'[p], fed')
    BY <1>1 DEF HeaderInv, PlayerHeaders
  <2>3. QED
    BY <2>1, <2>2 DEF PlayerHeaders, Decodable, Ahead
<1>6. QED
  BY <1>4, <1>5 DEF HeaderInv

\* What was sent keeps the headers it was sent under.
LEMMA StreamKeepsHeaders ==
  ASSUME NEW g, NEW F, NEW H, Decodable(g, F), Faithful(g, Msgs, F),
         \A i \in DOMAIN F : H[i] = F[i]
  PROVE  Decodable(g, H)
BY DEF Decodable, Faithful

LEMMA MsgKeepsHeaders ==
  ASSUME Locked, Base, WholeInv, HeaderInv, NEW m \in Stream, OnMsg(m)
  PROVE  HeaderInv'
<1>1. /\ bc = {} /\ bc' = {[msg |-> m, todo |-> joined]}
      /\ \A i \in 1 .. Len(fed) : fed'[i] = fed[i]
      /\ UNCHANGED <<vars, conn, open, joined, fresh, got>>
  BY MsgKeeps
<1>2. header' = header /\ Flat' = Flat /\ \A i \in DOMAIN fed : fed'[i] = fed[i]
  BY <1>1, CacheStill DEF Flat, Base, FanTypes, Numbered
<1>3. CacheHeaders'
  <2>1. Flat \in Seq(Msgs) /\ Faithful(Flat, Msgs, fed)
    BY CacheBegins DEF WholeInv, CacheWhole, Whole, Base
  <2>2. \A i \in DOMAIN Flat : Flat[i] \in Msgs
    BY <2>1, LenProperties, ElementOfSeq
  <2>3. \A i \in DOMAIN Flat : fed'[Flat[i][2]] = fed[Flat[i][2]]
    BY <1>2, <2>1, <2>2 DEF Faithful
  <2>4. QED
    BY <1>2, <2>3 DEF HeaderInv, CacheHeaders
<1>4. ASSUME NEW p \in Subs PROVE PlayerHeaders(p)'
  <2>1. SUFFICES ASSUME p \notin TsSubs PROVE PlayerHeaders(p)'
    BY DEF PlayerHeaders
  <2>2. Decodable(got[p], fed) /\ Faithful(got[p], Msgs, fed)
    BY <2>1 DEF HeaderInv, PlayerHeaders, WholeInv, PlayerWhole, Whole, Wanted
  <2>3. Decodable(got[p], fed')
    BY <1>2, <2>2, StreamKeepsHeaders
  <2>4. ASSUME Live(p)', NEW k \in HeaderKinds, HeaderOf(p, k)' # None
        PROVE  Ends(got[p], k, HeaderOf(p, k)')
    <3>1. p \in joined
      BY <1>1, <2>4 DEF Live
    <3>2. Waits(p)'
      <4>1. p \in [msg |-> m, todo |-> joined].todo
        BY <3>1
      <4>2. QED
        BY <1>1, <4>1 DEF Waits
    <3>3. HeaderOf(p, k)' = header[k] /\ HeaderOf(p, k) = header[k]
      BY <1>1, <1>2, <3>2 DEF HeaderOf
    <3>4. Ends(got[p], k, HeaderOf(p, k))
      BY <1>1, <2>1, <2>4, <3>3 DEF HeaderInv, PlayerHeaders, Live
    <3>5. QED
      BY <3>3, <3>4
  <2>5. got'[p] = got[p]
    BY <1>1
  <2>6. /\ Decodable(got'[p], fed')
        /\ Live(p)' => \A k \in HeaderKinds : HeaderOf(p, k)' # None => Ends(got'[p], k, HeaderOf(p, k)')
    BY <2>3, <2>4, <2>5
  <2>7. QED
    BY <2>6 DEF PlayerHeaders, Live, Decodable, Ends, Ahead
<1>5. QED
  BY <1>3, <1>4 DEF HeaderInv

LEMMA TurnKeepsHeaders ==
  ASSUME Base, HeaderInv, NEW T, NEW s \in T, TurnOf(s, T)
  PROVE  HeaderInv'
<1> DEFINE m == LastMsg
<1>1. /\ Forwarding /\ T \subseteq joined
      /\ bc = {[msg |-> m, todo |-> T]} /\ bc' = {[msg |-> m, todo |-> T \ {s}]}
      /\ UNCHANGED <<vars, conn, open, joined, fed>>
  BY DEF TurnOf
<1>2. /\ s \in joined /\ s \in Subs
      /\ \A p \in Subs : p # s => got'[p] = got[p] /\ (p \in fresh' <=> p \in fresh)
      /\ s \notin open => got'[s] = got[s]
      /\ s \in open => \/ Given(s, m) /\ got'[s] = Append(Before(s), m)
                       \/ NotGiven(s, m)
  BY TurnKeeps
<1>3. /\ FanTypes /\ m \in Sent /\ m \in Stream /\ header' = header /\ LastMsg' = m
      /\ fed[m[2]].header = header
  <2>1. FanTypes /\ m \in Stream /\ m[2] = Len(fed)
    BY <1>1, LastMsgIs DEF Base, Forwarding
  <2>2. QED
    BY <1>1, <2>1, CacheStill DEF Sent, LastMsg, Forwarding
<1> HIDE DEF m
<1>4. CacheHeaders'
  BY <1>1, CacheHeadersStill DEF HeaderInv
<1>5. ASSUME NEW p \in Subs, p # s PROVE PlayerHeaders(p)'
  <2>1. Waits(p)' <=> Waits(p)
    <3>1. (Waits(p) <=> p \in T) /\ (Waits(p)' <=> p \in T \ {s})
      BY <1>1 DEF Waits
    <3>2. QED
      BY <1>5, <3>1
  <2>2. \A k \in HeaderKinds : HeaderOf(p, k)' = HeaderOf(p, k)
    BY <1>1, <1>3, <2>1 DEF HeaderOf, m
  <2>3. Live(p)' => Live(p)
    BY <1>1, <1>2, <1>5 DEF Live
  <2>4. QED
    BY <1>1, <1>2, <1>5, <2>2, <2>3, HeadersStill DEF HeaderInv
<1>6. PlayerHeaders(s) /\ Session(s) /\ Waits(s) /\ ~ Waits(s)' /\ bc' # {}
  BY <1>1, <1>2 DEF HeaderInv, Waits, Base, Sessions
<1>7. CASE s \notin open
  <2>1. ~ Live(s)'
    BY <1>1, <1>7 DEF Live
  <2>2. PlayerHeaders(s)'
    BY <1>1, <1>2, <1>6, <1>7, <2>1, HeadersStill
  <2>3. QED
    BY <1>2, <1>4, <1>5, <2>2 DEF HeaderInv
<1>8. CASE s \in open /\ NotGiven(s, m)
  <2>1. s \in TsSubs
    BY <1>8 DEF NotGiven
  <2>2. PlayerHeaders(s)'
    BY <2>1 DEF PlayerHeaders
  <2>3. QED
    BY <1>2, <1>4, <1>5, <2>2 DEF HeaderInv
<1>9. CASE s \in open /\ Given(s, m) /\ got'[s] = Append(Before(s), m) /\ s \notin TsSubs
  <2> DEFINE b == Before(s)
  <2>1. /\ Decodable(b, fed)
        /\ \A k \in HeaderKinds : header[k] # None => Ends(b, k, header[k])
    <3>1. CASE s \in fresh
      BY <1>2, <1>3, <1>6, <1>9, <3>1, BeforeHeaders DEF HeaderInv
    <3>2. CASE s \notin fresh
      <4>1. b = got[s]
        BY <3>2 DEF Before
      <4>2. \A k \in HeaderKinds : HeaderOf(s, k) = header[k]
        BY <1>6 DEF HeaderOf
      <4>3. QED
        BY <1>2, <1>6, <1>9, <3>2, <4>1, <4>2 DEF PlayerHeaders
    <3>3. QED
      BY <3>1, <3>2
  <2>2. b \in Seq(Sent)
    BY <1>2, <1>3, BeforeType
  <2> HIDE DEF b
  <2>3. Decodable(Append(b, m), fed)
    <3>1. m \in Msgs => \A k \in HeaderKinds :
            fed[m[2]].header[k] # None => Ends(b, k, fed[m[2]].header[k])
      BY <1>3, <2>1
    <3>2. QED
      BY <1>3, <2>1, <2>2, <3>1, NextDecodable
  <2>4. ASSUME NEW k \in HeaderKinds, HeaderOf(s, k)' # None
        PROVE  Ends(Append(b, m), k, HeaderOf(s, k)')
    <3>1. CASE m \in Headers[k]
      <4>1. HeaderOf(s, k)' = m
        BY <1>3, <1>6, <3>1 DEF HeaderOf
      <4>2. QED
        BY <1>3, <2>2, <4>1, NextEnds
    <3>2. CASE m \notin Headers[k]
      <4>1. HeaderOf(s, k)' = header[k]
        BY <1>3, <3>2 DEF HeaderOf
      <4>2. Ends(b, k, header[k])
        BY <2>1, <2>4, <4>1
      <4>3. Ends(Append(b, m), k, header[k])
        BY <1>3, <2>2, <3>2, <4>2, NextEnds
      <4>4. QED
        BY <4>1, <4>3
    <3>3. QED
      BY <3>1, <3>2
  <2>5. got'[s] = Append(b, m) /\ fed' = fed
    BY <1>1, <1>9 DEF b
  <2>6. /\ Decodable(got'[s], fed')
        /\ \A k \in HeaderKinds : HeaderOf(s, k)' # None => Ends(got'[s], k, HeaderOf(s, k)')
    BY <2>3, <2>4, <2>5
  <2>7. PlayerHeaders(s)'
    BY <2>6 DEF PlayerHeaders, Decodable, Ends, Ahead
  <2>8. QED
    BY <1>2, <1>4, <1>5, <2>7 DEF HeaderInv
<1>10. CASE s \in TsSubs
  <2>1. PlayerHeaders(s)'
    BY <1>10 DEF PlayerHeaders
  <2>2. QED
    BY <1>2, <1>4, <1>5, <2>1 DEF HeaderInv
<1>11. QED
  BY <1>2, <1>7, <1>8, <1>9, <1>10

LEMMA FeedKeepsHeaders ==
  ASSUME ~ HeadersChange, Base, WholeInv, HeaderInv, broadcastFeeds
  PROVE  HeaderInv'
<1> DEFINE m == LastMsg
           G == Gops
<1>1. /\ Base' /\ Forwarding /\ bc' = {} /\ CacheFeed(m) /\ m \in Stream
      /\ bc = {[msg |-> m, todo |-> {}]}
      /\ UNCHANGED <<conn, open, joined, fresh, got, fed>>
  BY FeedKeeps
<1>2. /\ FanTypes /\ TypeOK /\ TypeOK' /\ header \in [HeaderKinds -> {None} \cup AllHeaders]
      /\ G \in Seq(Seq(Msgs)) /\ Flat \in Seq(Msgs) /\ fed[m[2]].header = header
  <2>1. FanTypes /\ FanTypes' /\ fed # << >>
    BY <1>1 DEF Base, Forwarding
  <2>2. m[2] = Len(fed)
    BY <2>1, LastMsgIs
  <2>3. header \in [HeaderKinds -> {None} \cup AllHeaders]
    BY <2>1 DEF FanTypes, TypeOK, AllHeaders
  <2>4. QED
    BY <1>1, <2>1, <2>2, <2>3, CachedType DEF FanTypes, Flat, Forwarding
<1>3. \A p : ~ Waits(p)
  BY <1>1 DEF Waits
<1>4. IsHeader(m) => header[KindOf(m)] = None
  BY <1>1 DEF Forwarding
<1>5. \/ m \in AllHeaders /\ Gops' = G /\ header' = [header EXCEPT ![KindOf(m)] = m]
      \/ m \in Keys /\ header' = header
         /\ (Gops' = Append(G, <<m>>) \/ (G # << >> /\ Gops' = Append(Tail(G), <<m>>)))
      \/ m \in Msgs /\ header' = header /\ G # << >> /\ Gops' = [G EXCEPT ![Len(G)] = Append(@, m)]
      \/ m \in Msgs /\ header' = header /\ Gops' = G
  BY <1>1, <1>2, CacheFeedIs
<1>6. \A i \in DOMAIN Flat : \A k \in HeaderKinds : fed[Flat[i][2]].header[k] \in {None, header[k]}
  BY DEF HeaderInv, CacheHeaders
<1>f. Flat = FlattenSeq(G) /\ Flat' = FlattenSeq(Gops')
  BY DEF Flat
<1> HIDE DEF m, G
<1>7. ASSUME NEW f \in Seq(Msgs), m \in Msgs,
             \A i \in DOMAIN f : \A k \in HeaderKinds : fed[f[i][2]].header[k] \in {None, header[k]},
             Flat' = Append(f, m), header' = header
      PROVE  CacheHeaders'
  <2> DEFINE b == Append(f, m)
  <2>1. /\ DOMAIN f = 1 .. Len(f) /\ DOMAIN b = 1 .. Len(f) + 1 /\ Len(f) \in Nat
        /\ b[Len(f) + 1] = m /\ \A i \in 1 .. Len(f) : b[i] = f[i]
    BY <1>7, AppendProperties, LenProperties
  <2> HIDE DEF b
  <2>2. ASSUME NEW i \in DOMAIN b, NEW k \in HeaderKinds
        PROVE  fed[b[i][2]].header[k] \in {None, header[k]}
    <3>1. CASE i \in DOMAIN f
      BY <1>7, <2>1, <3>1
    <3>2. CASE i = Len(f) + 1
      BY <1>2, <2>1, <3>2
    <3>3. QED
      BY <2>1, <3>1, <3>2
  <2>3. Flat' = b /\ fed' = fed /\ header' = header
    BY <1>1, <1>7 DEF b
  <2>4. QED
    BY <2>2, <2>3 DEF CacheHeaders
<1>8. CASE m \in AllHeaders /\ Gops' = G /\ header' = [header EXCEPT ![KindOf(m)] = m]
  <2>1. Flat' = Flat /\ fed' = fed
    BY <1>1, <1>8, <1>f
  <2>2. KindOf(m) \in HeaderKinds /\ m \in Headers[KindOf(m)] /\ header[KindOf(m)] = None
    BY <1>4, <1>8, Disjoint
  <2>3. ASSUME NEW k \in HeaderKinds PROVE header'[k] = IF k = KindOf(m) THEN m ELSE header[k]
    BY <1>2, <1>8, <2>2
  <2>4. CacheHeaders'
    <3>1. ASSUME NEW i \in DOMAIN Flat, NEW k \in HeaderKinds
          PROVE  fed[Flat[i][2]].header[k] \in {None, header'[k]}
      BY <1>6, <2>2, <2>3
    <3>2. QED
      BY <2>1, <3>1 DEF CacheHeaders
  <2>5. \A p : \A k \in HeaderKinds : HeaderOf(p, k)' = HeaderOf(p, k)
    <3> SUFFICES ASSUME NEW p, NEW k \in HeaderKinds
                 PROVE  HeaderOf(p, k)' = HeaderOf(p, k)
      OBVIOUS
    <3>1. HeaderOf(p, k)' = header'[k]
      BY <1>1 DEF HeaderOf
    <3>2. HeaderOf(p, k) = IF m \in Headers[k] THEN m ELSE header[k]
      BY <1>1, <1>3 DEF HeaderOf, m
    <3>3. m \in Headers[k] <=> k = KindOf(m)
      BY <2>2, Disjoint
    <3>4. QED
      BY <2>3, <3>1, <3>2, <3>3
  <2>6. \A p \in Subs : PlayerHeaders(p)'
    BY <1>1, <2>5, HeadersStill DEF HeaderInv, Live
  <2>7. QED
    BY <2>4, <2>6 DEF HeaderInv
<1>9. CASE m \in Msgs /\ header' = header
  <2>1. CacheHeaders'
    <3>1. CASE m \in Keys /\ Gops' = Append(G, <<m>>)
      <4>1. <<m>> \in Seq(Msgs)
        BY <1>9
      <4>2. Flat' = Flat \o <<m>>
        BY <1>2, <1>f, <3>1, <4>1, FlatAppend
      <4>3. Flat' = Append(Flat, m)
        BY <1>2, <1>9, <4>2, AppendIsConcat
      <4>4. QED
        BY <1>2, <1>6, <1>7, <1>9, <4>3
    <3>2. CASE m \in Keys /\ G # << >> /\ Gops' = Append(Tail(G), <<m>>)
      <4> DEFINE h == Head(G)
                 r == FlattenSeq(Tail(G))
      <4>1. <<m>> \in Seq(Msgs) /\ Tail(G) \in Seq(Seq(Msgs)) /\ h \in Seq(Msgs)
        BY <1>2, <1>9, <3>2, HeadTailProperties
      <4>2. r \in Seq(Msgs) /\ Flat = h \o r /\ Flat' = r \o <<m>>
        BY <1>2, <1>f, <3>2, <4>1, FlatType, FlatTail, FlatAppend
      <4> HIDE DEF h, r
      <4>3. Flat' = Append(r, m)
        BY <1>9, <4>2, AppendIsConcat
      <4>4. \A i \in DOMAIN r : Len(h) + i \in DOMAIN Flat /\ Flat[Len(h) + i] = r[i]
        <5>1. /\ Len(h) \in Nat /\ Len(r) \in Nat /\ Len(Flat) = Len(h) + Len(r)
              /\ \A i \in 1 .. Len(h) + Len(r) : Flat[i] = IF i <= Len(h) THEN h[i] ELSE r[i - Len(h)]
          BY <4>1, <4>2, ConcatProperties, LenProperties
        <5>2. DOMAIN Flat = 1 .. Len(h) + Len(r) /\ DOMAIN r = 1 .. Len(r)
          BY <1>2, <4>2, <5>1, LenProperties
        <5> TAKE i \in DOMAIN r
        <5>3. Len(h) + i \in 1 .. Len(h) + Len(r) /\ ~ (Len(h) + i <= Len(h)) /\ (Len(h) + i) - Len(h) = i
          BY <5>1, <5>2
        <5>4. QED
          BY <5>1, <5>2, <5>3
      <4>5. \A i \in DOMAIN r : \A k \in HeaderKinds : fed[r[i][2]].header[k] \in {None, header[k]}
        BY <1>6, <4>4
      <4>6. QED
        BY <1>7, <1>9, <4>2, <4>3, <4>5
    <3>3. CASE G # << >> /\ Gops' = [G EXCEPT ![Len(G)] = Append(@, m)]
      <4>1. Flat' = Append(Flat, m)
        BY <1>2, <1>9, <1>f, <3>3, FlatLonger
      <4>2. QED
        BY <1>2, <1>6, <1>7, <1>9, <4>1
    <3>4. CASE Gops' = G
      <4>1. Flat' = Flat /\ fed' = fed
        BY <1>1, <1>f, <3>4
      <4>2. QED
        BY <1>6, <1>9, <4>1 DEF CacheHeaders
    <3>5. m \notin AllHeaders
      BY <1>9, Disjoint
    <3>6. QED
      BY <1>5, <3>1, <3>2, <3>3, <3>4, <3>5
  <2>2. ASSUME NEW p, NEW k \in HeaderKinds PROVE HeaderOf(p, k)' = HeaderOf(p, k)
    <3>1. m \notin Headers[k]
      BY <1>9, FanoutConstants
    <3>2. QED
      BY <1>1, <1>9, <3>1 DEF HeaderOf, m
  <2>3. \A p \in Subs : PlayerHeaders(p)'
    BY <1>1, <2>2, HeadersStill DEF HeaderInv, Live
  <2>4. QED
    BY <2>1, <2>3 DEF HeaderInv
<1>10. m \in Keys => m \in Msgs
  BY DEF Msgs
<1>11. QED
  BY <1>5, <1>8, <1>9, <1>10

LEMMA HeadersStep ==
  ASSUME Locked, ~ HeadersChange, Base, WholeInv, HeaderInv, [FanNext]_allVars
  PROVE  HeaderInv'
<1>1. ASSUME NEW s \in Subs,
             Accept(s) \/ ReadRequestFails(s) \/ AddSubSession(s) \/ Closes(s) \/ DelSubSession(s)
      PROVE  HeaderInv'
  BY <1>1, SessionsKeepHeaders
<1>2. ASSUME NEW s \in Subs, ReadRequest(s) PROVE HeaderInv'
  BY <1>2, RequestKeepsHeaders
<1>3. CASE addIn \/ UNCHANGED allVars
  BY <1>3, SessionsKeepHeaders
<1>4. CASE delIn
  BY <1>4, DelInKeepsHeaders
<1>5. CASE broadcastWrites
  <2>1. PICK T \in SUBSET joined : \E s \in T : TurnOf(s, T)
    BY <1>5, WritesOne DEF Base
  <2>2. PICK s \in T : TurnOf(s, T)
    BY <2>1
  <2>3. QED
    BY <2>2, TurnKeepsHeaders
<1>6. CASE broadcastFeeds
  BY <1>6, FeedKeepsHeaders
<1>7. ASSUME NEW m \in Msgs \cup UNION {Headers[k] : k \in HeaderKinds}, OnMsg(m) PROVE HeaderInv'
  BY <1>7, MsgKeepsHeaders DEF Stream, AllHeaders
<1>8. QED
  BY <1>1, <1>2, <1>3, <1>4, <1>5, <1>6, <1>7 DEF FanNext

LEMMA HeadersInit == FanInit => HeaderInv
<1> SUFFICES ASSUME FanInit PROVE HeaderInv
  OBVIOUS
<1>1. Init /\ TypeOK /\ joined = {} /\ got = [s \in Subs |-> << >>] /\ DOMAIN << >> = {}
  BY TypeInit, EmptySeq DEF FanInit
<1>2. Gops = << >>
  BY <1>1, EmptyRing DEF Init, isGOPRingEmpty
<1>3. Flat = << >>
  BY <1>2, FlatEmpty DEF Flat
<1>4. ASSUME NEW s \in Subs PROVE PlayerHeaders(s)
  BY <1>1 DEF PlayerHeaders, Decodable
<1>5. QED
  BY <1>1, <1>3, <1>4 DEF HeaderInv, CacheHeaders

LEMMA HeadersAreAhead ==
  ASSUME Base, HeaderInv
  PROVE  HeadersBeforeMedia
<1> SUFFICES ASSUME NEW s \in Subs, NEW i \in DOMAIN got[s]
             PROVE
               /\ i = 1 <=> got[s][i] = Response
               /\ s \notin TsSubs /\ got[s][i] \in Msgs => \A k \in HeaderKinds :
                    LET h == fed[got[s][i][2]].header[k]
                    IN h # None => \E j \in 1 .. i - 1 :
                         got[s][j] = h /\ \A l \in j + 1 .. i - 1 : got[s][l] \notin Headers[k]
  BY DEF HeadersBeforeMedia
<1>1. i = 1 <=> got[s][i] = Response
  BY DEF Base, Sessions, Session
<1> DEFINE g == got[s]
<1>2. DOMAIN g = 1 .. Len(g) /\ Len(g) \in Nat
  BY LenProperties DEF Base, FanTypes
<1>3. ASSUME s \notin TsSubs, g[i] \in Msgs, NEW k \in HeaderKinds,
             fed[g[i][2]].header[k] # None
      PROVE  \E j \in 1 .. i - 1 : /\ g[j] = fed[g[i][2]].header[k]
                                   /\ \A l \in j + 1 .. i - 1 : g[l] \notin Headers[k]
  <2> DEFINE h == fed[g[i][2]].header[k]
  <2>1. Decodable(g, fed) /\ i \in DOMAIN g
    BY <1>3 DEF HeaderInv, PlayerHeaders
  <2> HIDE DEF g
  <2>2. Ahead(g, i, k, h)
    BY <1>3, <2>1 DEF Decodable
  <2> HIDE DEF h
  <2>3. PICK j \in DOMAIN g : /\ j < i /\ g[j] = h
                              /\ \A l \in DOMAIN g : j < l /\ l < i => g[l] \notin Headers[k]
    BY <2>2 DEF Ahead
  <2>4. j \in 1 .. i - 1 /\ \A l \in j + 1 .. i - 1 : l \in DOMAIN g /\ j < l /\ l < i
    BY <1>2, <2>1, <2>3
  <2>5. QED
    BY <2>3, <2>4 DEF h
<1>4. QED
  BY <1>1, <1>3

\* While messages come under the group's mutex and no input changes its headers, every
\* message an RTMP or HTTP-FLV player gets is behind the headers it was sent under, those of
\* the cache and those of an input before included (broadcastRTMP, GOPCache).
THEOREM DecodableWithWhatCameBefore ==
  ASSUME Locked, ~ HeadersChange
  PROVE  FanSpec => []HeadersBeforeMedia
<1>1. FanInit => Base /\ WholeInv /\ HeaderInv
  BY BaseInit, WholeInit, HeadersInit
<1>2. Base /\ WholeInv /\ HeaderInv /\ [FanNext]_allVars => Base' /\ WholeInv' /\ HeaderInv'
  BY BaseStep, WholeStep, HeadersStep
<1>3. Base /\ WholeInv /\ HeaderInv => HeadersBeforeMedia
  BY HeadersAreAhead
<1>4. QED
  BY <1>1, <1>2, <1>3, PTL DEF FanSpec
=============================================================================
