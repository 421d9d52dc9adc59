-------------------------- MODULE ChunkStreamProofs --------------------------
(***************************************************************************)
(* Proofs about ChunkStream, for any chunk streams, sizes and messages.    *)
(*                                                                         *)
(* While the composer is in step, what it has of a chunk stream's message, *)
(* what is on the wire of it and what the sender has left of it make up    *)
(* the message's body (PeerStream, DividerInv); and the fields of its      *)
(* stream, with those of a header that is on the wire, are the message's   *)
(* (Reads, Holds).  Both ends cut by the same chunk size whenever the wire *)
(* is empty.  Once it is out of step nothing more happens, so only how it  *)
(* came to that is kept (LossExplained).                                   *)
(***************************************************************************)
EXTENDS ChunkStream, SequenceTheorems, TLAPS

Chunks == [header : Headers, body : Seq(Units)]
Arrivals == [csid : AllCsids, ts : Stamps, type : Types \cup {"none"}, msg : Seq(Units)]

LEMMA Numbers ==
  /\ MaxTs \in Nat /\ TsMod \in Nat \ {0} /\ MaxTs < TsMod
  /\ LocalChunkSize \in Nat \ {0} /\ defaultChunkSize \in Nat \ {0}
  /\ PeerSizes \subseteq Nat \ {0} /\ MaxMsgs \in Nat
  /\ 0 \in Stamps /\ 1 \in Stamps /\ MaxTs \in Stamps /\ Lens \subseteq Stamps /\ Timestamps \subseteq Stamps
  /\ Stamps \subseteq Nat
  /\ Control \in AllCsids /\ Csids \subseteq AllCsids
BY TimestampConstants, ChunkConstants DEF Stamps, AllCsids

LEMMA SmallMod == ASSUME NEW x \in Stamps PROVE x % TsMod = x
BY Numbers DEF Stamps

LEMMA ModIsStamp == ASSUME NEW x \in Int PROVE x % TsMod \in Stamps
BY Numbers DEF Stamps

-----------------------------------------------------------------------------
(* Parts of a body.                                                        *)

Part(m, i, j) == SubSeq(Body(m), i + 1, j)

LEMMA BodyIs ==
  ASSUME NEW m \in Messages
  PROVE  /\ Body(m) \in Seq(Units) /\ Len(Body(m)) = m.len
         /\ \A i \in 1..m.len : Body(m)[i] = <<m.n, i>>
<1>1. m.n \in 1..MaxMsgs /\ m.len \in Nat
  BY DEF Messages
<1>2. \A i \in 1..m.len : <<m.n, i>> \in Units
  BY <1>1 DEF Units
<1>3. QED
  BY <1>1, <1>2 DEF Body

LEMMA PartIs ==
  ASSUME NEW m \in Messages, NEW i \in Nat, NEW j \in Nat, i <= j, j <= m.len
  PROVE  /\ Part(m, i, j) \in Seq(Units) /\ Len(Part(m, i, j)) = j - i
         /\ \A x \in 1..(j - i) : Part(m, i, j)[x] = <<m.n, i + x>>
<1>1. m.len \in Nat
  BY DEF Messages
<1>2. \A x \in i + 1 .. j : Body(m)[x] \in Units /\ Body(m)[x] = <<m.n, x>>
  <2> SUFFICES ASSUME NEW x \in i + 1 .. j PROVE Body(m)[x] \in Units /\ Body(m)[x] = <<m.n, x>>
    OBVIOUS
  <2>1. x \in 1..m.len
    BY <1>1
  <2>2. QED
    BY <2>1, BodyIs, ElementOfSeq
<1>3. /\ SubSeq(Body(m), i + 1, j) \in Seq(Units)
      /\ Len(SubSeq(Body(m), i + 1, j)) = IF i + 1 <= j THEN j - (i + 1) + 1 ELSE 0
      /\ \A x \in 1 .. j - (i + 1) + 1 : SubSeq(Body(m), i + 1, j)[x] = Body(m)[(i + 1) + x - 1]
  BY <1>2, SubSeqProperties, i + 1 \in Int, j \in Int
<1>4. ASSUME NEW x \in 1..(j - i) PROVE Part(m, i, j)[x] = <<m.n, i + x>>
  <2>1. x \in 1 .. j - (i + 1) + 1 /\ (i + 1) + x - 1 = i + x /\ i + x \in i + 1 .. j
    OBVIOUS
  <2>2. QED
    BY <1>2, <1>3, <2>1 DEF Part
<1>5. QED
  BY <1>3, <1>4 DEF Part

LEMMA WholePart == ASSUME NEW m \in Messages PROVE Part(m, 0, m.len) = Body(m)
<1>1. SubSeq(Body(m), 1, Len(Body(m))) = Body(m)
  BY BodyIs, SubSeqFull
<1>2. QED
  BY <1>1, BodyIs DEF Part

LEMMA NoPart ==
  ASSUME NEW m \in Messages, NEW i \in Nat, i <= m.len
  PROVE  Part(m, i, i) = <<>>
BY PartIs, SubSeqEmpty DEF Part

LEMMA PartsJoin ==
  ASSUME NEW m \in Messages, NEW i \in Nat, NEW j \in Nat, NEW k \in Nat, i <= j, j <= k, k <= m.len
  PROVE  Part(m, i, j) \o Part(m, j, k) = Part(m, i, k)
<1>1. /\ Part(m, i, j) \in Seq(Units) /\ Len(Part(m, i, j)) = j - i
      /\ \A x \in 1..(j - i) : Part(m, i, j)[x] = <<m.n, i + x>>
  BY PartIs, j <= m.len, m.len \in Nat DEF Messages
<1>2. /\ Part(m, j, k) \in Seq(Units) /\ Len(Part(m, j, k)) = k - j
      /\ \A x \in 1..(k - j) : Part(m, j, k)[x] = <<m.n, j + x>>
  BY PartIs
<1>3. /\ Part(m, i, k) \in Seq(Units) /\ Len(Part(m, i, k)) = k - i
      /\ \A x \in 1..(k - i) : Part(m, i, k)[x] = <<m.n, i + x>>
  BY PartIs, i <= k
<1> DEFINE whole == Part(m, i, j) \o Part(m, j, k)
<1>4. /\ whole \in Seq(Units) /\ Len(whole) = (j - i) + (k - j)
      /\ \A x \in 1..((j - i) + (k - j)) :
           whole[x] = IF x <= j - i THEN Part(m, i, j)[x] ELSE Part(m, j, k)[x - (j - i)]
  <2> DEFINE a == Part(m, i, j)
             b == Part(m, j, k)
  <2>1. a \in Seq(Units) /\ b \in Seq(Units) /\ Len(a) = j - i /\ Len(b) = k - j
    BY <1>1, <1>2
  <2> HIDE DEF a, b
  <2>2. /\ a \o b \in Seq(Units)
        /\ Len(a \o b) = Len(a) + Len(b)
        /\ \A x \in 1 .. Len(a) + Len(b) : (a \o b)[x] = IF x <= Len(a) THEN a[x] ELSE b[x - Len(a)]
    BY <2>1, ConcatProperties
  <2>3. QED
    BY <2>1, <2>2 DEF a, b
<1>5. ASSUME NEW x \in 1..(k - i) PROVE whole[x] = Part(m, i, k)[x]
  <2>1. x \in 1..((j - i) + (k - j)) /\ x \in Int
    OBVIOUS
  <2>2. CASE x <= j - i
    <3>1. x \in 1..(j - i)
      BY <2>2
    <3>2. QED
      BY <3>1, <2>1, <2>2, <1>1, <1>3, <1>4
  <2>3. CASE ~(x <= j - i)
    <3>1. x - (j - i) \in 1..(k - j) /\ j + (x - (j - i)) = i + x
      BY <2>3
    <3>2. QED
      BY <3>1, <2>1, <2>3, <1>2, <1>3, <1>4
  <2>4. QED
    BY <2>2, <2>3
<1>6. Len(whole) = k - i
  BY <1>4
<1> HIDE DEF whole
<1>7. whole = Part(m, i, k)
  BY <1>3, <1>4, <1>5, <1>6, SeqEqual
<1>8. QED
  BY <1>7 DEF whole

\* A part of what is left of a body.
LEMMA PartOfPart ==
  ASSUME NEW m \in Messages, NEW i \in Nat, i <= m.len, NEW k \in Nat, i + k <= m.len
  PROVE  /\ SubSeq(Part(m, i, m.len), 1, k) = Part(m, i, i + k)
         /\ SubSeq(Part(m, i, m.len), k + 1, m.len - i) = Part(m, i + k, m.len)
<1> DEFINE rest == Part(m, i, m.len)
<1> DEFINE len == m.len
<1>0. len \in Nat /\ i <= len /\ i + k <= len /\ len <= len
  BY DEF Messages
<1>1. m.len \in Nat /\ rest \in Seq(Units) /\ Len(rest) = m.len - i
      /\ \A x \in 1..(m.len - i) : rest[x] = <<m.n, i + x>>
  BY <1>0, PartIs
<1> HIDE DEF rest
<1>2. \A x \in 1..(m.len - i) : rest[x] \in Units
  BY <1>1, ElementOfSeq
<1>3. SubSeq(rest, 1, k) = Part(m, i, i + k)
  <2>1. \A x \in 1..k : x \in 1..(m.len - i)
    BY <1>1
  <2>2. /\ SubSeq(rest, 1, k) \in Seq(Units) /\ Len(SubSeq(rest, 1, k)) = k
        /\ \A x \in 1..k : SubSeq(rest, 1, k)[x] = rest[x]
    <3>1. /\ SubSeq(rest, 1, k) \in Seq(Units)
          /\ Len(SubSeq(rest, 1, k)) = IF 1 <= k THEN k - 1 + 1 ELSE 0
          /\ \A x \in 1 .. k - 1 + 1 : SubSeq(rest, 1, k)[x] = rest[1 + x - 1]
      BY <1>2, <2>1, SubSeqProperties, 1 \in Int, k \in Int
    <3>2. QED
      BY <3>1
  <2>3. /\ Part(m, i, i + k) \in Seq(Units) /\ Len(Part(m, i, i + k)) = k
        /\ \A x \in 1..k : Part(m, i, i + k)[x] = <<m.n, i + x>>
    <3>1. i + k \in Nat /\ i <= i + k /\ (i + k) - i = k
      OBVIOUS
    <3>2. QED
      BY <3>1, PartIs
  <2>4. QED
    BY <1>1, <2>1, <2>2, <2>3, SeqEqual
<1>4. SubSeq(rest, k + 1, m.len - i) = Part(m, i + k, m.len)
  <2>1. \A x \in k + 1 .. m.len - i : x \in 1..(m.len - i)
    BY <1>1
  <2> DEFINE tail == SubSeq(rest, k + 1, m.len - i)
  <2>2. /\ tail \in Seq(Units)
        /\ Len(tail) = IF k + 1 <= m.len - i THEN (m.len - i) - (k + 1) + 1 ELSE 0
        /\ \A x \in 1 .. (m.len - i) - (k + 1) + 1 : tail[x] = rest[(k + 1) + x - 1]
    <3>1. \A x \in k + 1 .. m.len - i : rest[x] \in Units
      BY <1>2, <2>1
    <3> DEFINE from == k + 1
               upto == m.len - i
    <3>2. from \in Int /\ upto \in Int
      BY <1>1
    <3>3. \A x \in from .. upto : rest[x] \in Units
      BY <3>1
    <3> HIDE DEF from, upto
    <3>4. /\ SubSeq(rest, from, upto) \in Seq(Units)
          /\ Len(SubSeq(rest, from, upto)) = IF from <= upto THEN upto - from + 1 ELSE 0
          /\ \A x \in 1 .. upto - from + 1 : SubSeq(rest, from, upto)[x] = rest[from + x - 1]
      BY <3>2, <3>3, SubSeqProperties
    <3>5. QED
      BY <3>4 DEF from, upto
  <2>3. /\ Part(m, i + k, m.len) \in Seq(Units) /\ Len(Part(m, i + k, m.len)) = m.len - (i + k)
        /\ \A x \in 1..(m.len - (i + k)) : Part(m, i + k, m.len)[x] = <<m.n, (i + k) + x>>
    <3>1. i + k \in Nat /\ m.len <= m.len
      BY <1>1
    <3>2. QED
      BY <3>1, <1>1, PartIs
  <2>4. Len(tail) = m.len - (i + k)
    BY <1>1, <2>2
  <2>5. ASSUME NEW x \in 1..(m.len - (i + k)) PROVE tail[x] = Part(m, i + k, m.len)[x]
    <3>1. /\ x \in 1 .. (m.len - i) - (k + 1) + 1 /\ (k + 1) + x - 1 \in 1..(m.len - i)
          /\ i + ((k + 1) + x - 1) = (i + k) + x
      <4>1. x \in 1..(len - (i + k))
        OBVIOUS
      <4> HIDE DEF len
      <4>2. /\ x \in 1 .. (len - i) - (k + 1) + 1 /\ (k + 1) + x - 1 \in 1..(len - i)
            /\ i + ((k + 1) + x - 1) = (i + k) + x
        BY <1>0, <4>1
      <4>3. QED
        BY <4>2 DEF len
    <3>2. QED
      BY <3>1, <1>1, <2>2, <2>3
  <2> HIDE DEF tail
  <2>6. tail = Part(m, i + k, m.len)
    BY <2>2, <2>3, <2>4, <2>5, SeqEqual
  <2>7. QED
    BY <2>6 DEF tail
<1>5. QED
  BY <1>3, <1>4 DEF rest

-----------------------------------------------------------------------------
(* Headers, and what reading them does to a stream.                        *)

\* The fields of a stream are those of m, whose time was written as time.
Holds(s, m, time) == s.timestamp = time /\ s.len = m.len /\ s.type = m.type

\* They will be when header h has been read, in step.
Reads(s, h, time, m) ==
  /\ ExtExpected(readHeader(s, h)) <=> h.ext # <<>>
  /\ Holds(readExt(readHeader(s, h), h), m, time)

LEMMA HeaderRead ==
  ASSUME NEW s \in Streams, NEW h \in Headers
  PROVE  LET r == readHeader(s, h) IN
         /\ r \in Streams /\ r.msg = s.msg
         /\ r.timestamp = IF h.fmt <= 2 THEN h.field ELSE s.timestamp
         /\ r.len = IF h.fmt <= 1 THEN h.len ELSE s.len
         /\ r.type = IF h.fmt <= 1 THEN h.type ELSE s.type
<1>1. h.fmt \in 0..3 /\ h.field \in Stamps /\ h.len \in Nat /\ h.type \in Types \cup {"none"}
  BY Numbers DEF Headers, Stamps
<1>2. CASE h.fmt = 0
  <2>1. readHeader(s, h) = [s EXCEPT !.timestamp = h.field, !.abs = h.field, !.len = h.len, !.type = h.type]
    BY <1>2 DEF readHeader
  <2>2. readHeader(s, h) = [timestamp |-> h.field, abs |-> h.field, len |-> h.len, type |-> h.type, msg |-> s.msg]
    BY <2>1 DEF Streams
  <2>3. s.msg \in Seq(Units)
    BY DEF Streams
  <2>4. QED
    BY <1>1, <1>2, <2>2, <2>3 DEF Streams
<1>3. CASE h.fmt = 1
  <2>1. readHeader(s, h) = [s EXCEPT !.timestamp = h.field, !.len = h.len, !.type = h.type]
    BY <1>3 DEF readHeader
  <2>2. readHeader(s, h) = [timestamp |-> h.field, abs |-> s.abs, len |-> h.len, type |-> h.type, msg |-> s.msg]
    BY <2>1 DEF Streams
  <2>3. s.msg \in Seq(Units) /\ s.abs \in Stamps
    BY DEF Streams
  <2>4. QED
    BY <1>1, <1>3, <2>2, <2>3 DEF Streams
<1>4. CASE h.fmt = 2
  BY <1>1, <1>4 DEF readHeader, Streams
<1>5. CASE h.fmt = 3
  BY <1>1, <1>5 DEF readHeader, Streams
<1>6. QED
  BY <1>1, <1>2, <1>3, <1>4, <1>5

LEMMA ExtRead ==
  ASSUME NEW s \in Streams, NEW h \in Headers, ExtExpected(s) => h.ext # <<>>
  PROVE  LET r == readExt(s, h) IN
         /\ r \in Streams /\ r.msg = s.msg /\ r.len = s.len /\ r.type = s.type
         /\ r.timestamp = IF ExtExpected(s) THEN h.ext[1] ELSE s.timestamp
<1>1. h.fmt \in 0..3 /\ h.ext \in {<<>>} \cup {<<t>> : t \in Stamps}
  BY DEF Headers
<1>2. CASE ~ExtExpected(s)
  BY <1>2 DEF readExt
<1>3. CASE ExtExpected(s)
  <2>1. h.ext[1] \in Stamps
    BY <1>1, <1>3
  <2> DEFINE long == (s.abs - MaxTs + h.ext[1]) % TsMod
             abs == CASE h.fmt = 0 -> h.ext[1]
                      [] h.fmt \in 1..2 -> long
                      [] h.fmt = 3 -> s.abs
  <2>2. s.abs \in Stamps
    BY DEF Streams
  <2>3. long \in Stamps
    <3>1. s.abs - MaxTs + h.ext[1] \in Int
      BY <2>1, <2>2, Numbers DEF Stamps
    <3>2. QED
      BY <3>1, ModIsStamp
  <2>4. abs \in Stamps
    <3> HIDE DEF long
    <3>1. h.fmt = 0 \/ h.fmt \in 1..2 \/ h.fmt = 3
      BY <1>1
    <3>2. QED
      BY <3>1, <2>1, <2>2, <2>3
  <2>5. readExt(s, h) = [s EXCEPT !.timestamp = h.ext[1], !.abs = abs]
    BY <1>3 DEF readExt, Streams
  <2> HIDE DEF abs, long
  <2>6. QED
    BY <1>3, <2>1, <2>4, <2>5 DEF Streams
<1>4. QED
  BY <1>2, <1>3

\* A header that says what it has to is read as it was meant.
LEMMA SaysEnough ==
  ASSUME NEW s \in Streams, NEW h \in Headers, NEW m, NEW time \in Stamps,
         h.fmt <= 2 => h.field = Smaller(time, MaxTs),
         h.fmt <= 1 => h.len = m.len /\ h.type = m.type,
         h.fmt > 1 => s.len = m.len /\ s.type = m.type,
         h.fmt > 2 => s.timestamp = time,
         h.ext = IF time >= MaxTs THEN <<time>> ELSE <<>>
  PROVE  Reads(s, h, time, m)
<1> DEFINE r == readHeader(s, h)
<1>1. h.fmt \in 0..3 /\ time \in Nat /\ MaxTs \in Nat
  BY Numbers DEF Headers
<1>2. r \in Streams /\ r.timestamp = (IF h.fmt <= 2 THEN h.field ELSE s.timestamp)
      /\ r.len = m.len /\ r.type = m.type
  BY <1>1, HeaderRead
<1> HIDE DEF r
<1>3. r.timestamp = time \/ r.timestamp = Smaller(time, MaxTs)
  BY <1>1, <1>2
<1>4. ExtExpected(r) <=> time >= MaxTs
  BY <1>1, <1>3 DEF ExtExpected, Smaller
<1>5. ExtExpected(r) <=> h.ext # <<>>
  BY <1>4
<1>6. ~ExtExpected(r) => r.timestamp = time
  BY <1>1, <1>3, <1>4 DEF Smaller
<1>7. ExtExpected(r) => h.ext[1] = time
  BY <1>4
<1>8. LET t == readExt(r, h) IN
      t.len = r.len /\ t.type = r.type
      /\ t.timestamp = IF ExtExpected(r) THEN h.ext[1] ELSE r.timestamp
  BY <1>2, <1>5, ExtRead
<1>9. Holds(readExt(r, h), m, time)
  BY <1>2, <1>6, <1>7, <1>8 DEF Holds
<1>10. QED
  BY <1>5, <1>9 DEF Reads, r

LEMMA PeerReads ==
  ASSUME NEW s \in Streams, NEW m \in Messages, NEW fmt \in 0..3, NEW time \in Stamps,
         NEW ext, NEW body \in Seq(Units),
         fmt > 1 => s.len = m.len /\ s.type = m.type,
         fmt > 2 => s.timestamp = time,
         ext = IF time >= MaxTs THEN <<time>> ELSE <<>>
  PROVE  LET h == PeerChunk(m, fmt, time, ext, body).header IN
         /\ PeerChunk(m, fmt, time, ext, body) = [header |-> h, body |-> body]
         /\ h \in Headers /\ h.csid = m.csid
         /\ Reads(s, h, time, m)
<1> DEFINE h == PeerChunk(m, fmt, time, ext, body).header
<1>1. /\ PeerChunk(m, fmt, time, ext, body) = [header |-> h, body |-> body]
      /\ h = [csid |-> m.csid, fmt |-> fmt,
              field |-> IF fmt <= 2 THEN Smaller(time, MaxTs) ELSE 0,
              len |-> IF fmt <= 1 THEN m.len ELSE 0,
              type |-> IF fmt <= 1 THEN m.type ELSE "none", ext |-> ext]
  BY DEF PeerChunk
<1> HIDE DEF h
<1>2. Smaller(time, MaxTs) \in 0..MaxTs /\ 0 \in 0..MaxTs
  BY Numbers DEF Smaller, Stamps
<1>3. ext \in {<<>>} \cup {<<t>> : t \in Stamps}
  OBVIOUS
<1>4. m.csid \in AllCsids /\ m.len \in Nat /\ m.type \in Types
  BY DEF Messages
<1>5. h \in Headers
  BY <1>1, <1>2, <1>3, <1>4 DEF Headers
<1>6. /\ h.fmt = fmt /\ h.ext = ext /\ h.csid = m.csid
      /\ h.fmt <= 2 => h.field = Smaller(time, MaxTs)
      /\ h.fmt <= 1 => h.len = m.len /\ h.type = m.type
  BY <1>1
<1>7. Reads(s, h, time, m)
  BY <1>5, <1>6, SaysEnough
<1>8. QED
  BY <1>1, <1>5, <1>6, <1>7 DEF h

-----------------------------------------------------------------------------
(* What message2Chunks makes of a message.                                 *)

LEMMA NotNone ==
  ASSUME NEW m \in Messages
  PROVE  m # None
BY NoneIsNoHeader

LEMMA DividerHeaders ==
  ASSUME NEW m \in Messages, NEW prev \in {None, m}
  PROVE  LET h == calcHeader(m, prev) IN
         /\ h \in Headers /\ h.csid = m.csid
         /\ h.fmt = IF prev = None THEN 0 ELSE 3
         /\ h.fmt = 0 => h.field = Smaller(m.ts, MaxTs) /\ h.len = m.len /\ h.type = m.type
         /\ h.ext = IF m.ts > MaxTs THEN <<m.ts>> ELSE <<>>
<1>1. m.csid \in AllCsids /\ m.len \in Nat /\ m.type \in Types /\ m.ts \in Stamps /\ m # None
  BY NotNone DEF Messages
<1>2. MaxTs \in Nat /\ m.ts \in Nat /\ Smaller(m.ts, MaxTs) \in 0..MaxTs /\ 0 \in 0..MaxTs
  BY <1>1, Numbers DEF Smaller, Stamps
<1>3. CASE prev = None
  <2>1. calcHeader(m, prev) = [csid |-> m.csid, fmt |-> 0, field |-> Smaller(m.ts, MaxTs),
          len |-> m.len, type |-> m.type, ext |-> IF m.ts > MaxTs THEN <<m.ts>> ELSE <<>>]
    BY <1>3 DEF calcHeader, shownTimestamp
  <2>2. QED
    BY <1>1, <1>2, <1>3, <2>1 DEF Headers
<1>4. CASE prev = m
  <2>1. 0 % TsMod = 0 /\ m.ts - m.ts = 0
    BY <1>2, SmallMod, Numbers
  <2>2. shownTimestamp(m, prev) = IF m.ts > MaxTs THEN m.ts ELSE 0
    BY <1>1, <1>4, <2>1 DEF shownTimestamp
  <2>3. shownTimestamp(m, prev) > MaxTs <=> m.ts > MaxTs
    BY <1>2, <2>2
  <2>4. calcHeader(m, prev) = [csid |-> m.csid, fmt |-> 3, field |-> 0,
          len |-> 0, type |-> "none", ext |-> IF m.ts > MaxTs THEN <<m.ts>> ELSE <<>>]
    BY <1>1, <1>4, <2>2, <2>3 DEF calcHeader
  <2>5. QED
    BY <1>1, <1>2, <1>4, <2>4 DEF Headers
<1>5. QED
  BY <1>3, <1>4

LEMMA DividerReads ==
  ASSUME NEW s \in Streams, NEW m \in Messages, NEW prev \in {None, m}, m.ts # MaxTs,
         prev = m => Holds(s, m, m.ts)
  PROVE  Reads(s, calcHeader(m, prev), m.ts, m)
<1> DEFINE h == calcHeader(m, prev)
<1>1. m.ts \in Stamps /\ m.ts \in Nat /\ MaxTs \in Nat
  BY Numbers DEF Messages
<1>2. /\ h \in Headers
      /\ h.fmt = IF prev = None THEN 0 ELSE 3
      /\ h.fmt = 0 => h.field = Smaller(m.ts, MaxTs) /\ h.len = m.len /\ h.type = m.type
      /\ h.ext = IF m.ts > MaxTs THEN <<m.ts>> ELSE <<>>
  BY DividerHeaders
<1> HIDE DEF h
<1>3. h.ext = IF m.ts >= MaxTs THEN <<m.ts>> ELSE <<>>
  BY <1>1, <1>2
<1>4. h.fmt = 3 => s.len = m.len /\ s.type = m.type /\ s.timestamp = m.ts
  BY <1>2 DEF Holds
<1>5. Reads(s, h, m.ts, m)
  BY <1>1, <1>2, <1>3, <1>4, SaysEnough
<1>6. QED
  BY <1>5 DEF h

LEMMA ProductsGrow ==
  ASSUME NEW a \in Nat, NEW b \in Nat, NEW size \in Nat, a <= b
  PROVE  a * size \in Nat /\ b * size \in Nat /\ a * size <= b * size
<1>1. (b - a) * size >= 0 /\ (b - a) * size = b * size - a * size
  BY b - a \in Nat
<1>2. QED
  BY <1>1

\* As many chunks as it takes: each but the last one is full, none is empty.
LEMMA CountOfChunks ==
  ASSUME NEW m \in Messages, NEW size \in Nat \ {0}
  PROVE  LET count == numOfChunk(m, size) IN
         /\ count \in Nat /\ (count = 0 <=> m.len = 0)
         /\ \A k \in 0 .. count - 1 : /\ k * size \in Nat /\ k * size < m.len
                                      /\ (k + 1) * size = k * size + size
                                      /\ (k + 1) * size >= m.len <=> k + 1 = count
<1> DEFINE len == m.len
           quot == len \div size
           rem == len % size
           count == numOfChunk(m, size)
<1>1. len \in Nat
  BY DEF Messages
<1>2. quot \in Nat /\ rem \in 0 .. size - 1 /\ len = size * quot + rem
  <2> HIDE DEF len
  <2>1. len \in Nat
    BY <1>1
  <2>2. QED
    BY <2>1
<1>3. count = quot + IF rem # 0 THEN 1 ELSE 0
  BY DEF numOfChunk
<1> HIDE DEF len, quot, rem, count
<1>4. size * quot = quot * size
  BY <1>2
<1>5. count \in Nat
  BY <1>2, <1>3
<1>6. count = 0 <=> len = 0
  <2>1. CASE quot = 0
    BY <2>1, <1>2, <1>3
  <2>2. CASE quot # 0
    <3>1. quot * size >= 1 * size
      BY <1>2, <2>2, ProductsGrow, 1 \in Nat, 1 <= quot
    <3>2. QED
      BY <3>1, <2>2, <1>2, <1>3, <1>4
  <2>3. QED
    BY <2>1, <2>2
<1>7. ASSUME NEW k \in 0 .. count - 1
      PROVE  /\ k * size \in Nat /\ k * size < len
             /\ (k + 1) * size = k * size + size
             /\ (k + 1) * size >= len <=> k + 1 = count
  <2>1. k \in Nat /\ k + 1 \in Nat /\ k <= count - 1 /\ quot \in Nat /\ rem \in Nat /\ rem < size
    BY <1>2, <1>5
  <2>2. (k + 1) * size = k * size + size
    BY <2>1
  <2>3. k <= quot
    BY <1>2, <1>3, <2>1
  <2>4. k * size \in Nat /\ quot * size \in Nat /\ k * size <= quot * size
    BY <2>1, <2>3, ProductsGrow
  <2>5. CASE k = quot
    <3>1. rem # 0 /\ k + 1 = count
      BY <2>5, <1>2, <1>3, <1>5
    <3>2. QED
      BY <3>1, <2>1, <2>2, <2>4, <2>5, <1>2, <1>4
  <2>6. CASE k < quot
    <3>1. (k + 1) * size \in Nat /\ (k + 1) * size <= quot * size
      BY <2>1, <2>6, ProductsGrow, k + 1 <= quot
    <3>2. k * size < len
      BY <3>1, <2>2, <2>4, <1>2, <1>4, <2>1
    <3>3. CASE k + 1 = quot
      <4>1. (k + 1) * size = quot * size
        BY <3>3
      <4>2. (k + 1) * size >= len <=> rem = 0
        BY <4>1, <1>2, <1>4, <2>1, <2>4
      <4>3. k + 1 = count <=> rem = 0
        BY <3>3, <1>3, <2>1
      <4>4. QED
        BY <3>2, <4>2, <4>3, <2>2, <2>4
    <3>4. CASE k + 1 < quot
      <4>1. (k + 2) * size <= quot * size /\ (k + 2) * size \in Nat
        BY <2>1, <3>4, ProductsGrow, k + 2 \in Nat, k + 2 <= quot
      <4>2. (k + 2) * size = (k + 1) * size + size
        BY <2>1
      <4>3. ~((k + 1) * size >= len)
        BY <4>1, <4>2, <1>2, <1>4, <2>1, <2>4, <3>1
      <4>4. k + 1 # count
        BY <3>4, <1>3, <2>1
      <4>5. QED
        BY <3>2, <4>3, <4>4, <2>2, <2>4
    <3>5. QED
      BY <3>3, <3>4, <2>1, <2>6
  <2>7. QED
    BY <2>1, <2>3, <2>5, <2>6
<1>8. QED
  BY <1>5, <1>6, <1>7 DEF len, count

LEMMA DividedInto ==
  ASSUME NEW m \in Messages, NEW size \in Nat \ {0}
  PROVE  LET chunks == message2Chunks(m, size)
             count == numOfChunk(m, size) IN
         /\ chunks \in Seq(Chunks) /\ Len(chunks) = count
         /\ \A k \in 0 .. count - 1 :
              /\ chunks[k + 1].header = calcHeader(m, IF k = 0 THEN None ELSE m)
              /\ chunks[k + 1].body = Part(m, k * size, Smaller(k * size + size, m.len))
<1> DEFINE count == numOfChunk(m, size)
           Chunk(i) == [header |-> calcHeader(m, IF i = 1 THEN None ELSE m),
                        body |-> SubSeq(Body(m), (i - 1) * size + 1, Smaller(i * size, m.len))]
<1>1. message2Chunks(m, size) = [i \in 1..count |-> Chunk(i)]
  BY DEF message2Chunks
<1>2. count \in Nat /\ m.len \in Nat
  BY CountOfChunks DEF Messages
<1> HIDE DEF count
<1>3. ASSUME NEW k \in 0 .. count - 1
      PROVE  /\ Chunk(k + 1).header = calcHeader(m, IF k = 0 THEN None ELSE m)
             /\ Chunk(k + 1).body = Part(m, k * size, Smaller(k * size + size, m.len))
             /\ Chunk(k + 1) \in Chunks
  <2>1. k \in Nat /\ (k + 1) - 1 = k /\ (k + 1 = 1 <=> k = 0)
    BY <1>2
  <2>2. k * size \in Nat /\ k * size < m.len /\ (k + 1) * size = k * size + size
    BY CountOfChunks DEF count
  <2>3. ((k + 1) - 1) * size = k * size
    BY <2>1
  <2>4. Chunk(k + 1) = [header |-> calcHeader(m, IF k = 0 THEN None ELSE m),
                        body |-> Part(m, k * size, Smaller(k * size + size, m.len))]
    BY <2>1, <2>2, <2>3 DEF Part
  <2>5. calcHeader(m, IF k = 0 THEN None ELSE m) \in Headers
    BY DividerHeaders
  <2>6. Part(m, k * size, Smaller(k * size + size, m.len)) \in Seq(Units)
    <3>1. /\ Smaller(k * size + size, m.len) \in Nat
          /\ k * size <= Smaller(k * size + size, m.len)
          /\ Smaller(k * size + size, m.len) <= m.len
      BY <1>2, <2>2 DEF Smaller
    <3>2. QED
      BY <2>2, <3>1, PartIs
  <2> DEFINE header == calcHeader(m, IF k = 0 THEN None ELSE m)
             body == Part(m, k * size, Smaller(k * size + size, m.len))
             chunk == Chunk(k + 1)
  <2>7. chunk = [header |-> header, body |-> body] /\ header \in Headers /\ body \in Seq(Units)
    BY <2>4, <2>5, <2>6
  <2> HIDE DEF Chunk, header, body, chunk
  <2>8. chunk.header = header /\ chunk.body = body /\ chunk \in Chunks
    BY <2>7 DEF Chunks
  <2>9. QED
    BY <2>8 DEF chunk, header, body
<1> HIDE DEF Chunk
<1>4. ASSUME NEW i \in 1..count PROVE Chunk(i) \in Chunks
  <2>1. i - 1 \in 0 .. count - 1 /\ (i - 1) + 1 = i
    BY <1>2
  <2>2. QED
    BY <2>1, <1>3
<1>5. [i \in 1..count |-> Chunk(i)] \in Seq(Chunks) /\ Len([i \in 1..count |-> Chunk(i)]) = count
  BY <1>2, <1>4
<1>6. \A k \in 0 .. count - 1 : [i \in 1..count |-> Chunk(i)][k + 1] = Chunk(k + 1)
  BY <1>2
<1>7. QED
  BY <1>1, <1>3, <1>5, <1>6 DEF count

-----------------------------------------------------------------------------
(* The invariant.                                                          *)

Shape ==
  /\ wire \in Seq(Chunks) /\ sender \in {"divider", "peer"}
  /\ sent \in Seq(Messages) /\ Len(sent) <= MaxMsgs
  /\ \A n \in 1..Len(sent) :
       /\ sent[n].n = n /\ sent[n].len \in Stamps
       /\ sent[n].type = "size" => sent[n].len = 1 /\ sent[n].size # 0
  /\ chunkSize \in Nat \ {0} /\ peerChunkSize \in Nat \ {0}
  /\ last \in [AllCsids -> LastHeaders \cup {None}]
  /\ stream \in [AllCsids -> Streams]
  /\ \A c \in AllCsids : Len(stream[c].msg) <= stream[c].len
  /\ written \in Seq(Messages) /\ received \in Seq(Arrivals)
  /\ absTsFlag \in BOOLEAN /\ lost \in BOOLEAN
  /\ interleaved \in BOOLEAN /\ resized \in BOOLEAN /\ longGap \in BOOLEAN

\* What has been received is what was written first.
Prefix ==
  /\ Len(received) <= Len(written)
  /\ \A i \in 1..Len(received) : Unstamped(received[i]) = Content(written[i])

AllRead == Len(written) = Len(received)

\* The last chunk of m is on the wire.
Underway(m) == Len(written) = Len(received) + 1 /\ written[Len(written)] = m

Done(p) == p.len - Len(p.rest)

OnWire(c) == wire # <<>> /\ Head(wire).header.csid = c

\* What a peer has sent on chunk stream c, as p and m describe it.
Known(c, p, m) ==
  /\ p.n \in 1..Len(sent) /\ sent[p.n] = m
  /\ m.csid = c /\ m.len = p.len /\ m.type = p.type /\ m.ts = p.ts
  /\ Len(p.rest) <= p.len
  /\ p.rest = Part(m, Done(p), p.len)
  /\ p.type = "size" => p.rest = <<>>
  /\ ~resized /\ p.rest # <<>> => p.len > chunkSize

InHand(c, p, m) ==
  /\ Holds(stream[c], m, p.delta)
  /\ stream[c].msg = IF p.rest = <<>> THEN <<>> ELSE Part(m, 0, Done(p))

Coming(c, p, m) ==
  /\ Reads(stream[c], Head(wire).header, p.delta, m)
  /\ stream[c].msg \o Head(wire).body = Part(m, 0, Done(p))
  /\ ~resized => neededSize(readHeader(stream[c], Head(wire).header)) = Len(Head(wire).body)

PeerStream(c) ==
  IF last[c] = None THEN stream[c].msg = <<>> /\ ~OnWire(c)
  ELSE /\ Known(c, last[c], sent[last[c].n])
       /\ ~OnWire(c) => InHand(c, last[c], sent[last[c].n])
       /\ OnWire(c) => Coming(c, last[c], sent[last[c].n])

PeerWire ==
  /\ wire = <<>> => chunkSize = peerChunkSize /\ AllRead
  /\ wire # <<>> =>
       LET p == last[Head(wire).header.csid] IN
       /\ Len(wire) = 1
       /\ chunkSize = IF p.type = "size" THEN sent[p.n].size ELSE peerChunkSize
       /\ IF p.rest = <<>> THEN Underway(sent[p.n]) ELSE AllRead

PeerInv == PeerWire /\ \A c \in AllCsids : PeerStream(c)

\* k chunks of m have been read, the others are on the wire.
Dividing(m, k) ==
  /\ k \in 0 .. numOfChunk(m, LocalChunkSize) - 1
  /\ wire = SubSeq(message2Chunks(m, LocalChunkSize), k + 1, numOfChunk(m, LocalChunkSize))
  /\ Underway(m)
  /\ stream[m.csid].msg = Part(m, 0, k * LocalChunkSize)
  /\ \A c \in AllCsids \ {m.csid} : stream[c].msg = <<>>
  /\ k > 0 => Holds(stream[m.csid], m, m.ts) /\ m.ts # MaxTs

DividerInv ==
  /\ sent # <<>> => sent[1].type = "size" /\ sent[1].size = LocalChunkSize
  /\ \A n \in 2..Len(sent) : sent[n].type # "size"
  /\ wire = <<>> =>
       /\ AllRead
       /\ \A c \in AllCsids : stream[c].msg = <<>>
       /\ sent # <<>> => peerChunkSize = LocalChunkSize
  /\ wire # <<>> =>
       /\ sent # <<>>
       /\ Len(sent) > 1 => peerChunkSize = LocalChunkSize
       /\ \E k \in Nat : Dividing(sent[Len(sent)], k)

LossExplained ==
  lost => resized \/ (sender = "divider" /\ \E i \in 1..Len(sent) : sent[i].ts = MaxTs)

Inv ==
  /\ Shape /\ Prefix /\ LossExplained
  /\ ~lost => IF sender = "peer" THEN PeerInv ELSE DividerInv

-----------------------------------------------------------------------------
(* Reading a chunk.                                                        *)

readUnchanged == <<sender, sent, chunkSize, last, written, interleaved, resized, longGap>>

\* The composer has lost its place.
Slips ==
  /\ lost' = TRUE
  /\ UNCHANGED <<wire, peerChunkSize, stream, absTsFlag, received>>

\* It has read a chunk of m, of whose body it now has the first j units.
Takes(m, time, j) ==
  /\ lost' = FALSE /\ absTsFlag' \in BOOLEAN
  /\ wire' = Tail(wire)
  /\ stream' \in [AllCsids -> Streams]
  /\ \A d \in AllCsids \ {m.csid} : stream'[d] = stream[d]
  /\ Holds(stream'[m.csid], m, time)
  /\ stream'[m.csid].msg = IF j = m.len THEN <<>> ELSE Part(m, 0, j)
  /\ peerChunkSize' = IF j = m.len /\ m.type = "size" THEN m.size ELSE peerChunkSize
  /\ IF j = m.len THEN \E r \in Arrivals : received' = Append(received, r) /\ Unstamped(r) = Content(m)
     ELSE received' = received

LEMMA Cleared ==
  ASSUME NEW s \in Streams, NEW abs
  PROVE  [s EXCEPT !.abs = abs, !.msg = <<>>] =
           [timestamp |-> s.timestamp, abs |-> abs, len |-> s.len, type |-> s.type, msg |-> <<>>]
<1> DEFINE r == [s EXCEPT !.abs = abs, !.msg = <<>>]
<1>1. DOMAIN s = {"timestamp", "abs", "len", "type", "msg"}
  BY DEF Streams
<1>2. r = [x \in {"timestamp", "abs", "len", "type", "msg"} |-> r[x]]
  BY <1>1
<1>3. /\ r["timestamp"] = s.timestamp /\ r["len"] = s.len /\ r["type"] = s.type
      /\ r["abs"] = abs /\ r["msg"] = <<>>
  BY <1>1
<1> HIDE DEF r
<1>4. r = [timestamp |-> s.timestamp, abs |-> abs, len |-> s.len, type |-> s.type, msg |-> <<>>]
  BY <1>2, <1>3
<1>5. QED
  BY <1>4 DEF r

LEMMA ReadsOnce ==
  ASSUME Shape, ReadChunk
  PROVE  LET h == Head(wire).header
             s == readHeader(stream[h.csid], h)
         IN /\ wire # <<>> /\ ~lost /\ UNCHANGED readUnchanged
            /\ h \in Headers /\ h.csid \in AllCsids /\ Head(wire).body \in Seq(Units)
            /\ stream[h.csid] \in Streams /\ s \in Streams
            /\ s.msg = stream[h.csid].msg
            /\ ~((ExtExpected(s) <=> h.ext # <<>>) /\ neededSize(s) = Len(Head(wire).body)) => Slips
<1>1. wire # <<>> /\ ~lost /\ UNCHANGED readUnchanged
  BY DEF ReadChunk, readUnchanged
<1>2. Head(wire) \in Chunks
  BY <1>1 DEF Shape
<1>3. Head(wire).header \in Headers /\ Head(wire).body \in Seq(Units)
  BY <1>2 DEF Chunks
<1>4. Head(wire).header.csid \in AllCsids
  BY <1>3 DEF Headers
<1>5. stream[Head(wire).header.csid] \in Streams
  BY <1>4 DEF Shape
<1> DEFINE h == Head(wire).header
           s == readHeader(stream[h.csid], h)
<1>6. s \in Streams /\ s.msg = stream[h.csid].msg
  BY <1>3, <1>5, HeaderRead
<1>7. ExtExpected(s) \in BOOLEAN
  BY DEF ExtExpected
<1>8. ~((ExtExpected(s) <=> h.ext # <<>>) /\ neededSize(s) = Len(Head(wire).body)) => Slips
  <2>1. \/ Slips
        \/ ExtExpected(s) = (h.ext # <<>>) /\ neededSize(s) = Len(Head(wire).body)
    BY DEF ReadChunk, Slips
  <2>2. QED
    BY <2>1, <1>7
<1>9. QED
  BY <1>1, <1>3, <1>4, <1>5, <1>6, <1>8

LEMMA ReadsOn ==
  ASSUME Shape, ReadChunk, NEW m \in Messages, NEW time \in Stamps, NEW j \in Nat, j <= m.len,
         m.n \in 1..Len(sent), sent[m.n] = m, Head(wire).header.csid = m.csid,
         Reads(stream[m.csid], Head(wire).header, time, m),
         stream[m.csid].msg \o Head(wire).body = Part(m, 0, j)
  PROVE  /\ UNCHANGED readUnchanged /\ ~lost /\ wire # <<>>
         /\ IF neededSize(readHeader(stream[m.csid], Head(wire).header)) = Len(Head(wire).body)
            THEN Takes(m, time, j) ELSE Slips
<1> DEFINE c == m.csid
           h == Head(wire).header
           body == Head(wire).body
           s == readHeader(stream[c], h)
           t == readExt(s, h)
           u == [t EXCEPT !.msg = @ \o body]
           absFlag == absTsFlag \/ h.fmt = 0
           abs == absAfter(u, absFlag)
<1>1. /\ wire # <<>> /\ ~lost /\ UNCHANGED readUnchanged
      /\ h \in Headers /\ h.csid = c /\ c \in AllCsids /\ body \in Seq(Units)
      /\ stream[c] \in Streams /\ s \in Streams /\ s.msg = stream[c].msg
      /\ ~((ExtExpected(s) <=> h.ext # <<>>) /\ neededSize(s) = Len(body)) => Slips
  BY ReadsOnce
<1>2. (ExtExpected(s) <=> h.ext # <<>>) /\ Holds(t, m, time)
  BY DEF Reads
<1>3. t \in Streams /\ t.msg = stream[c].msg
  BY <1>1, <1>2, ExtRead
<1>4. m.len \in Nat /\ Part(m, 0, j) \in Seq(Units) /\ Len(Part(m, 0, j)) = j
  BY PartIs, 0 \in Nat DEF Messages
<1>5. CASE neededSize(s) # Len(body)
  BY <1>1, <1>5
<1>6. CASE neededSize(s) = Len(body)
  <2> HIDE DEF s
  <2>1. u.msg = Part(m, 0, j) /\ u.len = m.len /\ u.type = m.type /\ u.timestamp = time /\ u.abs = t.abs
    <3>1. u.msg = t.msg \o body /\ u.len = t.len /\ u.type = t.type /\ u.timestamp = t.timestamp
          /\ u.abs = t.abs
      BY <1>3 DEF Streams
    <3> HIDE DEF t, u
    <3>2. QED
      BY <3>1, <1>2, <1>3 DEF Holds
  <2>2. u \in Streams
    BY <1>3, <1>4, <2>1 DEF Streams
  <2>3. Complete(u) <=> j = m.len
    BY <2>1, <1>4 DEF Complete
  <2>4. abs \in Stamps
    <3>1. u.abs \in Stamps /\ u.timestamp \in Stamps
      BY <2>2 DEF Streams
    <3>2. u.abs + u.timestamp \in Int
      BY <3>1, Numbers DEF Stamps
    <3> HIDE DEF u
    <3>3. QED
      BY <3>1, <3>2, ModIsStamp DEF absAfter
  <2>5. ExtExpected(s) = (h.ext # <<>>)
    <3>1. ExtExpected(s) \in BOOLEAN
      BY DEF ExtExpected
    <3>2. QED
      BY <3>1, <1>2
  <2>6. /\ wire' = Tail(wire)
        /\ IF Complete(u)
           THEN /\ peerChunkSize' = IF u.type = "size" THEN sent[u.msg[1][1]].size ELSE peerChunkSize
                /\ stream' = [stream EXCEPT ![c] = [u EXCEPT !.abs = abs, !.msg = <<>>]]
                /\ absTsFlag' = FALSE
                /\ received' = Append(received, [csid |-> c, ts |-> abs, type |-> u.type, msg |-> u.msg])
           ELSE /\ stream' = [stream EXCEPT ![c] = u]
                /\ absTsFlag' = absFlag
                /\ UNCHANGED <<peerChunkSize, received>>
        /\ UNCHANGED lost
    BY <1>1, <1>6, <2>5 DEF ReadChunk, s
  <2> HIDE DEF t, u, abs, h, body
  <2>7. lost' = FALSE /\ absTsFlag' \in BOOLEAN
    BY <1>1, <2>6 DEF Shape
  <2>8. CASE j # m.len
    <3>1. stream' = [stream EXCEPT ![c] = u] /\ UNCHANGED <<peerChunkSize, received>>
      BY <2>3, <2>6, <2>8
    <3>2. /\ stream' \in [AllCsids -> Streams] /\ stream'[c] = u
          /\ \A d \in AllCsids \ {c} : stream'[d] = stream[d]
      BY <3>1, <2>2, <1>1 DEF Shape
    <3>3. QED
      BY <3>1, <3>2, <2>1, <2>6, <2>7, <2>8, <1>1, <1>6 DEF Takes, Holds, s, h, body
  <2>9. CASE j = m.len
    <3> DEFINE v == [u EXCEPT !.abs = abs, !.msg = <<>>]
               r == [csid |-> c, ts |-> abs, type |-> u.type, msg |-> u.msg]
    <3>1. /\ stream' = [stream EXCEPT ![c] = v] /\ received' = Append(received, r)
          /\ peerChunkSize' = IF u.type = "size" THEN sent[u.msg[1][1]].size ELSE peerChunkSize
      BY <2>3, <2>6, <2>9
    <3>2. /\ v \in Streams /\ v.msg = <<>> /\ v.len = u.len /\ v.type = u.type
          /\ v.timestamp = u.timestamp
      <4>1. v = [timestamp |-> u.timestamp, abs |-> abs, len |-> u.len, type |-> u.type, msg |-> <<>>]
        BY <2>2, Cleared
      <4>2. u.timestamp \in Stamps /\ u.len \in Nat /\ u.type \in Types \cup {"none"} /\ <<>> \in Seq(Units)
        BY <2>2 DEF Streams
      <4> HIDE DEF v
      <4>3. QED
        BY <4>1, <4>2, <2>4 DEF Streams
    <3>3. r \in Arrivals /\ Unstamped(r) = Content(m)
      <4>1. u.msg = Body(m) /\ u.msg \in Seq(Units) /\ u.type \in Types \cup {"none"}
        BY <2>1, <2>2, <2>9, WholePart DEF Streams
      <4>2. r \in Arrivals
        BY <4>1, <1>1, <2>4 DEF Arrivals
      <4>3. QED
        BY <4>1, <4>2, <2>1 DEF Unstamped, Content
    <3>4. m.type = "size" => sent[u.msg[1][1]].size = m.size
      <4> SUFFICES ASSUME m.type = "size" PROVE sent[u.msg[1][1]].size = m.size
        OBVIOUS
      <4>1. m.len = 1
        BY DEF Shape
      <4>2. Part(m, 0, j)[1] = <<m.n, 0 + 1>>
        <5>1. \A x \in 1..(j - 0) : Part(m, 0, j)[x] = <<m.n, 0 + x>>
          BY PartIs, 0 \in Nat, 0 <= j
        <5>2. 1 \in 1..(j - 0)
          BY <4>1, <2>9
        <5>3. QED
          BY <5>1, <5>2
      <4>3. u.msg[1][1] = m.n
        BY <4>2, <2>1
      <4>4. QED
        BY <4>3
    <3> HIDE DEF v, r
    <3>5. /\ stream' \in [AllCsids -> Streams] /\ stream'[c] = v
          /\ \A d \in AllCsids \ {c} : stream'[d] = stream[d]
      BY <3>1, <3>2, <1>1 DEF Shape
    <3>6. Holds(stream'[c], m, time) /\ stream'[c].msg = <<>>
      BY <3>2, <3>5, <2>1 DEF Holds
    <3>7. peerChunkSize' = IF m.type = "size" THEN m.size ELSE peerChunkSize
      BY <3>1, <3>4, <2>1
    <3>8. QED
      BY <3>1, <3>3, <3>5, <3>6, <3>7, <2>6, <2>7, <2>9, <1>1, <1>6 DEF Takes, s, h, body
  <2>10. QED
    BY <2>8, <2>9
<1>7. QED
  BY <1>5, <1>6

-----------------------------------------------------------------------------
(* A peer writes a chunk.                                                  *)

\* What the messages are, apart from what is done with them.
SentIs(s) ==
  /\ s \in Seq(Messages) /\ Len(s) <= MaxMsgs
  /\ \A n \in 1..Len(s) :
       /\ s[n].n = n /\ s[n].len \in Stamps
       /\ s[n].type = "size" => s[n].len = 1 /\ s[n].size # 0

LEMMA PeerWritesKeeps ==
  ASSUME Inv, CanWrite, sender = "peer", NEW m \in Messages, NEW fmt \in 0..3, NEW time \in Stamps,
         NEW i \in Nat, i <= m.len, m.type = "size" => i = 0,
         stream[m.csid].msg = Part(m, 0, i),
         fmt > 1 => stream[m.csid].len = m.len /\ stream[m.csid].type = m.type,
         fmt > 2 => stream[m.csid].timestamp = time,
         ~resized /\ i > 0 => m.len > chunkSize,
         SentIs(sent'), m.n \in 1..Len(sent'), sent'[m.n] = m,
         \A n \in 1..Len(sent) : n \in 1..Len(sent') /\ sent'[n] = sent[n],
         PeerWrites(m, fmt, time, Part(m, i, m.len))
  PROVE  /\ Inv'
         /\ written' = written \/ written' = Append(written, m)
         /\ received' = received
<1> DEFINE c == m.csid
           body == Part(m, i, m.len)
           others == \E d \in AllCsids \ {c} : Partial(d)
<1>1. /\ wire = <<>> /\ ~lost /\ PeerInv /\ Shape /\ Prefix
      /\ chunkSize = peerChunkSize /\ AllRead
  BY DEF Inv, CanWrite, PeerInv, PeerWire
<1>2. /\ m.n \in 1..MaxMsgs /\ c \in AllCsids /\ m.ts \in Stamps /\ m.type \in Types
      /\ m.len \in Nat /\ m.size \in Nat /\ m.len \in Stamps
      /\ m.type = "size" => m.len = 1 /\ m.size # 0
  BY DEF Messages, SentIs
<1>3. chunkSize \in Nat \ {0} /\ stream[c] \in Streams
  BY <1>1, <1>2 DEF Shape
<1>4. body \in Seq(Units) /\ Len(body) = m.len - i
  <2>1. m.len <= m.len
    BY <1>2
  <2>2. QED
    BY <1>2, <2>1, PartIs
<1>5. PICK k \in Nat : k = Smaller(chunkSize, Len(body))
  <2> HIDE DEF body
  <2>1. QED
    BY <1>2, <1>3, <1>4 DEF Smaller
<1> DEFINE j == i + k
           ext == IF time >= MaxTs THEN <<time>> ELSE <<>>
           part == SubSeq(body, 1, k)
           h == PeerChunk(m, fmt, time, ext, part).header
           p == [n |-> m.n, ts |-> m.ts, len |-> m.len, type |-> m.type, delta |-> time,
                 rest |-> SubSeq(body, k + 1, Len(body))]
<1>6. /\ wire' = <<PeerChunk(m, fmt, time, ext, part)>>
      /\ last' = [last EXCEPT ![c] = p]
      /\ written' = IF k = Len(body) THEN Append(written, m) ELSE written
      /\ interleaved' = (interleaved \/ others)
      /\ resized' = (resized \/ (others /\ m.type = "size"))
      /\ longGap' = (longGap \/ (fmt \in 1..2 /\ time >= MaxTs))
      /\ chunkSize' = IF m.type = "size" THEN m.size ELSE chunkSize
      /\ UNCHANGED <<sender, peerChunkSize, stream, absTsFlag, received, lost>>
  BY <1>5 DEF PeerWrites, readVars
<1>7. /\ k \in Nat /\ j \in Nat /\ j <= m.len /\ i <= j
      /\ k = Len(body) <=> j = m.len
      /\ k = Smaller(chunkSize, m.len - i)
  <2> HIDE DEF body
  <2>1. QED
    BY <1>2, <1>3, <1>4, <1>5 DEF Smaller
<1>8. part = Part(m, i, j) /\ SubSeq(body, k + 1, Len(body)) = Part(m, j, m.len)
  <2>1. Len(body) = m.len - i
    BY <1>4
  <2>2. i + k <= m.len
    BY <1>7
  <2>3. SubSeq(Part(m, i, m.len), 1, k) = Part(m, i, i + k)
        /\ SubSeq(Part(m, i, m.len), k + 1, m.len - i) = Part(m, i + k, m.len)
    BY <2>2, PartOfPart
  <2>4. QED
    BY <2>1, <2>3
<1> HIDE DEF body, j
<1>9. part \in Seq(Units) /\ Len(part) = k
  <2>1. j - i = k
    BY <1>7 DEF j
  <2>2. Part(m, i, j) \in Seq(Units) /\ Len(Part(m, i, j)) = j - i
    BY <1>7, PartIs
  <2>3. QED
    BY <1>8, <2>1, <2>2
<1>10. /\ wire' = <<[header |-> h, body |-> part]>> /\ h \in Headers /\ h.csid = c
       /\ Reads(stream[c], h, time, m)
  <2>1. ext = IF time >= MaxTs THEN <<time>> ELSE <<>>
    OBVIOUS
  <2>2. wire' = <<PeerChunk(m, fmt, time, ext, part)>>
    BY <1>6
  <2> HIDE DEF part, ext
  <2>3. QED
    BY <1>3, <1>9, <2>1, <2>2, PeerReads
<1>11. /\ wire' # <<>> /\ Len(wire') = 1 /\ Head(wire') = [header |-> h, body |-> part]
       /\ wire' \in Seq(Chunks)
  BY <1>9, <1>10 DEF Chunks
<1>12. Head(wire').header = h /\ Head(wire').body = part
  BY <1>11
<1>13. /\ Part(m, j, m.len) \in Seq(Units) /\ Len(Part(m, j, m.len)) = m.len - j
       /\ Part(m, j, m.len) = <<>> <=> j = m.len
  <2>1. m.len <= m.len
    BY <1>2
  <2>2. Part(m, j, m.len) \in Seq(Units) /\ Len(Part(m, j, m.len)) = m.len - j
    BY <1>2, <1>7, <2>1, PartIs
  <2>3. QED
    BY <2>2, <1>2, <1>7
<1>14. /\ p = [n |-> m.n, ts |-> m.ts, len |-> m.len, type |-> m.type, delta |-> time,
               rest |-> Part(m, j, m.len)]
       /\ p \in LastHeaders /\ p # None
  <2> DEFINE rest == Part(m, j, m.len)
  <2>1. p = [n |-> m.n, ts |-> m.ts, len |-> m.len, type |-> m.type, delta |-> time, rest |-> rest]
    BY <1>8
  <2>2. rest \in Seq(Units)
    BY <1>13
  <2> HIDE DEF rest, p
  <2>3. p \in LastHeaders
    BY <1>2, <2>1, <2>2 DEF LastHeaders
  <2>4. p # None
    BY <2>3, NoneIsNoHeader
  <2>5. QED
    BY <2>1, <2>3, <2>4 DEF rest
<1> HIDE DEF h, p, part
<1>15. /\ p.n = m.n /\ p.ts = m.ts /\ p.len = m.len /\ p.type = m.type /\ p.delta = time
       /\ p.rest = Part(m, j, m.len)
       /\ p.rest = <<>> <=> j = m.len
       /\ Len(p.rest) = m.len - j /\ Done(p) = j
  <2>1. m.len - (m.len - j) = j
    BY <1>2, <1>7
  <2>2. QED
    BY <1>13, <1>14, <2>1 DEF Done
<1>16. /\ last' \in [AllCsids -> LastHeaders \cup {None}] /\ last'[c] = p
       /\ \A d \in AllCsids \ {c} : last'[d] = last[d]
  BY <1>1, <1>2, <1>6, <1>14 DEF Shape
<1>17. stream[c].msg \o part = Part(m, 0, j)
  <2>1. Part(m, 0, i) \o Part(m, i, j) = Part(m, 0, j)
    <3>1. 0 \in Nat /\ i \in Nat /\ j \in Nat /\ 0 <= i /\ i <= j /\ j <= m.len
      BY <1>7
    <3>2. QED
      BY <3>1, PartsJoin
  <2>2. QED
    BY <1>8, <2>1
<1>18. readHeader(stream[c], h) \in Streams /\ readHeader(stream[c], h).msg = stream[c].msg
  BY <1>3, <1>10, HeaderRead
<1>19. readHeader(stream[c], h).len = m.len
  <2>1. ExtExpected(readHeader(stream[c], h)) => h.ext # <<>>
    BY <1>10 DEF Reads
  <2>2. readExt(readHeader(stream[c], h), h).len = readHeader(stream[c], h).len
    BY <1>10, <1>18, <2>1, ExtRead
  <2>3. QED
    BY <2>2, <1>10 DEF Reads, Holds
<1>20. Len(stream[c].msg) = i
  BY <1>2, PartIs, 0 \in Nat, i - 0 = i
<1>21. ~resized => neededSize(readHeader(stream[c], h)) = k
  <2> SUFFICES ASSUME ~resized PROVE neededSize(readHeader(stream[c], h)) = k
    OBVIOUS
  <2>1. CASE m.len <= peerChunkSize
    <3>1. i = 0
      BY <2>1, <1>1, <1>2, <1>3
    <3>2. k = m.len
      BY <3>1, <2>1, <1>1, <1>2, <1>3, <1>7 DEF Smaller
    <3>3. QED
      BY <3>2, <2>1, <1>19 DEF neededSize
  <2>2. CASE ~(m.len <= peerChunkSize)
    <3>1. m.len - i \in Stamps
      BY <1>2, Numbers DEF Stamps
    <3>2. (m.len - i) % TsMod = m.len - i
      BY <3>1, SmallMod
    <3>3. neededSize(readHeader(stream[c], h)) = Smaller(m.len - i, peerChunkSize)
      BY <2>2, <3>2, <1>18, <1>19, <1>20 DEF neededSize
    <3>4. QED
      BY <3>3, <1>1, <1>2, <1>3, <1>7 DEF Smaller
  <2>3. QED
    BY <2>1, <2>2
<1>22. j < m.len => m.len > chunkSize /\ m.type # "size"
  BY <1>2, <1>3, <1>7 DEF Smaller, j
<1>23. PeerStream(c)'
  <2>1. OnWire(c)'
    BY <1>10, <1>11, <1>12 DEF OnWire
  <2>2. Known(c, p, m)'
    <3>1. Done(p)' = j
      BY <1>15 DEF Done
    <3>2. p.rest # <<>> => p.len > chunkSize'
      BY <1>15, <1>22, <1>6, <1>7, <1>2
    <3>3. p.type = "size" => p.rest = <<>>
      BY <1>15, <1>22, <1>7, <1>2
    <3>4. Len(p.rest) <= p.len
      BY <1>15, <1>2, <1>7
    <3>5. QED
      BY <1>15, <3>1, <3>2, <3>3, <3>4 DEF Known
  <2>3. Coming(c, p, m)'
    <3>1. Reads(stream[c], Head(wire)'.header, p.delta, m)
      BY <1>10, <1>12, <1>15
    <3>2. stream[c].msg \o Head(wire)'.body = Part(m, 0, Done(p))
      BY <1>12, <1>15, <1>17
    <3>3. ~resized' => neededSize(readHeader(stream[c], Head(wire)'.header)) = Len(Head(wire)'.body)
      BY <1>6, <1>9, <1>12, <1>21
    <3>4. neededSize(readHeader(stream[c], h))' = neededSize(readHeader(stream[c], h'))
      BY <1>6 DEF neededSize
    <3>5. QED
      BY <1>6, <3>1, <3>2, <3>3 DEF Coming, neededSize
  <2>4. last'[c] # None /\ sent'[last'[c].n] = m
    BY <1>14, <1>15, <1>16
  <2>5. QED
    BY <2>1, <2>2, <2>3, <2>4, <1>16 DEF PeerStream
<1>24. ASSUME NEW d \in AllCsids \ {c} PROVE PeerStream(d)'
  <2>1. ~OnWire(d) /\ ~OnWire(d)' /\ last'[d] = last[d] /\ stream'[d] = stream[d] /\ PeerStream(d)
    BY <1>1, <1>6, <1>10, <1>12, <1>16 DEF OnWire, PeerInv
  <2>2. CASE last[d] = None
    BY <2>1, <2>2 DEF PeerStream
  <2>3. CASE last[d] # None
    <3>1. PICK q, w : q = last[d] /\ w = sent[q.n]
      OBVIOUS
    <3>2. Known(d, q, w) /\ InHand(d, q, w)
      BY <2>1, <2>3, <3>1 DEF PeerStream
    <3>3. q.n \in 1..Len(sent') /\ sent'[q.n] = w
      BY <3>2 DEF Known
    <3>4. ~resized' /\ q.rest # <<>> => q.len > chunkSize'
      <4> SUFFICES ASSUME ~resized', q.rest # <<>> PROVE q.len > chunkSize'
        OBVIOUS
      <4>1. others
        BY <2>3, <3>1 DEF Partial
      <4>2. m.type # "size" /\ ~resized
        BY <4>1, <1>6
      <4>3. QED
        BY <4>2, <3>2, <1>6 DEF Known
    <3>5. Known(d, q, w)'
      BY <3>3, <3>4, <3>2 DEF Known, Done
    <3>6. InHand(d, q, w)'
      BY <3>2, <2>1 DEF InHand, Holds, Done
    <3>7. QED
      BY <3>1, <3>3, <3>5, <3>6, <2>1, <2>3 DEF PeerStream
  <2>4. QED
    BY <2>2, <2>3
<1>25. written' \in Seq(Messages) /\ written' = (IF j = m.len THEN Append(written, m) ELSE written)
  BY <1>1, <1>6, <1>7 DEF Shape
<1>26. /\ Len(written) \in Nat /\ Len(received) \in Nat /\ received' = received
       /\ written' = written \/ written' = Append(written, m)
       /\ Len(written') = Len(written) + (IF j = m.len THEN 1 ELSE 0)
       /\ \A x \in 1..Len(written) : written'[x] = written[x]
       /\ j = m.len => written'[Len(written')] = m
  BY <1>1, <1>6, <1>25 DEF Shape
<1>27. PeerWire'
  <2>1. last'[Head(wire').header.csid] = p /\ sent'[p.n] = m
    BY <1>10, <1>12, <1>15, <1>16
  <2>2. chunkSize' = IF p.type = "size" THEN sent'[p.n].size ELSE peerChunkSize'
    BY <2>1, <1>1, <1>6, <1>15
  <2>3. IF p.rest = <<>> THEN Underway(m)' ELSE AllRead'
    <3>1. CASE j = m.len
      BY <3>1, <1>1, <1>15, <1>26 DEF Underway, AllRead
    <3>2. CASE j # m.len
      BY <3>2, <1>1, <1>15, <1>26 DEF AllRead
    <3>3. QED
      BY <3>1, <3>2
  <2>4. QED
    BY <1>11, <2>1, <2>2, <2>3 DEF PeerWire, Underway
<1>28. Prefix'
  BY <1>1, <1>26 DEF Prefix
<1>29. Shape'
  <2>1. chunkSize' \in Nat \ {0}
    BY <1>2, <1>3, <1>6
  <2>2. interleaved' \in BOOLEAN /\ resized' \in BOOLEAN /\ longGap' \in BOOLEAN
    BY <1>1, <1>6 DEF Shape
  <2>3. QED
    BY <1>1, <1>6, <1>11, <1>16, <1>25, <2>1, <2>2 DEF Shape, SentIs
<1>30. QED
  BY <1>1, <1>6, <1>23, <1>24, <1>26, <1>27, <1>28, <1>29 DEF Inv, PeerInv, LossExplained

LEMMA SentGrows ==
  ASSUME Shape, CanBegin, NEW m \in Messages, m.n = Len(sent) + 1, m.len \in Stamps,
         m.type = "size" => m.len = 1 /\ m.size # 0,
         sent' = Append(sent, m)
  PROVE  /\ SentIs(sent') /\ Len(sent') = Len(sent) + 1 /\ Len(sent) \in Nat
         /\ m.n \in 1..Len(sent') /\ sent'[m.n] = m
         /\ \A n \in 1..Len(sent) : n \in 1..Len(sent') /\ sent'[n] = sent[n]
<1>1. /\ sent \in Seq(Messages) /\ Len(sent) \in Nat /\ Len(sent) < MaxMsgs /\ MaxMsgs \in Nat
      /\ SentIs(sent)
  BY Numbers DEF Shape, CanBegin, SentIs
<1>2. /\ sent' \in Seq(Messages) /\ Len(sent') = Len(sent) + 1
      /\ \A n \in 1..Len(sent) : sent'[n] = sent[n]
      /\ sent'[Len(sent) + 1] = m
  BY <1>1
<1>3. ASSUME NEW n \in 1..Len(sent')
      PROVE  /\ sent'[n].n = n /\ sent'[n].len \in Stamps
             /\ sent'[n].type = "size" => sent'[n].len = 1 /\ sent'[n].size # 0
  <2>1. CASE n = Len(sent) + 1
    BY <2>1, <1>2
  <2>2. CASE n # Len(sent) + 1
    <3>1. n \in 1..Len(sent)
      BY <2>2, <1>1, <1>2
    <3>2. QED
      BY <3>1, <1>1, <1>2 DEF SentIs
  <2>3. QED
    BY <2>1, <2>2
<1>4. QED
  BY <1>1, <1>2, <1>3 DEF SentIs

LEMMA NewMessages ==
  ASSUME Shape, CanBegin
  PROVE  /\ \A c \in Csids, ts \in Timestamps, type \in MediaTypes, len \in Lens :
              LET m == Media(c, ts, type, len) IN
              /\ m \in Messages /\ m.n = Len(sent) + 1 /\ m.len \in Stamps /\ m.type # "size"
              /\ m.len = len
         /\ \A size \in Nat \ {0} :
              LET m == SetChunkSize(size) IN
              /\ m \in Messages /\ m.n = Len(sent) + 1 /\ m.len \in Stamps
              /\ m.type = "size" /\ m.len = 1 /\ m.size = size /\ m.size # 0
<1>1. Len(sent) + 1 \in 1..MaxMsgs
  BY Numbers DEF Shape, CanBegin
<1>2. ASSUME NEW c \in Csids, NEW ts \in Timestamps, NEW type \in MediaTypes, NEW len \in Lens
      PROVE  LET m == Media(c, ts, type, len) IN
             /\ m \in Messages /\ m.n = Len(sent) + 1 /\ m.len \in Stamps /\ m.type # "size"
             /\ m.len = len
  <2>1. c \in AllCsids /\ ts \in Stamps /\ type \in Types /\ len \in Nat /\ len \in Stamps
    BY Numbers DEF Types, MediaTypes
  <2>2. type # "size"
    BY DEF MediaTypes
  <2>3. QED
    BY <1>1, <2>1, <2>2 DEF Media, Messages
<1>3. ASSUME NEW size \in Nat \ {0}
      PROVE  LET m == SetChunkSize(size) IN
             /\ m \in Messages /\ m.n = Len(sent) + 1 /\ m.len \in Stamps
             /\ m.type = "size" /\ m.len = 1 /\ m.size = size /\ m.size # 0
  BY <1>1, Numbers DEF SetChunkSize, Messages, Types
<1>4. QED
  BY <1>2, <1>3

\* A step that writes at most one message, and delivers none.
Writing == received' = received /\ (written' = written \/ \E m \in Messages : written' = Append(written, m))

LEMMA PeerBeginsKeeps ==
  ASSUME Inv, NEW m \in Messages, PeerBegins(m),
         m.n = Len(sent) + 1, m.len \in Stamps, m.type = "size" => m.len = 1 /\ m.size # 0
  PROVE  Inv' /\ Writing
<1> DEFINE c == m.csid
           p == last[c]
           msg == stream[c].msg
<1>1. /\ Shape /\ CanBegin /\ CanWrite /\ sender = "peer" /\ PeerInv
      /\ wire = <<>> /\ sent' = Append(sent, m)
  BY DEF Inv, PeerBegins, CanBegin, CanWrite
<1>2. c \in AllCsids /\ m.len \in Nat /\ m.ts \in Stamps
  BY DEF Messages
<1>3. PICK fmt \in Formats(m) :
        PeerWrites(m, fmt, IF fmt = 0 THEN m.ts ELSE m.ts - last[m.csid].ts, Body(m))
  BY DEF PeerBegins
<1>4. PICK time : time = IF fmt = 0 THEN m.ts ELSE m.ts - last[m.csid].ts
  OBVIOUS
<1>5. /\ fmt \in 0..3
      /\ fmt # 0 => p # None /\ m.ts >= p.ts
      /\ fmt > 1 => m.len = p.len /\ m.type = p.type
      /\ fmt > 2 => m.ts - p.ts = p.delta
  BY <1>2 DEF Formats
<1>6. p # None => p \in LastHeaders /\ p.rest = <<>>
  <2>1. p \in LastHeaders \cup {None}
    BY <1>1, <1>2 DEF Shape
  <2>2. p # None => p.rest = <<>>
    BY DEF PeerBegins, Partial
  <2>3. QED
    BY <2>1, <2>2
<1>7. p # None => Holds(stream[c], sent[p.n], p.delta) /\ Known(c, p, sent[p.n])
  BY <1>1, <1>2 DEF PeerInv, PeerStream, OnWire, InHand
<1>8. msg = <<>>
  BY <1>1, <1>2, <1>6 DEF PeerInv, PeerStream, OnWire, InHand
<1>9. time \in Stamps
  <2>1. CASE fmt = 0
    BY <2>1, <1>2, <1>4
  <2>2. CASE fmt # 0
    <3>1. p.ts \in Stamps /\ m.ts >= p.ts /\ time = m.ts - p.ts
      BY <2>2, <1>4, <1>5, <1>6 DEF LastHeaders
    <3>2. QED
      BY <3>1, <1>2, Numbers DEF Stamps
  <2>3. QED
    BY <2>1, <2>2
<1>10. fmt > 1 => stream[c].len = m.len /\ stream[c].type = m.type
  BY <1>5, <1>7 DEF Holds, Known
<1>11. fmt > 2 => stream[c].timestamp = time
  BY <1>4, <1>5, <1>7 DEF Holds
<1>12. msg = Part(m, 0, 0) /\ Part(m, 0, m.len) = Body(m)
  BY <1>2, <1>8, NoPart, WholePart, 0 \in Nat
<1>13. PeerWrites(m, fmt, time, Part(m, 0, m.len))
  BY <1>3, <1>4, <1>12
<1>14. /\ SentIs(sent') /\ m.n \in 1..Len(sent') /\ sent'[m.n] = m
       /\ \A n \in 1..Len(sent) : n \in 1..Len(sent') /\ sent'[n] = sent[n]
  BY <1>1, SentGrows
<1>15. QED
  BY <1>1, <1>2, <1>5, <1>9, <1>10, <1>11, <1>12, <1>13, <1>14, PeerWritesKeeps, 0 \in Nat, 0 <= m.len
     DEF Writing

LEMMA PeerContinuesKeeps ==
  ASSUME Inv, NEW c \in AllCsids, PeerContinues(c)
  PROVE  Inv' /\ Writing
<1>1. /\ Shape /\ CanWrite /\ sender = "peer" /\ PeerInv /\ wire = <<>> /\ sent' = sent
      /\ last[c] # None /\ last[c].rest # <<>>
  BY DEF Inv, PeerContinues, CanWrite, Partial
<1>2. PICK p, m : p = last[c] /\ m = sent[p.n]
  OBVIOUS
<1>3. Known(c, p, m) /\ InHand(c, p, m)
  BY <1>1, <1>2 DEF PeerInv, PeerStream, OnWire
<1>4. /\ p \in LastHeaders /\ m \in Messages /\ m.n = p.n /\ m.csid = c
      /\ p.n \in 1..Len(sent) /\ SentIs(sent)
  BY <1>1, <1>2, <1>3 DEF Shape, Known, SentIs
<1>5. p.len \in Nat /\ p.rest \in Seq(Units) /\ p.delta \in Stamps /\ m.len = p.len
  BY <1>3, <1>4 DEF LastHeaders, Known
<1>6. PICK i \in Nat : i = Done(p)
  BY <1>3, <1>5 DEF Known, Done
<1>7. i <= m.len
  BY <1>3, <1>5, <1>6 DEF Known, Done
<1>8. /\ p.rest = Part(m, i, m.len) /\ stream[c].msg = Part(m, 0, i)
      /\ m.type # "size" /\ (~resized => m.len > chunkSize)
  BY <1>1, <1>2, <1>3, <1>5, <1>6 DEF Known, InHand
<1>9. stream[c].len = m.len /\ stream[c].type = m.type /\ stream[c].timestamp = p.delta
  BY <1>3 DEF InHand, Holds
<1>10. PeerWrites(m, 3, p.delta, Part(m, i, m.len))
  BY <1>2, <1>8 DEF PeerContinues
<1>11. 3 \in 0..3
  OBVIOUS
<1>12. /\ SentIs(sent') /\ m.n \in 1..Len(sent') /\ sent'[m.n] = m
       /\ \A n \in 1..Len(sent) : n \in 1..Len(sent') /\ sent'[n] = sent[n]
  BY <1>1, <1>2, <1>4
<1>13. QED
  BY <1>1, <1>4, <1>5, <1>7, <1>8, <1>9, <1>10, <1>11, <1>12, PeerWritesKeeps DEF Writing

-----------------------------------------------------------------------------
(* The composer reads what a peer wrote.                                   *)

\* A step that delivers the next message or none, and writes none.
Delivering ==
  /\ written' = written
  /\ \/ received' = received
     \/ /\ Len(received) < Len(written)
        /\ \E r \in Arrivals : /\ received' = Append(received, r)
                               /\ Unstamped(r) = Content(written[Len(received) + 1])

LEMMA DeliveringKeepsPrefix ==
  ASSUME Shape, Prefix, Delivering
  PROVE  Prefix' /\ received' \in Seq(Arrivals)
<1>1. received \in Seq(Arrivals) /\ Len(received) \in Nat /\ Len(written) \in Nat
  BY DEF Shape
<1>2. CASE received' = received
  BY <1>1, <1>2 DEF Prefix, Delivering
<1>3. CASE received' # received
  <2>1. PICK r \in Arrivals : /\ received' = Append(received, r)
                              /\ Unstamped(r) = Content(written[Len(received) + 1])
    BY <1>3 DEF Delivering
  <2>2. Len(received) < Len(written) /\ written' = written
    BY <1>3 DEF Delivering
  <2>3. /\ received' \in Seq(Arrivals) /\ Len(received') = Len(received) + 1
        /\ \A i \in 1..Len(received) : received'[i] = received[i]
        /\ received'[Len(received) + 1] = r
    BY <1>1, <2>1
  <2>4. ASSUME NEW i \in 1..Len(received') PROVE Unstamped(received'[i]) = Content(written[i])
    <3>1. CASE i = Len(received) + 1
      BY <3>1, <2>1, <2>3
    <3>2. CASE i # Len(received) + 1
      <4>1. i \in 1..Len(received)
        BY <3>2, <2>3, <1>1
      <4>2. QED
        BY <4>1, <2>3 DEF Prefix
    <3>3. QED
      BY <3>1, <3>2
  <2>5. QED
    BY <2>2, <2>3, <2>4, <1>1 DEF Prefix
<1>4. QED
  BY <1>2, <1>3

LEMMA TakingDelivers ==
  ASSUME Shape, NEW m \in Messages, NEW time, NEW j, Takes(m, time, j), UNCHANGED readUnchanged,
         j = m.len => Underway(m)
  PROVE  Delivering
<1>1. written' = written /\ Len(received) \in Nat
  BY DEF readUnchanged, Shape
<1>2. CASE j = m.len
  BY <1>1, <1>2 DEF Takes, Delivering, Underway
<1>3. CASE j # m.len
  BY <1>1, <1>3 DEF Takes, Delivering
<1>4. QED
  BY <1>2, <1>3

LEMMA TakingKeepsShape ==
  ASSUME Shape, Prefix, NEW m \in Messages, NEW time, NEW j \in Nat, j <= m.len,
         Takes(m, time, j), UNCHANGED readUnchanged, Delivering, wire # <<>>,
         m.type = "size" => m.size # 0
  PROVE  Shape'
<1>1. \A c \in AllCsids : Len(stream'[c].msg) <= stream'[c].len
  <2> SUFFICES ASSUME NEW c \in AllCsids PROVE Len(stream'[c].msg) <= stream'[c].len
    OBVIOUS
  <2>1. CASE c = m.csid
    <3>1. stream'[c].len = m.len /\ m.len \in Nat
      BY <2>1 DEF Takes, Holds, Messages
    <3>2. Len(Part(m, 0, j)) = j - 0
      BY <3>1, PartIs, 0 \in Nat, 0 <= j
    <3>3. QED
      BY <2>1, <3>1, <3>2 DEF Takes
  <2>2. CASE c # m.csid
    BY <2>2 DEF Takes, Shape
  <2>3. QED
    BY <2>1, <2>2
<1>2. peerChunkSize' \in Nat \ {0}
  BY DEF Takes, Shape, Messages
<1>3. wire' \in Seq(Chunks)
  BY DEF Takes, Shape
<1>4. received' \in Seq(Arrivals)
  BY DeliveringKeepsPrefix
<1>5. QED
  BY <1>1, <1>2, <1>3, <1>4 DEF Takes, Shape, readUnchanged

LEMMA SlippingKeeps ==
  ASSUME Inv, Slips, UNCHANGED readUnchanged,
         resized \/ (sender = "divider" /\ \E i \in 1..Len(sent) : sent[i].ts = MaxTs)
  PROVE  Inv' /\ Delivering
BY DEF Inv, Slips, readUnchanged, Shape, Prefix, LossExplained, Delivering

LEMMA PeerReadKeeps ==
  ASSUME Inv, sender = "peer", ReadChunk
  PROVE  Inv' /\ Delivering
<1> DEFINE here == Head(wire).header.csid
<1>1. /\ Shape /\ Prefix /\ wire # <<>> /\ ~lost /\ here \in AllCsids /\ PeerInv
      /\ UNCHANGED readUnchanged
  BY ReadsOnce DEF Inv
<1>2. PICK c, p, m : c = here /\ p = last[here] /\ m = sent[p.n]
  OBVIOUS
<1>3. c \in AllCsids /\ p # None /\ Known(c, p, m) /\ Coming(c, p, m)
  BY <1>1, <1>2 DEF PeerInv, PeerStream, OnWire
<1>4. /\ p \in LastHeaders /\ m \in Messages /\ m.n = p.n /\ m.csid = c /\ m.n \in 1..Len(sent)
      /\ sent[m.n] = m /\ (m.type = "size" => m.size # 0)
  <2>1. p.n \in 1..Len(sent) /\ sent[p.n] = m /\ m.csid = c
    BY <1>3 DEF Known
  <2>2. p \in LastHeaders
    BY <1>1, <1>2, <1>3 DEF Shape
  <2>3. m \in Messages /\ m.n = p.n /\ (m.type = "size" => m.size # 0)
    BY <1>1, <2>1 DEF Shape
  <2>4. QED
    BY <2>1, <2>2, <2>3
<1>5. /\ p.len \in Nat /\ p.rest \in Seq(Units) /\ p.delta \in Stamps
      /\ m.len = p.len /\ m.type = p.type
  BY <1>3, <1>4 DEF LastHeaders, Known
<1>6. PICK j \in Nat : j = Done(p)
  BY <1>3, <1>5 DEF Known, Done
<1>7. j <= m.len /\ (j = m.len <=> p.rest = <<>>)
  <2>1. Len(p.rest) \in Nat /\ (Len(p.rest) = 0 <=> p.rest = <<>>)
    BY <1>5
  <2>2. QED
    BY <2>1, <1>3, <1>5, <1>6 DEF Known, Done
<1>8. /\ Reads(stream[m.csid], Head(wire).header, p.delta, m)
      /\ stream[m.csid].msg \o Head(wire).body = Part(m, 0, j)
      /\ ~resized => neededSize(readHeader(stream[m.csid], Head(wire).header)) = Len(Head(wire).body)
  BY <1>3, <1>4, <1>6 DEF Coming
<1>9. Head(wire).header.csid = m.csid
  BY <1>2, <1>4
<1>10. IF neededSize(readHeader(stream[m.csid], Head(wire).header)) = Len(Head(wire).body)
       THEN Takes(m, p.delta, j) ELSE Slips
  BY <1>1, <1>4, <1>5, <1>7, <1>8, <1>9, ReadsOn
<1>11. CASE neededSize(readHeader(stream[m.csid], Head(wire).header)) # Len(Head(wire).body)
  BY <1>1, <1>8, <1>10, <1>11, SlippingKeeps
<1>12. CASE Takes(m, p.delta, j)
  <2>1. /\ Len(wire) = 1
        /\ chunkSize = IF p.type = "size" THEN m.size ELSE peerChunkSize
        /\ IF p.rest = <<>> THEN Underway(m) ELSE AllRead
    BY <1>1, <1>2 DEF PeerInv, PeerWire
  <2>2. Delivering
    BY <1>1, <1>4, <1>7, <1>12, <2>1, TakingDelivers
  <2>3. Prefix'
    BY <1>1, <2>2, DeliveringKeepsPrefix
  <2>4. Shape'
    BY <1>1, <1>4, <1>7, <1>12, <2>2, TakingKeepsShape
  <2>5. wire' = <<>>
    <3>1. wire \in Seq(Chunks) /\ wire' = Tail(wire)
      BY <1>1, <1>12 DEF Takes, Shape
    <3>2. Tail(wire) \in Seq(Chunks) /\ Len(Tail(wire)) = 0
      BY <3>1, <2>1, <1>1, HeadTailProperties
    <3>3. QED
      BY <3>1, <3>2, EmptySeq
  <2>6. chunkSize' = peerChunkSize'
    <3>1. p.type = "size" => j = m.len
      BY <1>3, <1>7 DEF Known
    <3>2. chunkSize' = chunkSize
      BY <1>1 DEF readUnchanged
    <3>3. QED
      BY <3>1, <3>2, <1>5, <1>12, <2>1 DEF Takes
  <2>7. AllRead'
    <3>1. written' = written /\ Len(received) \in Nat /\ received \in Seq(Arrivals)
      BY <1>1 DEF readUnchanged, Shape
    <3>2. CASE j = m.len
      <4>1. PICK r \in Arrivals : received' = Append(received, r)
        BY <1>12, <3>2 DEF Takes
      <4>2. Len(received') = Len(received) + 1
        BY <3>1, <4>1
      <4>3. QED
        BY <1>7, <2>1, <3>1, <3>2, <4>2 DEF AllRead, Underway
    <3>3. CASE j # m.len
      BY <1>7, <1>12, <2>1, <3>1, <3>3 DEF Takes, AllRead
    <3>4. QED
      BY <3>2, <3>3
  <2>8. ASSUME NEW d \in AllCsids PROVE PeerStream(d)'
    <3>1. ~OnWire(d)'
      BY <2>5 DEF OnWire
    <3>2. last' = last /\ sent' = sent /\ resized' = resized /\ chunkSize' = chunkSize
      BY <1>1 DEF readUnchanged
    <3>3. CASE d = c
      <4>1. Known(c, p, m)'
        BY <1>3, <3>2 DEF Known, Done
      <4>2. InHand(c, p, m)'
        BY <1>4, <1>6, <1>7, <1>12 DEF InHand, Takes, Holds, Done
      <4>3. last'[c] = p /\ sent'[p.n] = m
        BY <1>2, <3>2
      <4>4. QED
        BY <1>3, <3>1, <3>3, <4>1, <4>2, <4>3 DEF PeerStream
    <3>4. CASE d # c
      <4>1. stream'[d] = stream[d] /\ ~OnWire(d) /\ PeerStream(d)
        BY <1>1, <1>2, <1>4, <1>12, <3>4 DEF Takes, OnWire, PeerInv
      <4>2. CASE last[d] = None
        BY <3>1, <3>2, <4>1, <4>2 DEF PeerStream
      <4>3. CASE last[d] # None
        <5>1. PICK q, w : q = last[d] /\ w = sent[q.n]
          OBVIOUS
        <5>2. Known(d, q, w) /\ InHand(d, q, w)
          BY <4>1, <4>3, <5>1 DEF PeerStream
        <5>3. Known(d, q, w)' /\ InHand(d, q, w)'
          BY <3>2, <4>1, <5>2 DEF Known, InHand, Holds, Done
        <5>4. QED
          BY <3>1, <3>2, <4>3, <5>1, <5>3 DEF PeerStream
      <4>4. QED
        BY <4>2, <4>3
    <3>5. QED
      BY <3>3, <3>4
  <2>9. sender' = "peer" /\ lost' = FALSE
    BY <1>1, <1>12 DEF Takes, readUnchanged
  <2>10. QED
    BY <2>2, <2>3, <2>4, <2>5, <2>6, <2>7, <2>8, <2>9 DEF Inv, PeerInv, PeerWire, LossExplained
<1>13. QED
  BY <1>10, <1>11, <1>12

-----------------------------------------------------------------------------
(* This code divides a message.                                            *)

\* It is the first one, which tells the chunk size, or one that does not.
LEMMA DividingKeeps ==
  ASSUME Inv, CanBegin, sender = "divider", NEW m \in Messages,
         m.n = Len(sent) + 1, m.len \in Stamps, m.type = "size" => m.len = 1 /\ m.size # 0,
         IF sent = <<>> THEN m.type = "size" /\ m.size = LocalChunkSize ELSE m.type # "size",
         WriteWhole(m, message2Chunks(m, LocalChunkSize)),
         UNCHANGED <<sender, chunkSize, last, interleaved, resized, longGap, readVars>>
  PROVE  Inv' /\ Writing
<1> DEFINE chunks == message2Chunks(m, LocalChunkSize)
           count == numOfChunk(m, LocalChunkSize)
<1>1. /\ Shape /\ Prefix /\ wire = <<>> /\ ~lost /\ DividerInv /\ LossExplained
      /\ LocalChunkSize \in Nat \ {0} /\ m.csid \in AllCsids /\ m.len \in Nat
  BY Numbers DEF Inv, CanBegin, CanWrite, Messages
<1>2. /\ chunks \in Seq(Chunks) /\ Len(chunks) = count /\ count \in Nat
      /\ count = 0 <=> m.len = 0
  BY <1>1, DividedInto, CountOfChunks
<1>3. chunks = <<>> <=> count = 0
  BY <1>2
<1> HIDE DEF chunks, count
<1>4. /\ sent' = Append(sent, m) /\ wire' = chunks
      /\ written' = IF chunks = <<>> THEN written ELSE Append(written, m)
      /\ UNCHANGED <<sender, chunkSize, last, interleaved, resized, longGap>>
      /\ UNCHANGED <<peerChunkSize, stream, absTsFlag, received, lost>>
  BY DEF WriteWhole, readVars, chunks
<1>5. /\ SentIs(sent') /\ Len(sent') = Len(sent) + 1 /\ Len(sent) \in Nat
      /\ sent'[Len(sent')] = m
      /\ \A n \in 1..Len(sent) : n \in 1..Len(sent') /\ sent'[n] = sent[n]
  BY <1>1, <1>4, SentGrows
<1>6. /\ written' \in Seq(Messages) /\ Writing
      /\ \A x \in 1..Len(written) : written'[x] = written[x]
      /\ IF chunks = <<>> THEN written' = written
         ELSE Len(written') = Len(written) + 1 /\ written'[Len(written')] = m
      /\ Len(written) \in Nat /\ Len(received) \in Nat /\ Len(written) = Len(received)
  BY <1>1, <1>4 DEF Shape, DividerInv, AllRead, Writing
<1>7. Prefix'
  BY <1>1, <1>4, <1>6 DEF Prefix
<1>8. Shape'
  BY <1>1, <1>2, <1>4, <1>5, <1>6 DEF Shape, SentIs
<1>9. sent' # <<>> /\ sent'[1].type = "size" /\ sent'[1].size = LocalChunkSize
  <2>1. CASE sent = <<>>
    BY <2>1, <1>4
  <2>2. CASE sent # <<>>
    <3>1. 1 \in 1..Len(sent)
      BY <2>2, <1>1 DEF Shape
    <3>2. QED
      BY <2>2, <3>1, <1>1, <1>4, <1>5 DEF DividerInv, Shape
  <2>3. QED
    BY <2>1, <2>2
<1>10. ASSUME NEW n \in 2..Len(sent') PROVE sent'[n].type # "size"
  <2>1. CASE n = Len(sent')
    <3>1. sent # <<>>
      BY <2>1, <1>5
    <3>2. QED
      BY <2>1, <3>1, <1>5
  <2>2. CASE n # Len(sent')
    <3>1. n \in 1..Len(sent) /\ n \in 2..Len(sent)
      BY <2>2, <1>5
    <3>2. QED
      BY <3>1, <1>1, <1>5 DEF DividerInv
  <2>3. QED
    BY <2>1, <2>2
<1>11. Len(sent') > 1 => peerChunkSize' = LocalChunkSize
  <2>1. Len(sent') > 1 => sent # <<>>
    BY <1>5
  <2>2. QED
    BY <2>1, <1>1, <1>4 DEF DividerInv
<1>12. chunks = <<>> => peerChunkSize' = LocalChunkSize
  BY <1>1, <1>2, <1>3, <1>4 DEF DividerInv
<1>13. ASSUME chunks # <<>> PROVE Dividing(m, 0)'
  <2>1. 0 \in 0 .. count - 1 /\ 0 * LocalChunkSize = 0
    BY <1>1, <1>2, <1>3, <1>13
  <2>2. wire' = SubSeq(chunks, 0 + 1, count)
    BY <1>2, <1>4, SubSeqFull
  <2>3. Underway(m)'
    BY <1>4, <1>6, <1>13 DEF Underway
  <2>4. stream'[m.csid].msg = Part(m, 0, 0)
    BY <1>1, <1>4, NoPart, 0 \in Nat, 0 <= m.len DEF DividerInv
  <2>5. \A c \in AllCsids \ {m.csid} : stream'[c].msg = <<>>
    BY <1>1, <1>4 DEF DividerInv
  <2>6. QED
    BY <2>1, <2>2, <2>3, <2>4, <2>5 DEF Dividing, Underway, chunks, count
<1>14. DividerInv'
  <2>1. CASE chunks = <<>>
    BY <2>1, <1>1, <1>4, <1>6, <1>9, <1>10, <1>12 DEF DividerInv, AllRead
  <2>2. CASE chunks # <<>>
    <3>1. \E k \in Nat : Dividing(sent[Len(sent)], k)'
      BY <2>2, <1>5, <1>13, 0 \in Nat DEF Dividing, Underway, Holds
    <3>2. QED
      BY <2>2, <3>1, <1>4, <1>9, <1>10, <1>11 DEF DividerInv
  <2>3. QED
    BY <2>1, <2>2
<1>15. QED
  BY <1>1, <1>4, <1>6, <1>7, <1>8, <1>14 DEF Inv, LossExplained

LEMMA DividerReadKeeps ==
  ASSUME Inv, sender = "divider", ReadChunk
  PROVE  Inv' /\ Delivering
<1>1. /\ Shape /\ Prefix /\ wire # <<>> /\ ~lost /\ DividerInv /\ LossExplained
      /\ UNCHANGED readUnchanged
      /\ LocalChunkSize \in Nat \ {0} /\ peerChunkSize \in Nat \ {0}
  BY ReadsOnce, Numbers DEF Inv, Shape
<1>2. PICK k \in Nat : Dividing(sent[Len(sent)], k)
  BY <1>1 DEF DividerInv
<1>3. Len(sent) \in Nat /\ Len(sent) >= 1
  BY <1>1 DEF DividerInv, Shape
<1>4. PICK m : m = sent[Len(sent)]
  OBVIOUS
<1>5. /\ m \in Messages /\ m.n = Len(sent) /\ m.n \in 1..Len(sent) /\ sent[m.n] = m
      /\ m.len \in Stamps /\ m.len \in Nat /\ m.ts \in Stamps /\ m.csid \in AllCsids
      /\ m.type = "size" => m.len = 1 /\ m.size # 0
  <2>1. Len(sent) \in 1..Len(sent)
    BY <1>3
  <2>2. m \in Messages /\ m.n = Len(sent) /\ m.len \in Stamps
        /\ (m.type = "size" => m.len = 1 /\ m.size # 0)
    BY <1>1, <1>4, <2>1 DEF Shape
  <2>3. m.len \in Nat /\ m.ts \in Stamps /\ m.csid \in AllCsids
    BY <2>2 DEF Messages
  <2>4. QED
    BY <1>4, <2>1, <2>2, <2>3
<1> DEFINE size == LocalChunkSize
           chunks == message2Chunks(m, size)
           count == numOfChunk(m, size)
           from == k * size
           j == Smaller(from + size, m.len)
           prev == IF k = 0 THEN None ELSE m
<1>6. /\ k \in 0 .. count - 1 /\ wire = SubSeq(chunks, k + 1, count) /\ Underway(m)
      /\ stream[m.csid].msg = Part(m, 0, from)
      /\ \A c \in AllCsids \ {m.csid} : stream[c].msg = <<>>
      /\ k > 0 => Holds(stream[m.csid], m, m.ts) /\ m.ts # MaxTs
  BY <1>2, <1>4 DEF Dividing
<1>7. /\ count \in Nat /\ from \in Nat /\ from < m.len /\ (k + 1) * size = from + size
      /\ from + size >= m.len <=> k + 1 = count
  BY <1>1, <1>5, <1>6, CountOfChunks
<1>8. /\ chunks \in Seq(Chunks) /\ Len(chunks) = count
      /\ chunks[k + 1].header = calcHeader(m, prev)
      /\ chunks[k + 1].body = Part(m, from, j)
  BY <1>1, <1>5, <1>6, DividedInto
<1>9. /\ j \in Nat /\ from <= j /\ j <= m.len /\ (j = m.len <=> k + 1 = count)
      /\ j # m.len => j = (k + 1) * size
  <2> HIDE DEF from, count
  <2>1. from + size \in Nat
    BY <1>1, <1>7
  <2>2. QED
    BY <2>1, <1>1, <1>5, <1>7 DEF Smaller
<1> HIDE DEF chunks, count, from, j, size
<1>10. k + 1 \in 1..Len(chunks) /\ count \in (k + 1)..Len(chunks)
  BY <1>6, <1>7, <1>8
<1>11. Head(wire) = chunks[k + 1] /\ Tail(wire) = SubSeq(chunks, (k + 1) + 1, count)
  BY <1>6, <1>8, <1>10, HeadTailOfSubSeq
<1>12. Head(wire).header = calcHeader(m, prev) /\ Head(wire).body = Part(m, from, j)
  BY <1>8, <1>11
<1>13. prev \in {None, m} /\ (prev = m <=> k > 0)
  <2>1. m # None
    BY <1>5, NotNone
  <2>2. QED
    BY <2>1
<1>14. /\ calcHeader(m, prev) \in Headers /\ calcHeader(m, prev).csid = m.csid
       /\ calcHeader(m, prev).fmt = IF prev = None THEN 0 ELSE 3
       /\ calcHeader(m, prev).fmt = 0 =>
            calcHeader(m, prev).field = Smaller(m.ts, MaxTs) /\ calcHeader(m, prev).len = m.len
       /\ calcHeader(m, prev).ext = IF m.ts > MaxTs THEN <<m.ts>> ELSE <<>>
  BY <1>5, <1>13, DividerHeaders
<1>15. stream[m.csid] \in Streams
  BY <1>1, <1>5 DEF Shape
<1> HIDE DEF prev
<1>16. CASE m.ts = MaxTs
  <2> DEFINE h == calcHeader(m, prev)
             s == readHeader(stream[m.csid], h)
  <2>1. k = 0 /\ prev = None
    BY <1>6, <1>16 DEF prev
  <2>2. MaxTs \in Nat /\ ~(MaxTs > MaxTs) /\ Smaller(MaxTs, MaxTs) = MaxTs
    BY Numbers DEF Smaller
  <2>3. h \in Headers /\ h.fmt = 0 /\ h.field = MaxTs /\ h.ext = <<>>
    BY <1>14, <1>16, <2>1, <2>2
  <2> HIDE DEF h
  <2>4. s.timestamp = MaxTs
    BY <1>15, <2>3, HeaderRead
  <2>5. ExtExpected(s)
    BY <2>2, <2>4 DEF ExtExpected
  <2>6. ~(ExtExpected(s) <=> h.ext # <<>>)
    BY <2>3, <2>5
  <2>7. Slips
    BY <1>1, <1>12, <1>14, <2>6, ReadsOnce DEF h
  <2>8. \E i \in 1..Len(sent) : sent[i].ts = MaxTs
    BY <1>5, <1>16
  <2>9. QED
    BY <1>1, <2>7, <2>8, SlippingKeeps
<1>17. CASE m.ts # MaxTs
  <2> DEFINE h == calcHeader(m, prev)
             s == readHeader(stream[m.csid], h)
             body == Part(m, from, j)
  <2>1. Reads(stream[m.csid], h, m.ts, m)
    BY <1>5, <1>6, <1>13, <1>15, <1>17, DividerReads
  <2>2. stream[m.csid].msg \o body = Part(m, 0, j)
    <3>1. 0 \in Nat /\ from \in Nat /\ j \in Nat /\ 0 <= from /\ from <= j /\ j <= m.len
      BY <1>7, <1>9
    <3>2. Part(m, 0, from) \o Part(m, from, j) = Part(m, 0, j)
      BY <1>5, <3>1, PartsJoin
    <3>3. QED
      BY <1>6, <3>2
  <2>3. Len(body) = j - from /\ Len(stream[m.csid].msg) = from
    <3>1. Len(Part(m, from, j)) = j - from
      BY <1>5, <1>7, <1>9, PartIs
    <3>2. Len(Part(m, 0, from)) = from - 0
      <4>1. 0 \in Nat /\ 0 <= from /\ from <= m.len
        BY <1>5, <1>7
      <4>2. QED
        BY <1>5, <1>7, <4>1, PartIs
    <3>3. QED
      BY <1>6, <1>7, <3>1, <3>2
  <2> HIDE DEF h, body
  <2>4. s \in Streams /\ s.msg = stream[m.csid].msg /\ s.len = m.len
    <3>1. s \in Streams /\ s.msg = stream[m.csid].msg
      BY <1>14, <1>15, HeaderRead DEF h
    <3>2. readExt(s, h).len = s.len
      BY <1>14, <2>1, <3>1, ExtRead DEF h, Reads
    <3>3. QED
      BY <3>1, <3>2, <2>1 DEF Reads, Holds
  <2>5. neededSize(s) = Len(body)
    <3>1. CASE m.len <= peerChunkSize
      <4>1. j = m.len /\ from = 0
        <5>1. CASE m.type = "size"
          <6>1. m.len = 1 /\ from = 0
            BY <5>1, <1>5, <1>7
          <6>2. QED
            BY <6>1, <1>1 DEF j, Smaller, size
        <5>2. CASE m.type # "size"
          <6>1. Len(sent) > 1
            BY <5>2, <1>1, <1>3, <1>4 DEF DividerInv
          <6>2. peerChunkSize = size
            BY <6>1, <1>1 DEF DividerInv, size
          <6>3. k = 0
            <7>1. CASE k >= 1
              <8>1. 1 * size <= k * size
                BY <7>1, <1>1, ProductsGrow DEF size
              <8>2. QED
                BY <8>1, <6>2, <3>1, <1>1, <1>5, <1>7 DEF from, size
            <7>2. QED
              BY <7>1
          <6>4. from = 0
            BY <6>3, <1>1 DEF from, size
          <6>5. QED
            BY <6>2, <6>4, <3>1, <1>1, <1>5 DEF j, Smaller, size
        <5>3. QED
          BY <5>1, <5>2
      <4>2. QED
        BY <3>1, <4>1, <2>3, <2>4, <1>5 DEF neededSize
    <3>2. CASE ~(m.len <= peerChunkSize)
      <4>1. m.type # "size"
        BY <3>2, <1>1, <1>5
      <4>2. Len(sent) > 1
        BY <4>1, <1>1, <1>3, <1>4 DEF DividerInv
      <4>3. peerChunkSize = size
        BY <4>2, <1>1 DEF DividerInv, size
      <4>4. m.len - from \in Stamps
        BY <1>5, <1>7, Numbers DEF Stamps
      <4>5. (m.len - from) % TsMod = m.len - from
        BY <4>4, SmallMod
      <4>6. neededSize(s) = Smaller(m.len - from, size)
        BY <3>2, <4>3, <4>5, <2>3, <2>4 DEF neededSize
      <4>7. Smaller(m.len - from, size) = j - from
        BY <1>1, <1>5, <1>7 DEF j, Smaller, size
      <4>8. QED
        BY <4>6, <4>7, <2>3
    <3>3. QED
      BY <3>1, <3>2
  <2>6. Takes(m, m.ts, j)
    <3>1. Head(wire).header = h /\ Head(wire).body = body /\ h.csid = m.csid
      BY <1>12, <1>14 DEF h, body
    <3>2. QED
      BY <3>1, <1>1, <1>5, <1>9, <2>1, <2>2, <2>5, ReadsOn
  <2>7. Delivering
    BY <1>1, <1>5, <1>6, <2>6, TakingDelivers
  <2>8. Prefix'
    BY <1>1, <2>7, DeliveringKeepsPrefix
  <2>9. Shape'
    BY <1>1, <1>5, <1>9, <2>6, <2>7, TakingKeepsShape
  <2>10. /\ sender' = sender /\ sent' = sent /\ written' = written /\ wire' = Tail(wire)
         /\ lost' = FALSE /\ resized' = resized
         /\ \A c \in AllCsids \ {m.csid} : stream'[c] = stream[c]
    BY <1>1, <2>6 DEF Takes, readUnchanged
  <2>11. DividerInv'
    <3>1. CASE j = m.len
      <4>1. wire' = <<>>
        <5>1. k + 1 = count
          BY <3>1, <1>9
        <5>2. SubSeq(chunks, (k + 1) + 1, count) = <<>>
          BY <5>1, <1>7, SubSeqEmpty
        <5>3. QED
          BY <5>2, <1>11, <2>10
      <4>2. AllRead'
        <5>1. PICK r \in Arrivals : received' = Append(received, r)
          BY <2>6, <3>1 DEF Takes
        <5>2. Len(received') = Len(received) + 1
          BY <5>1, <1>1 DEF Shape
        <5>3. QED
          BY <5>2, <1>6, <2>10 DEF AllRead, Underway
      <4>3. \A c \in AllCsids : stream'[c].msg = <<>>
        BY <1>6, <2>6, <2>10, <3>1 DEF Takes
      <4>4. peerChunkSize' = LocalChunkSize
        <5>1. CASE m.type = "size"
          <6>1. ~(Len(sent) \in 2..Len(sent))
            BY <5>1, <1>1, <1>4 DEF DividerInv
          <6>2. Len(sent) = 1 /\ sent # <<>>
            <7>1. \A n \in Nat : n >= 1 /\ ~(n \in 2..n) => n = 1
              OBVIOUS
            <7>2. Len(sent) = 1
              BY <6>1, <7>1, <1>3
            <7>3. Len(<<>>) = 0
              OBVIOUS
            <7>4. QED
              BY <7>2, <7>3
          <6>3. m.size = LocalChunkSize
            BY <6>2, <1>1, <1>4 DEF DividerInv
          <6>4. QED
            BY <5>1, <6>3, <2>6, <3>1 DEF Takes
        <5>2. CASE m.type # "size"
          <6>1. Len(sent) # 1
            BY <5>2, <1>1, <1>3, <1>4 DEF DividerInv
          <6>2. Len(sent) > 1
            <7>1. \A n \in Nat : n >= 1 /\ n # 1 => n > 1
              OBVIOUS
            <7>2. QED
              BY <6>1, <7>1, <1>3
          <6>3. QED
            BY <5>2, <6>2, <1>1, <2>6 DEF Takes, DividerInv
        <5>3. QED
          BY <5>1, <5>2
      <4>5. QED
        BY <4>1, <4>2, <4>3, <4>4, <1>1, <2>10 DEF DividerInv
    <3>2. CASE j # m.len
      <4>1. k + 1 \in 0 .. count - 1
        BY <3>2, <1>6, <1>7, <1>9
      <4>2. wire' = SubSeq(chunks, (k + 1) + 1, count)
        BY <1>11, <2>10
      <4>3. received' = received /\ peerChunkSize' = peerChunkSize
            /\ stream'[m.csid].msg = Part(m, 0, (k + 1) * size)
            /\ Holds(stream'[m.csid], m, m.ts)
        BY <3>2, <1>9, <2>6 DEF Takes
      <4>4. Underway(m)'
        BY <4>3, <1>6, <2>10 DEF Underway
      <4>5. Dividing(m, k + 1)'
        BY <4>1, <4>2, <4>3, <4>4, <1>6, <1>17, <2>10 DEF Dividing, Underway, Holds, chunks, count, size
      <4>6. wire' # <<>>
        <5>1. (k + 1) + 1 \in Int /\ count \in Int /\ (k + 1) + 1 <= count
          BY <4>1, <1>7
        <5>2. \A x \in (k + 1) + 1 .. count : chunks[x] \in Chunks
          BY <1>8, <1>7, <1>6, ElementOfSeq
        <5>3. Len(SubSeq(chunks, (k + 1) + 1, count)) = count - ((k + 1) + 1) + 1
          <6> DEFINE a == (k + 1) + 1
          <6>1. a \in Int /\ count \in Int /\ a <= count /\ \A x \in a .. count : chunks[x] \in Chunks
            BY <5>1, <5>2
          <6> HIDE DEF a
          <6>2. Len(SubSeq(chunks, a, count)) = IF a <= count THEN count - a + 1 ELSE 0
            BY <6>1, SubSeqProperties
          <6>3. QED
            BY <6>1, <6>2 DEF a
        <5>4. Len(wire') >= 1
          BY <5>1, <5>3, <4>2
        <5>5. QED
          BY <5>4, EmptySeq
      <4>7. \E n \in Nat : Dividing(sent[Len(sent)], n)'
        <5>1. k + 1 \in Nat /\ sent'[Len(sent')] = m
          BY <1>4, <2>10
        <5>2. Dividing(sent[Len(sent)], k + 1)'
          BY <4>5, <5>1 DEF Dividing, Underway, Holds
        <5>3. QED
          BY <5>1, <5>2
      <4>8. QED
        BY <4>3, <4>6, <4>7, <1>1, <2>10 DEF DividerInv
    <3>3. QED
      BY <3>1, <3>2
  <2>12. sender' = "divider"
    BY <2>10
  <2>13. QED
    BY <2>7, <2>8, <2>9, <2>10, <2>11, <2>12 DEF Inv, LossExplained
<1>18. QED
  BY <1>16, <1>17

-----------------------------------------------------------------------------
(* Every step.                                                             *)

LEMMA InitHolds == Init => Inv
<1> SUFFICES ASSUME Init PROVE Inv
  OBVIOUS
<1>1. /\ wire = <<>> /\ sent = <<>> /\ written = <<>> /\ received = <<>>
      /\ sender \in {"divider", "peer"} /\ ~lost
      /\ chunkSize = (IF sender = "divider" THEN LocalChunkSize ELSE defaultChunkSize)
      /\ peerChunkSize = defaultChunkSize
      /\ last = [c \in AllCsids |-> None]
      /\ stream = [c \in AllCsids |->
           [timestamp |-> 0, abs |-> 0, len |-> 0, type |-> "none", msg |-> <<>>]]
  BY DEF Init
<1>2. [timestamp |-> 0, abs |-> 0, len |-> 0, type |-> "none", msg |-> <<>>] \in Streams
  BY Numbers DEF Streams
<1>3. stream \in [AllCsids -> Streams] /\ \A c \in AllCsids : stream[c].msg = <<>> /\ stream[c].len = 0
  BY <1>1, <1>2
<1>4. last \in [AllCsids -> LastHeaders \cup {None}] /\ \A c \in AllCsids : last[c] = None
  BY <1>1
<1>5. Shape
  <2>1. /\ wire \in Seq(Chunks) /\ sent \in Seq(Messages) /\ written \in Seq(Messages)
        /\ received \in Seq(Arrivals) /\ Len(sent) = 0 /\ 0 <= MaxMsgs
    BY <1>1, Numbers
  <2>2. chunkSize \in Nat \ {0} /\ peerChunkSize \in Nat \ {0}
    BY <1>1, Numbers
  <2>3. \A c \in AllCsids : Len(stream[c].msg) <= stream[c].len
    BY <1>3
  <2>4. \A n \in 1..Len(sent) :
          /\ sent[n].n = n /\ sent[n].len \in Stamps
          /\ sent[n].type = "size" => sent[n].len = 1 /\ sent[n].size # 0
    BY <2>1
  <2>5. /\ absTsFlag \in BOOLEAN /\ lost \in BOOLEAN
        /\ interleaved \in BOOLEAN /\ resized \in BOOLEAN /\ longGap \in BOOLEAN
    BY DEF Init
  <2>6. Len(sent) <= MaxMsgs
    BY <2>1
  <2>7. QED
    BY <2>1, <2>2, <2>3, <2>4, <2>5, <2>6, <1>1, <1>3, <1>4 DEF Shape
<1>6. Prefix
  BY <1>1 DEF Prefix
<1>7. sender = "peer" => PeerInv
  BY <1>1, <1>3, <1>4 DEF PeerInv, PeerWire, PeerStream, OnWire, AllRead
<1>8. sender = "divider" => DividerInv
  BY <1>1, <1>3 DEF DividerInv, AllRead
<1>9. QED
  BY <1>1, <1>5, <1>6, <1>7, <1>8 DEF Inv, LossExplained

LEMMA StutterHolds == Inv /\ UNCHANGED vars => Inv'
<1> SUFFICES ASSUME Inv, UNCHANGED vars PROVE Inv'
  OBVIOUS
<1>1. /\ wire' = wire /\ sender' = sender /\ sent' = sent /\ chunkSize' = chunkSize /\ last' = last
      /\ written' = written /\ interleaved' = interleaved /\ resized' = resized /\ longGap' = longGap
      /\ peerChunkSize' = peerChunkSize /\ stream' = stream /\ absTsFlag' = absTsFlag
      /\ received' = received /\ lost' = lost
  BY DEF vars, sendVars, readVars
<1>2. Shape' = Shape /\ Prefix' = Prefix /\ LossExplained' = LossExplained
  BY <1>1 DEF Shape, Prefix, LossExplained
<1>3. PeerInv' = PeerInv
  BY <1>1 DEF PeerInv, PeerWire, PeerStream, OnWire, Known, InHand, Coming, Holds, neededSize,
              AllRead, Underway, Done
<1>4. DividerInv' = DividerInv
  BY <1>1 DEF DividerInv, Dividing, AllRead, Underway, Holds
<1>5. QED
  BY <1>1, <1>2, <1>3, <1>4 DEF Inv

\* What any step does: it keeps the invariant, and writes a message, or delivers one, or neither.
LEMMA StepHolds ==
  ASSUME Inv, [Next]_vars
  PROVE  Inv' /\ (Writing \/ Delivering)
<1>1. Shape
  BY DEF Inv
<1>2. CASE WriteChunkSize
  <2>1. CanBegin /\ sender = "divider" /\ sent = <<>>
    BY <1>2 DEF WriteChunkSize
  <2>2. PICK m : m = SetChunkSize(LocalChunkSize)
    OBVIOUS
  <2>3. /\ m \in Messages /\ m.n = Len(sent) + 1 /\ m.len \in Stamps
        /\ m.type = "size" /\ m.len = 1 /\ m.size = LocalChunkSize /\ m.size # 0
    BY <1>1, <2>1, <2>2, NewMessages, Numbers
  <2>4. /\ WriteWhole(m, message2Chunks(m, LocalChunkSize))
        /\ UNCHANGED <<sender, chunkSize, last, interleaved, resized, longGap, readVars>>
    BY <1>2, <2>2 DEF WriteChunkSize
  <2>5. QED
    BY <2>1, <2>3, <2>4, DividingKeeps
<1>3. ASSUME NEW c \in Csids, NEW ts \in Timestamps, NEW type \in MediaTypes, NEW len \in Lens,
             Divide(Media(c, ts, type, len))
      PROVE  Inv' /\ (Writing \/ Delivering)
  <2>1. CanBegin /\ sender = "divider" /\ sent # <<>>
    BY <1>3 DEF Divide
  <2>2. PICK m : m = Media(c, ts, type, len)
    OBVIOUS
  <2>3. m \in Messages /\ m.n = Len(sent) + 1 /\ m.len \in Stamps /\ m.type # "size"
    BY <1>1, <2>1, <2>2, NewMessages
  <2>4. /\ WriteWhole(m, message2Chunks(m, LocalChunkSize))
        /\ UNCHANGED <<sender, chunkSize, last, interleaved, resized, longGap, readVars>>
    BY <1>3, <2>2 DEF Divide
  <2>5. QED
    BY <2>1, <2>3, <2>4, DividingKeeps
<1>4. ASSUME NEW c \in Csids, NEW ts \in Timestamps, NEW type \in MediaTypes, NEW len \in Lens,
             PeerBegins(Media(c, ts, type, len))
      PROVE  Inv' /\ (Writing \/ Delivering)
  <2>1. CanBegin
    BY <1>4 DEF PeerBegins
  <2>2. PICK m : m = Media(c, ts, type, len)
    OBVIOUS
  <2>3. m \in Messages /\ m.n = Len(sent) + 1 /\ m.len \in Stamps /\ m.type # "size" /\ PeerBegins(m)
    BY <1>1, <1>4, <2>1, <2>2, NewMessages
  <2>4. QED
    BY <2>3, PeerBeginsKeeps
<1>5. ASSUME NEW size \in PeerSizes, PeerBegins(SetChunkSize(size))
      PROVE  Inv' /\ (Writing \/ Delivering)
  <2>1. CanBegin /\ size \in Nat \ {0}
    BY <1>5, Numbers DEF PeerBegins
  <2>2. PICK m : m = SetChunkSize(size)
    OBVIOUS
  <2>3. /\ m \in Messages /\ m.n = Len(sent) + 1 /\ m.len \in Stamps
        /\ m.len = 1 /\ m.size # 0 /\ PeerBegins(m)
    BY <1>1, <1>5, <2>1, <2>2, NewMessages
  <2>4. QED
    BY <2>3, PeerBeginsKeeps
<1>6. ASSUME NEW c \in AllCsids, PeerContinues(c) PROVE Inv' /\ (Writing \/ Delivering)
  BY <1>6, PeerContinuesKeeps
<1>7. CASE ReadChunk
  BY <1>1, <1>7, PeerReadKeeps, DividerReadKeeps DEF Shape
<1>8. CASE UNCHANGED vars
  <2>1. Inv'
    BY <1>8, StutterHolds
  <2>2. Writing
    BY <1>8 DEF vars, sendVars, readVars, Writing
  <2>3. QED
    BY <2>1, <2>2
<1>9. QED
  BY <1>2, <1>3, <1>4, <1>5, <1>6, <1>7, <1>8 DEF Next

\* The composer reads the chunk that is there, for any sizes and any number of chunk
\* streams: RunLoop loses its place only after a chunk size that changed within a message
\* of a peer, or at a timestamp of exactly MaxTs of this code's own.
THEOREM ReadsWhatIsThere == Spec => []InSync
<1>1. Inv /\ [Next]_vars => Inv'
  BY StepHolds
<1>2. Inv => InSync
  BY DEF Inv, Shape, LossExplained, InSync
<1>3. QED
  BY InitHolds, <1>1, <1>2, PTL DEF Spec

-----------------------------------------------------------------------------
(* The refinement.                                                         *)

Contents == [csid : AllCsids, type : Types \cup {"none"}, msg : Seq(Units)]
Wrote == [i \in DOMAIN written |-> Content(written[i])]
Got == [i \in DOMAIN received |-> Unstamped(received[i])]

ContentsKept ==
  /\ Wrote \in Seq(Contents) /\ Len(Wrote) = Len(written) /\ Len(written) \in Nat
  /\ \A i \in 1..Len(written) : Wrote[i] = Content(written[i])
  /\ Got \in Seq(Contents) /\ Len(Got) = Len(received) /\ Len(received) \in Nat
  /\ \A i \in 1..Len(received) : Got[i] = Unstamped(received[i])

LEMMA ContentsAre == Shape => ContentsKept
<1> SUFFICES ASSUME Shape PROVE ContentsKept
  OBVIOUS
<1>1. /\ written \in Seq(Messages) /\ Len(written) \in Nat /\ DOMAIN written = 1..Len(written)
      /\ received \in Seq(Arrivals) /\ Len(received) \in Nat /\ DOMAIN received = 1..Len(received)
  BY DEF Shape
<1>2. \A i \in 1..Len(written) : Content(written[i]) \in Contents
  <2> SUFFICES ASSUME NEW i \in 1..Len(written) PROVE Content(written[i]) \in Contents
    OBVIOUS
  <2>1. PICK m \in Messages : m = written[i]
    BY <1>1
  <2>2. Body(m) \in Seq(Units) /\ m.csid \in AllCsids /\ m.type \in Types
    BY BodyIs DEF Messages
  <2>3. QED
    BY <2>1, <2>2 DEF Content, Contents
<1>3. \A i \in 1..Len(received) : Unstamped(received[i]) \in Contents
  <2> SUFFICES ASSUME NEW i \in 1..Len(received) PROVE Unstamped(received[i]) \in Contents
    OBVIOUS
  <2>1. received[i] \in Arrivals
    BY <1>1
  <2>2. QED
    BY <2>1 DEF Arrivals, Unstamped, Contents
<1>4. QED
  BY <1>1, <1>2, <1>3 DEF ContentsKept, Wrote, Got

LEMMA ContentsAreNext == Shape' => ContentsKept'
BY ContentsAre, PTL

LEMMA WritingMaps ==
  ASSUME Shape, Shape', Writing
  PROVE  Channel!Write \/ UNCHANGED <<Wrote, Got>>
<1>1. Got' = Got
  BY DEF Writing, Got
<1>2. CASE written' = written
  BY <1>1, <1>2 DEF Wrote
<1>3. CASE written' # written
  <2>1. PICK m \in Messages : written' = Append(written, m)
    BY <1>3 DEF Writing
  <2>2. Len(written') = Len(written) + 1 /\ \A i \in 1..Len(written) : written'[i] = written[i]
    BY <2>1 DEF Shape
  <2> DEFINE old == Wrote
             new == Wrote'
  <2>3. /\ old \in Seq(Contents) /\ Len(old) = Len(written) /\ Len(written) \in Nat
        /\ \A i \in 1..Len(written) : old[i] = Content(written[i])
    BY ContentsAre DEF ContentsKept
  <2>4. /\ new \in Seq(Contents) /\ Len(new) = Len(written')
        /\ \A i \in 1..Len(written') : new[i] = Content(written'[i])
    BY ContentsAreNext DEF ContentsKept
  <2> HIDE DEF old, new
  <2>5. Len(new) = Len(old) + 1 /\ \A i \in 1..Len(old) : new[i] = old[i]
    BY <2>2, <2>3, <2>4
  <2>6. SubSeq(new, 1, Len(old)) = old
    <3> DEFINE n == Len(old)
    <3>1. n \in Nat /\ n <= Len(new) /\ \A i \in 1..n : new[i] \in Contents
      BY <2>3, <2>4, <2>5
    <3> HIDE DEF n
    <3>2. /\ SubSeq(new, 1, n) \in Seq(Contents)
          /\ Len(SubSeq(new, 1, n)) = IF 1 <= n THEN n - 1 + 1 ELSE 0
          /\ \A i \in 1 .. n - 1 + 1 : SubSeq(new, 1, n)[i] = new[1 + i - 1]
      BY <3>1, SubSeqProperties, 1 \in Int, n \in Int
    <3>3. Len(SubSeq(new, 1, n)) = n /\ \A i \in 1..n : SubSeq(new, 1, n)[i] = new[i]
      BY <3>1, <3>2
    <3>4. QED
      BY <3>2, <3>3, <2>3, <2>5, SeqEqual DEF n
  <2>7. Channel!Write
    BY <1>1, <2>5, <2>6 DEF Channel!Write, old, new, Wrote, Got
  <2>8. QED
    BY <2>7
<1>4. QED
  BY <1>2, <1>3

LEMMA DeliveringMaps ==
  ASSUME Shape, Shape', Delivering
  PROVE  Channel!Deliver \/ UNCHANGED <<Wrote, Got>>
<1>1. Wrote' = Wrote
  BY DEF Delivering, Wrote
<1>2. CASE received' = received
  BY <1>1, <1>2 DEF Got
<1>3. CASE received' # received
  <2>1. PICK r \in Arrivals : /\ received' = Append(received, r)
                              /\ Unstamped(r) = Content(written[Len(received) + 1])
    BY <1>3 DEF Delivering
  <2>2. Len(received) < Len(written)
    BY <1>3 DEF Delivering
  <2>3. /\ Len(received') = Len(received) + 1 /\ received'[Len(received) + 1] = r
        /\ \A i \in 1..Len(received) : received'[i] = received[i]
    BY <2>1 DEF Shape
  <2> DEFINE old == Got
             new == Got'
             next == Wrote[Len(old) + 1]
  <2>4. /\ old \in Seq(Contents) /\ Len(old) = Len(received) /\ Len(received) \in Nat
        /\ \A i \in 1..Len(received) : old[i] = Unstamped(received[i])
        /\ Wrote \in Seq(Contents) /\ Len(Wrote) = Len(written) /\ Len(written) \in Nat
        /\ \A i \in 1..Len(written) : Wrote[i] = Content(written[i])
    BY ContentsAre DEF ContentsKept
  <2>5. /\ new \in Seq(Contents) /\ Len(new) = Len(received')
        /\ \A i \in 1..Len(received') : new[i] = Unstamped(received'[i])
    BY ContentsAreNext DEF ContentsKept
  <2>6. next = Unstamped(r) /\ next \in Contents
    BY <2>1, <2>2, <2>4, ElementOfSeq
  <2> HIDE DEF old, new, next
  <2>7. Append(old, next) \in Seq(Contents) /\ Len(Append(old, next)) = Len(old) + 1
        /\ \A i \in 1 .. Len(old) : Append(old, next)[i] = old[i]
        /\ Append(old, next)[Len(old) + 1] = next
    BY <2>4, <2>6
  <2>8. Len(new) = Len(old) + 1
    BY <2>3, <2>4, <2>5
  <2>9. ASSUME NEW i \in 1..Len(new) PROVE new[i] = Append(old, next)[i]
    <3>1. CASE i = Len(old) + 1
      BY <3>1, <2>3, <2>4, <2>5, <2>6, <2>7, <2>8
    <3>2. CASE i # Len(old) + 1
      <4>1. i \in 1..Len(old)
        BY <3>2, <2>4, <2>8
      <4>2. QED
        BY <4>1, <2>3, <2>4, <2>5, <2>7, <2>8
    <3>3. QED
      BY <3>1, <3>2
  <2>10. new = Append(old, next)
    BY <2>5, <2>7, <2>8, <2>9, SeqEqual
  <2>11. Channel!Deliver
    BY <1>1, <2>2, <2>4, <2>10 DEF Channel!Deliver, old, new, next, Wrote, Got
  <2>12. QED
    BY <2>11
<1>4. QED
  BY <1>2, <1>3

\* For any chunk streams, chunk sizes, formats and interleaving, of this code's sender or
\* a peer: OnCompleteMessage is given each message once, whole and with its type, in the
\* order in which their last chunks were written.
THEOREM ImplementsMessageChannel == Spec => ImplementsChannel
<1>1. Init => Channel!Init
  BY DEF Init, Channel!Init
<1>2. Inv /\ Inv' /\ [Next]_vars => [Channel!Next]_<<Wrote, Got>>
  <2> SUFFICES ASSUME Inv, Inv', [Next]_vars PROVE [Channel!Next]_<<Wrote, Got>>
    OBVIOUS
  <2>1. Shape /\ Shape' /\ (Writing \/ Delivering)
    BY StepHolds DEF Inv
  <2>2. QED
    BY <2>1, WritingMaps, DeliveringMaps DEF Channel!Next
<1>3. Inv /\ [Next]_vars => Inv'
  BY StepHolds
<1>4. QED
  BY InitHolds, <1>1, <1>2, <1>3, PTL DEF Spec, ImplementsChannel, Channel!Spec, Wrote, Got
=============================================================================
