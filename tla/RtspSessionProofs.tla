------------------------- MODULE RtspSessionProofs -------------------------
(***************************************************************************)
(* Proofs about RtspSession, for every set of connections, every choice of *)
(* transports and every bound.                                             *)
(***************************************************************************)
EXTENDS RtspSession, SequenceTheorems, TLAPS

----------------------------------------------------------------------------
(* Sequences of messages.                                                  *)

\* Of a sequence, at most one message is in T.
Lone(q, T) == \A i, j \in DOMAIN q : q[i] \in T /\ q[j] \in T => i = j

LEMMA TailSaid ==
  ASSUME NEW S, NEW q \in Seq(S), q # <<>>, NEW T
  PROVE  /\ Tail(q) \in Seq(S) /\ Head(q) \in ToSet(q) /\ ToSet(Tail(q)) \subseteq ToSet(q)
         /\ Lone(q, T) => Lone(Tail(q), T) /\ (Head(q) \in T => ToSet(Tail(q)) \cap T = {})
<1>1. /\ Len(q) \in Nat \ {0} /\ DOMAIN q = 1 .. Len(q)
      /\ Head(q) = q[1] /\ Tail(q) \in Seq(S) /\ Len(Tail(q)) = Len(q) - 1
      /\ \A i \in 1 .. Len(Tail(q)) : Tail(q)[i] = q[i + 1]
  BY LenProperties, EmptySeq, HeadTailProperties
<1>2. DOMAIN Tail(q) = 1 .. Len(q) - 1
  BY <1>1, LenProperties
<1>3. \A i \in DOMAIN Tail(q) : i + 1 \in DOMAIN q /\ i \in Nat \ {0} /\ Tail(q)[i] = q[i + 1]
  BY <1>1, <1>2
<1>4. Head(q) \in ToSet(q) /\ ToSet(Tail(q)) \subseteq ToSet(q)
  BY <1>1, <1>3 DEF ToSet
<1>5. ASSUME Lone(q, T) PROVE Lone(Tail(q), T)
  <2> SUFFICES ASSUME NEW i \in DOMAIN Tail(q), NEW j \in DOMAIN Tail(q),
                      Tail(q)[i] \in T, Tail(q)[j] \in T
               PROVE  i = j
    BY DEF Lone
  <2>1. i + 1 = j + 1
    BY <1>3, <1>5 DEF Lone
  <2>2. QED
    BY <1>3, <2>1
<1>6. ASSUME Lone(q, T), Head(q) \in T, NEW i \in DOMAIN Tail(q), Tail(q)[i] \in T PROVE FALSE
  <2>1. 1 \in DOMAIN q
    BY <1>1
  <2>2. 1 = i + 1
    BY <1>1, <1>3, <1>6, <2>1 DEF Lone
  <2>3. QED
    BY <1>3, <1>6, <2>2
<1>7. QED
  BY <1>1, <1>4, <1>5, <1>6 DEF ToSet

LEMMA ConcatSaid ==
  ASSUME NEW S, NEW p \in Seq(S), NEW q \in Seq(S), NEW T
  PROVE  /\ p \o q \in Seq(S) /\ ToSet(p \o q) = ToSet(p) \cup ToSet(q)
         /\ Lone(p, T) /\ ToSet(q) \cap T = {} => Lone(p \o q, T)
         /\ Lone(q, T) /\ ToSet(p) \cap T = {} => Lone(p \o q, T)
<1> DEFINE r == p \o q
<1>1. /\ r \in Seq(S) /\ Len(p) \in Nat /\ Len(q) \in Nat /\ Len(r) = Len(p) + Len(q)
      /\ DOMAIN p = 1 .. Len(p) /\ DOMAIN q = 1 .. Len(q) /\ DOMAIN r = 1 .. Len(r)
      /\ \A i \in 1 .. Len(r) : r[i] = IF i <= Len(p) THEN p[i] ELSE q[i - Len(p)]
  BY ConcatProperties, LenProperties
<1> HIDE DEF r
<1>2. \A i \in DOMAIN r :
        \/ i \in DOMAIN p /\ r[i] = p[i]
        \/ i \notin DOMAIN p /\ i - Len(p) \in DOMAIN q /\ r[i] = q[i - Len(p)] /\ i \in Int
  BY <1>1
<1>3. (\A i \in DOMAIN p : i \in DOMAIN r /\ r[i] = p[i])
      /\ \A i \in DOMAIN q : i + Len(p) \in DOMAIN r /\ r[i + Len(p)] = q[i]
  BY <1>1
<1>4. ToSet(r) = ToSet(p) \cup ToSet(q)
  BY <1>2, <1>3 DEF ToSet
<1>5. ASSUME Lone(p, T), ToSet(q) \cap T = {} PROVE Lone(r, T)
  BY <1>2, <1>5 DEF ToSet, Lone
<1>6. ASSUME Lone(q, T), ToSet(p) \cap T = {},
             NEW i \in DOMAIN r, NEW j \in DOMAIN r, r[i] \in T, r[j] \in T
      PROVE  i = j
  <2>1. i \notin DOMAIN p /\ j \notin DOMAIN p
    BY <1>2, <1>6 DEF ToSet
  <2>2. i - Len(p) = j - Len(p)
    BY <1>2, <1>6, <2>1 DEF Lone
  <2>3. QED
    BY <1>1, <1>2, <2>1, <2>2
<1>7. QED
  BY <1>1, <1>4, <1>5, <1>6 DEF r, Lone

LEMMA AppendSaid ==
  ASSUME NEW S, NEW q \in Seq(S), NEW x \in S, NEW T
  PROVE  /\ Append(q, x) \in Seq(S) /\ ToSet(Append(q, x)) = ToSet(q) \cup {x}
         /\ Lone(q, T) /\ x \notin T => Lone(Append(q, x), T)
         /\ ToSet(q) \cap T = {} => Lone(Append(q, x), T)
<1>1. Append(q, x) = q \o <<x>>
  BY AppendIsConcat
<1>2. <<x>> \in Seq(S) /\ ToSet(<<x>>) = {x} /\ Lone(<<x>>, T)
  BY DEF ToSet, Lone
<1> DEFINE p == <<x>>
<1>3. p \in Seq(S) /\ ToSet(p) = {x} /\ Lone(p, T) /\ Append(q, x) = q \o p
  BY <1>1, <1>2
<1> HIDE DEF p
<1>4. QED
  BY <1>3, ConcatSaid

LEMMA NothingSaid ==
  ASSUME NEW S, NEW T
  PROVE  <<>> \in Seq(S) /\ ToSet(<<>>) = {} /\ Lone(<<>>, T)
BY DEF ToSet, Lone

----------------------------------------------------------------------------
(* The requests of a session.                                              *)

Steps == Len(Setups) + 3

\* The SETUPs before that of a medium, and the step of its own.
ChannelOf(of) == IF of = "audio" /\ "video" \in Media THEN 1 ELSE 0
At(of) == 2 + ChannelOf(of)

\* The channel of a line.
Chan(l) == 2 * ChannelOf(l[1]) + (IF l[2] = "rtp" THEN 0 ELSE 1)
Pair(of) == <<Chan(<<of, "rtp">>), Chan(<<of, "rtcp">>)>>

Plain(m) == Request(m, None, None)
Bad == Plain("bad")

LEMMA Between ==
  ASSUME NEW S, NEW a \in S, NEW b \in S, NEW e \in S, NEW q \in Seq(S)
  PROVE  LET r == <<a, b>> \o q \o <<e>>
         IN /\ Len(r) = Len(q) + 3
            /\ r[1] = a /\ r[2] = b /\ r[Len(q) + 3] = e
            /\ \A i \in 1 .. Len(q) : r[i + 2] = q[i]
<1> DEFINE p == <<a, b>>
           s == p \o q
           z == <<e>>
           r == s \o z
<1>1. p \in Seq(S) /\ z \in Seq(S) /\ Len(p) = 2 /\ Len(z) = 1
      /\ p[1] = a /\ p[2] = b /\ z[1] = e /\ Len(q) \in Nat
  BY LenProperties
<1> HIDE DEF p, z
<1>2. s \in Seq(S) /\ Len(s) = Len(p) + Len(q)
      /\ \A i \in 1 .. Len(p) + Len(q) : s[i] = IF i <= Len(p) THEN p[i] ELSE q[i - Len(p)]
  BY <1>1, ConcatProperties
<1> HIDE DEF s
<1>3. Len(r) = Len(s) + Len(z)
      /\ \A i \in 1 .. Len(s) + Len(z) : r[i] = IF i <= Len(s) THEN s[i] ELSE z[i - Len(s)]
  <2>1. s \in Seq(S) /\ z \in Seq(S)
    BY <1>1, <1>2
  <2>2. QED
    BY <2>1, ConcatProperties
<1> HIDE DEF r
<1>4. r[1] = a /\ r[2] = b /\ r[Len(q) + 3] = e /\ \A i \in 1 .. Len(q) : r[i + 2] = q[i]
  <2>1. Len(s) = Len(q) + 2 /\ Len(q) \in Nat
    BY <1>1, <1>2
  <2>2. s[1] = a /\ s[2] = b
    BY <1>1, <1>2
  <2>3. ASSUME NEW i \in 1 .. Len(q) PROVE r[i + 2] = q[i]
    <3>1. s[i + 2] = q[i]
      BY <1>1, <1>2, <2>1
    <3>2. QED
      BY <3>1, <1>1, <1>3, <2>1
  <2>4. r[1] = a /\ r[2] = b /\ r[Len(q) + 3] = e
    BY <1>1, <1>3, <2>1, <2>2
  <2>5. QED
    BY <2>3, <2>4
<1>5. QED
  BY <1>1, <1>2, <1>3, <1>4 DEF p, s, z, r

\* What scripts are made of.
Words == {"OPTIONS", "DESCRIBE", "ANNOUNCE", "video", "audio", "PLAY", "RECORD"}

LEMMA SetupsAre ==
  /\ Setups \in Seq(Words) /\ Len(Setups) \in {1, 2}
  /\ \A of \in Media : ChannelOf(of) \in 0 .. Len(Setups) - 1 /\ Setups[ChannelOf(of) + 1] = of
  /\ \A i \in 0 .. Len(Setups) - 1 : \E of \in Media : i = ChannelOf(of)
<1> DEFINE v == IF "video" \in Media THEN <<"video">> ELSE <<>>
           a == IF "audio" \in Media THEN <<"audio">> ELSE <<>>
<1>1. v \in Seq(Words) /\ a \in Seq(Words)
  <2>1. "video" \in Words /\ "audio" \in Words
    BY DEF Words
  <2>2. v \in {<<>>, <<"video">>} /\ a \in {<<>>, <<"audio">>}
    OBVIOUS
  <2>3. QED
    BY <2>1, <2>2
<1>2. /\ v \o a \in Seq(Words) /\ Len(v \o a) = Len(v) + Len(a)
      /\ \A i \in 1 .. Len(v) + Len(a) : (v \o a)[i] = IF i <= Len(v) THEN v[i] ELSE a[i - Len(v)]
  <2> HIDE DEF v, a
  <2>1. QED
    BY <1>1, ConcatProperties
<1>3. /\ "video" \in Media => Len(v) = 1 /\ v[1] = "video"
      /\ "audio" \in Media => Len(a) = 1 /\ a[1] = "audio"
      /\ "video" \notin Media => Len(v) = 0
      /\ "audio" \notin Media => Len(a) = 0
  OBVIOUS
<1>4. Setups = v \o a
  BY DEF Setups
<1> HIDE DEF v, a
<1>5. CASE Media = {"video", "audio"}
  <2>1. Len(Setups) = 2 /\ Setups[1] = "video" /\ Setups[2] = "audio"
    <3>1. Len(v) = 1 /\ Len(a) = 1 /\ v[1] = "video" /\ a[1] = "audio"
      BY <1>3, <1>5
    <3>2. QED
      BY <1>2, <1>4, <3>1
  <2>2. ChannelOf("video") = 0 /\ ChannelOf("audio") = 1
    BY <1>5 DEF ChannelOf
  <2>3. QED
    BY <1>2, <1>4, <1>5, <2>1, <2>2
<1>6. CASE Media = {"video"}
  <2>1. Len(Setups) = 1 /\ Setups[1] = "video" /\ ChannelOf("video") = 0
    BY <1>2, <1>3, <1>4, <1>6 DEF ChannelOf
  <2>2. QED
    BY <1>2, <1>4, <1>6, <2>1
<1>7. CASE Media = {"audio"}
  <2>1. Len(Setups) = 1 /\ Setups[1] = "audio" /\ ChannelOf("audio") = 0
    BY <1>2, <1>3, <1>4, <1>7 DEF ChannelOf
  <2>2. QED
    BY <1>2, <1>4, <1>7, <2>1
<1>8. QED
  BY <1>5, <1>6, <1>7, WireAssumption

LEMMA Scripts ==
  ASSUME NEW k
  PROVE  /\ Steps \in {4, 5} /\ Len(Script(k)) = Steps
         /\ Script(k)[1] = "OPTIONS"
         /\ Script(k)[2] = IF k = "pull" THEN "DESCRIBE" ELSE "ANNOUNCE"
         /\ Script(k)[Steps] = IF k = "pull" THEN "PLAY" ELSE "RECORD"
         /\ \A of \in Media : At(of) \in 2 .. Steps - 2 /\ Script(k)[At(of) + 1] = of
         /\ \A i \in 2 .. Steps - 2 : \E of \in Media : i = At(of)
<1> DEFINE d == IF k = "pull" THEN "DESCRIBE" ELSE "ANNOUNCE"
           e == IF k = "pull" THEN "PLAY" ELSE "RECORD"
           r == <<"OPTIONS", d>> \o Setups \o <<e>>
<1>1. "OPTIONS" \in Words /\ d \in Words /\ e \in Words
  BY DEF Words
<1>2. Script(k) = r
  BY DEF Script
<1>3. /\ Len(r) = Len(Setups) + 3
      /\ r[1] = "OPTIONS" /\ r[2] = d /\ r[Len(Setups) + 3] = e
      /\ \A i \in 1 .. Len(Setups) : r[i + 2] = Setups[i]
  <2> HIDE DEF d, e
  <2>1. QED
    BY <1>1, SetupsAre, Between
<1> HIDE DEF r
<1>4. \A of \in Media : r[At(of) + 1] = of /\ At(of) \in 2 .. Steps - 2
  <2> TAKE of \in Media
  <2>1. ChannelOf(of) + 1 \in 1 .. Len(Setups) /\ Setups[ChannelOf(of) + 1] = of
    BY SetupsAre
  <2>2. (ChannelOf(of) + 1) + 2 = At(of) + 1 /\ At(of) \in 2 .. Steps - 2
    BY <2>1, SetupsAre DEF At, Steps
  <2>3. QED
    BY <1>3, <2>1, <2>2
<1>5. \A i \in 2 .. Steps - 2 : \E of \in Media : i = At(of)
  <2> TAKE i \in 2 .. Steps - 2
  <2>1. i - 2 \in 0 .. Len(Setups) - 1
    BY SetupsAre DEF Steps
  <2>2. PICK of \in Media : i - 2 = ChannelOf(of)
    BY <2>1, SetupsAre
  <2>3. QED
    BY <2>2 DEF At
<1>6. Steps \in {4, 5}
  <2>1. CASE Len(Setups) = 1
    BY <2>1 DEF Steps
  <2>2. CASE Len(Setups) = 2
    BY <2>2 DEF Steps
  <2>3. QED
    BY <2>1, <2>2, SetupsAre
<1>7. QED
  BY <1>2, <1>3, <1>4, <1>5, <1>6 DEF Steps

LEMMA Ranges ==
  /\ \A of \in Media : At(of) \in {2, 3} /\ ChannelOf(of) \in {0, 1}
  /\ \A l \in Lines : l = <<l[1], l[2]>> /\ l[1] \in Media /\ l[2] \in {"rtp", "rtcp"}
                      /\ Chan(l) \in 0 .. 3
  /\ \A of \in Media : <<of, "rtp">> \in Lines /\ <<of, "rtcp">> \in Lines
  /\ \A of \in Media : Chan(<<of, "rtcp">>) \in {1, 3} /\ Chan(<<of, "rtp">>) \in {0, 2}
  /\ "OPTIONS" \notin Media /\ "DESCRIBE" \notin Media /\ "ANNOUNCE" \notin Media
  /\ "PLAY" \notin Media /\ "RECORD" \notin Media
  /\ \A of \in Media : of # None
<1>1. \A of \in Media : At(of) \in {2, 3} /\ ChannelOf(of) \in {0, 1}
  BY DEF At, ChannelOf
<1>2. \A l \in Lines : l = <<l[1], l[2]>> /\ l[1] \in Media /\ l[2] \in {"rtp", "rtcp"}
  BY DEF Lines
<1>3. \A l \in Lines : Chan(l) \in 0 .. 3
  BY <1>1, <1>2 DEF Chan
<1>4. \A of \in Media : Chan(<<of, "rtcp">>) \in {1, 3} /\ Chan(<<of, "rtp">>) \in {0, 2}
  BY <1>1 DEF Chan
<1>5. \A of \in Media : <<of, "rtp">> \in Lines /\ <<of, "rtcp">> \in Lines
  BY DEF Lines
<1>6. \A of \in Media : of # None
  BY WireAssumption
<1>7. QED
  BY <1>1, <1>2, <1>3, <1>4, <1>5, <1>6, WireAssumption

\* What a session asks at a step.
LEMMA Requests ==
  ASSUME NEW c \in Conns, step[c] \in 0 .. Steps - 1
  PROVE  /\ step[c] = 0 => RequestAt(c) = Plain("OPTIONS")
         /\ step[c] = 1 =>
              RequestAt(c) = Plain(IF kind[c] = "pull" THEN "DESCRIBE" ELSE "ANNOUNCE")
         /\ step[c] = Steps - 1 =>
              RequestAt(c) = Plain(IF kind[c] = "pull" THEN "PLAY" ELSE "RECORD")
         /\ \A of \in Media : step[c] = At(of) =>
              RequestAt(c) = Request("SETUP", of, IF c \in tcp THEN Pair(of) ELSE None)
         /\ \/ step[c] \in {0, 1, Steps - 1}
            \/ \E of \in Media : step[c] = At(of)
<1>1. step[c] + 1 \in 1 .. Steps /\ Steps \in {4, 5}
  BY Scripts
<1>2. step[c] = 0 => RequestAt(c) = Plain("OPTIONS")
  BY Scripts, Ranges DEF RequestAt, Plain
<1>3. step[c] = 1 => RequestAt(c) = Plain(IF kind[c] = "pull" THEN "DESCRIBE" ELSE "ANNOUNCE")
  BY Scripts, Ranges DEF RequestAt, Plain
<1>4. step[c] = Steps - 1 => RequestAt(c) = Plain(IF kind[c] = "pull" THEN "PLAY" ELSE "RECORD")
  <2> SUFFICES ASSUME step[c] = Steps - 1
               PROVE  RequestAt(c) = Plain(IF kind[c] = "pull" THEN "PLAY" ELSE "RECORD")
    OBVIOUS
  <2>1. step[c] + 1 = Steps
    BY <1>1
  <2>2. QED
    BY <2>1, Scripts, Ranges DEF RequestAt, Plain
<1>5. ASSUME NEW of \in Media, step[c] = At(of)
      PROVE  RequestAt(c) = Request("SETUP", of, IF c \in tcp THEN Pair(of) ELSE None)
  <2>1. Script(kind[c])[step[c] + 1] = of
    BY <1>5, Scripts
  <2>2. channel(step[c] - 2) = Pair(of)
    BY <1>5, Ranges DEF channel, Pair, At, Chan
  <2>3. QED
    BY <2>1, <2>2 DEF RequestAt
<1>6. step[c] \in {0, 1, Steps - 1} \/ step[c] \in 2 .. Steps - 2
  BY <1>1
<1>7. QED
  BY <1>2, <1>3, <1>4, <1>5, <1>6, Scripts

----------------------------------------------------------------------------
(* What is said on a connection.                                           *)

Asks ==
  {Plain(m) : m \in {"OPTIONS", "DESCRIBE", "ANNOUNCE", "PLAY", "RECORD", "bad"}}
  \cup UNION {{Request("SETUP", of, None), Request("SETUP", of, Pair(of))} : of \in Media}
Others == {Plain("TEARDOWN"), Plain("GET_PARAMETER")}
Packets == {Interleaved(Chan(l), l) : l \in Lines}
Says == Asks \cup Others \cup Packets
Replies == {Response(x) : x \in {"200", "401", "refused"}}
Hears == Replies \cup Packets

LEMMA Messages ==
  /\ \A m \in Asks \cup Others : m.is = "request"
  /\ \A m \in Packets : m.is = "packet" /\ m.line \in Lines /\ m = Interleaved(Chan(m.line), m.line)
  /\ \A m \in Replies : m.is = "response"
  /\ \A m \in Others : m.method \in {"TEARDOWN", "GET_PARAMETER"}
  /\ \A m \in Asks : m.method \notin {"TEARDOWN", "GET_PARAMETER"}
<1>1. \A m \in Asks \cup Others : m.is = "request"
  BY DEF Asks, Others, Plain, Request
<1>2. \A m \in Packets : m.is = "packet" /\ m.line \in Lines /\ m = Interleaved(Chan(m.line), m.line)
  BY DEF Packets, Interleaved
<1>3. \A m \in Replies : m.is = "response"
  BY DEF Replies, Response
<1>4. /\ \A m \in Others : m.method \in {"TEARDOWN", "GET_PARAMETER"}
      /\ \A m \in Asks : m.method \notin {"TEARDOWN", "GET_PARAMETER"}
  BY DEF Asks, Others, Plain, Request
<1>5. QED
  BY <1>1, <1>2, <1>3, <1>4

LEMMA Apart ==
  /\ Asks \cap Others = {} /\ Asks \cap Packets = {} /\ Others \cap Packets = {}
  /\ Replies \cap Packets = {}
BY Messages

LEMMA PacketIs ==
  ASSUME NEW ch, NEW l
  PROVE  /\ Interleaved(ch, l) \in Packets => l \in Lines /\ ch = Chan(l)
         /\ l \in Lines => Interleaved(Chan(l), l) \in Packets
         /\ Interleaved(ch, l) \notin Asks \cup Others \cup Replies
<1>1. Interleaved(ch, l).is = "packet" /\ Interleaved(ch, l).ch = ch /\ Interleaved(ch, l).line = l
  BY DEF Interleaved
<1>2. l \in Lines => Interleaved(Chan(l), l) \in Packets
  BY DEF Packets
<1>3. ASSUME Interleaved(ch, l) \in Packets PROVE l \in Lines /\ ch = Chan(l)
  <2>1. PICK k \in Lines : Interleaved(ch, l) = Interleaved(Chan(k), k)
    BY <1>3 DEF Packets
  <2>2. Interleaved(Chan(k), k).line = k /\ Interleaved(Chan(k), k).ch = Chan(k)
    BY DEF Interleaved
  <2>3. QED
    BY <1>1, <2>1, <2>2
<1>4. QED
  BY <1>1, <1>2, <1>3, Messages

LEMMA ReplyIs ==
  ASSUME NEW x
  PROVE  /\ Response(x) \notin Packets
         /\ x \in {"200", "401", "refused"} => Response(x) \in Replies
<1>1. Response(x).is = "response"
  BY DEF Response
<1>2. QED
  BY <1>1, Messages DEF Replies

\* A request that is read, taken apart.
LEMMA AskIs ==
  ASSUME NEW m, NEW of, NEW ch, Request(m, of, ch) \in Says
  PROVE  /\ m \in {"OPTIONS", "DESCRIBE", "ANNOUNCE", "SETUP", "PLAY", "RECORD", "bad"} =>
              Request(m, of, ch) \in Asks
         /\ m \in {"TEARDOWN", "GET_PARAMETER"} => Request(m, of, ch) \in Others
         /\ m = "SETUP" => of \in Media /\ ch \in {None, Pair(of)}
<1>1. /\ Request(m, of, ch).is = "request" /\ Request(m, of, ch).method = m
      /\ Request(m, of, ch).of = of /\ Request(m, of, ch).chans = ch
  BY DEF Request
<1>2. Request(m, of, ch) \in Asks \cup Others
  BY <1>1, Messages DEF Says
<1>3. ASSUME m = "SETUP" PROVE of \in Media /\ ch \in {None, Pair(of)}
  <2>1. Request(m, of, ch) \in Asks
    BY <1>1, <1>2, <1>3, Messages
  <2>2. \A x : Plain(x).method = x
    BY DEF Plain, Request
  <2>3. PICK o \in Media : Request(m, of, ch) \in {Request("SETUP", o, None), Request("SETUP", o, Pair(o))}
    BY <1>1, <1>3, <2>1, <2>2 DEF Asks
  <2>4. \A p : Request("SETUP", o, p).of = o /\ Request("SETUP", o, p).chans = p
    BY DEF Request
  <2>5. QED
    BY <1>1, <2>3, <2>4
<1>4. QED
  BY <1>1, <1>2, <1>3, Messages

----------------------------------------------------------------------------
(* The invariant.                                                          *)

Typed ==
  /\ c2s \in [Conns -> Seq(Says)] /\ s2c \in [Conns -> Seq(Hears)]
  /\ clientUp \subseteq Conns /\ serverUp \subseteq Conns
  /\ sloop \in [Conns -> {"none", "read", "play", "ended", "done"}]
  /\ pubS \subseteq Conns /\ subS \subseteq Conns
  /\ inCh \in [Conns -> [Lines -> Int]] /\ outCh \in [Conns -> [Lines -> Int]]
  /\ ssock \in [Conns -> SUBSET Media]
  /\ pub \in Conns \cup {None} /\ subs \subseteq Conns
  /\ kind \in [Conns -> {None, "pull", "push"}] /\ tcp \subseteq Conns
  /\ step \in [Conns -> 0 .. Steps]
  /\ cch \in [Conns -> [Lines -> Int \cup {None}]]
  /\ cloop \in [OwnConns -> {"none", "dial", "write", "await", "done", "top", "reading", "ended"}]
  /\ called \in [OwnConns -> {"no", "waiting", "ok", "error", "timeout"}]
  /\ errc \in [OwnConns -> {None, "ok", "error"}]
  /\ csock \in [OwnConns -> SUBSET Media] /\ csetup \in [OwnConns -> SUBSET Media]
  /\ tries \in [OwnConns -> Nat]
  /\ far \subseteq OwnConns /\ tick \subseteq far /\ asked \subseteq PeerConns

\* A call of Do and its goroutine: what both know of the steps made and of the sockets.
Client(c) ==
  /\ called[c] = "no" => cloop[c] = "none"
  /\ cloop[c] = "none" => kind[c] = None /\ called[c] = "no"
  /\ cloop[c] # "none" => kind[c] # None
  /\ cloop[c] \in {"none", "dial"} =>
       /\ step[c] = 0 /\ csock[c] = {} /\ errc[c] = None
       /\ c \notin clientUp \cup serverUp /\ sloop[c] = "none" /\ c \notin far
  /\ cloop[c] \in {"write", "await"} =>
       /\ step[c] < Steps /\ errc[c] = None
       /\ csock[c] \subseteq
            csetup[c] \cup (IF OverUDP(RequestAt(c)) THEN {RequestAt(c).of} ELSE {})
  /\ cloop[c] \in {"done", "top", "reading"} => step[c] = Steps
  /\ cloop[c] \in {"top", "reading"} => errc[c] = None
  /\ cloop[c] = "done" => errc[c] = "ok" /\ csock[c] \subseteq csetup[c]
  /\ cloop[c] = "ended" => errc[c] # "ok"
  /\ called[c] = "ok" =>
       /\ cloop[c] \in {"top", "reading", "ended"} /\ step[c] = Steps
       /\ csock[c] \subseteq csetup[c]
       /\ c \notin clientUp => csock[c] = {}
  /\ called[c] = "waiting" /\ cloop[c] \in {"write", "await", "done"} => c \in clientUp

\* Connections that are not yet, and no longer, served.
Ends(c) ==
  /\ sloop[c] = "none" => c \notin pubS \cup subS \cup subs /\ pub # c /\ ssock[c] = {}
  /\ sloop[c] \in {"ended", "done"} => c \notin serverUp
  /\ c \in far => sloop[c] = "none"
  /\ kind[c] = None =>
       /\ step[c] = 0 /\ sloop[c] = "none"
       /\ c \notin clientUp \cup serverUp \cup asked

NoAsk(c) == ToSet(c2s[c]) \cap Asks = {}
NoReply(c) == ToSet(s2c[c]) \cap Replies = {}

\* The client has a request to write.
Idle(c) ==
  IF c \in OwnConns THEN cloop[c] \in {"none", "dial", "write"}
  ELSE c \notin asked /\ step[c] < Steps

\* One request or one answer is under way at a time, and it is that of the client's step.
Turn(c) ==
  /\ ToSet(c2s[c]) \cap Asks \subseteq {RequestAt(c), Bad}
  /\ ~NoAsk(c) => step[c] < Steps /\ NoReply(c)
  /\ Lone(c2s[c], Asks)
  /\ step[c] < Steps => Lone(s2c[c], Replies) /\ ToSet(c2s[c]) \subseteq Asks
  /\ Idle(c) => NoAsk(c) /\ NoReply(c) /\ sloop[c] # "play"
  /\ sloop[c] = "play" => step[c] = Steps - 1 /\ kind[c] = "pull" /\ NoAsk(c) /\ NoReply(c)

\* Sessions are of the client's kind, and the group knows of those served.
Roles(c) ==
  /\ c \in pubS => kind[c] = "push"
  /\ c \in subS => kind[c] = "pull"
  /\ pub = c => c \in pubS /\ sloop[c] # "done"
  /\ c \in subs => c \in subS /\ step[c] >= Steps - 1 /\ sloop[c] # "done"

\* What the server holds of a publisher after n answers.
Served(c, n) ==
  kind[c] = "push" /\ c \notin far =>
    /\ n >= 2 => c \in pubS /\ (c \in serverUp => pub = c)
    /\ \A l \in Lines : c \in tcp /\ n > At(l[1]) => inCh[c][l] = Chan(l)

Channels(c) ==
  /\ \A l \in Lines : cch[c][l] \in {None, Chan(l)}
  /\ \A l \in Lines : c \in tcp /\ step[c] > At(l[1]) => cch[c][l] = Chan(l)
  /\ \A of \in Media :
       outCh[c][<<of, "rtp">>] # -1 => c \in tcp /\ outCh[c][<<of, "rtp">>] = Chan(<<of, "rtp">>)
  /\ Served(c, step[c])
  /\ ~NoReply(c) => Served(c, step[c] + 1)
  /\ \A m \in ToSet(s2c[c]) \cap Packets : cch[c][m.line] = m.ch
  /\ ToSet(c2s[c]) \cap Packets # {} => c \in tcp \ far /\ kind[c] = "push"

ConnInv(c) == (c \in OwnConns => Client(c)) /\ Ends(c) /\ Turn(c) /\ Roles(c) /\ Channels(c)

Inv == Typed /\ \A c \in Conns : ConnInv(c)

LEMMA InvInit == Init => Inv
<1> SUFFICES ASSUME Init PROVE Inv
  OBVIOUS
<1>1. /\ c2s = [c \in Conns |-> <<>>] /\ s2c = [c \in Conns |-> <<>>]
      /\ clientUp = {} /\ serverUp = {}
      /\ sloop = [c \in Conns |-> "none"] /\ pubS = {} /\ subS = {}
      /\ inCh = [c \in Conns |-> NoInCh] /\ outCh = [c \in Conns |-> NoOutCh]
      /\ ssock = [c \in Conns |-> {}] /\ pub = None /\ subs = {}
      /\ kind = [c \in Conns |-> None] /\ tcp \in Transports
      /\ step = [c \in Conns |-> 0] /\ cch = [c \in Conns |-> [l \in Lines |-> None]]
      /\ cloop = [c \in OwnConns |-> "none"] /\ called = [c \in OwnConns |-> "no"]
      /\ errc = [c \in OwnConns |-> None]
      /\ csock = [c \in OwnConns |-> {}] /\ csetup = [c \in OwnConns |-> {}]
      /\ tries = [c \in OwnConns |-> 0]
      /\ far = {} /\ tick = {} /\ asked = {}
  BY DEF Init, WireInit, ServerInit, ClientInit
<1>2. \A c \in OwnConns : c \in Conns
  BY DEF Conns
<1>3. \A c \in Conns : c2s[c] = <<>> /\ s2c[c] = <<>>
  BY <1>1
<1>4. NoInCh \in [Lines -> Int] /\ NoOutCh \in [Lines -> Int]
  BY DEF NoInCh, NoOutCh
<1>5. Typed
  <2>1. 0 \in 0 .. Steps /\ 0 \in Nat
    BY Scripts
  <2>2. tcp \subseteq Conns
    BY <1>1, ClientAssumption
  <2>3. c2s \in [Conns -> Seq(Says)] /\ s2c \in [Conns -> Seq(Hears)]
    BY <1>1
  <2>4. QED
    BY <1>1, <1>4, <2>1, <2>2, <2>3 DEF Typed
<1>6. ASSUME NEW c \in Conns PROVE ConnInv(c)
  <2>1. ToSet(c2s[c]) = {} /\ ToSet(s2c[c]) = {} /\ Lone(c2s[c], Asks) /\ Lone(s2c[c], Replies)
    BY <1>3, <1>6, NothingSaid
  <2>2. c \in OwnConns => Client(c)
    BY <1>1, <1>6 DEF Client
  <2>3. pub # c
    BY <1>1, <1>6, WireAssumption
  <2>4. Ends(c) /\ Roles(c)
    BY <1>1, <1>6, <2>3 DEF Ends, Roles
  <2>5. Turn(c)
    BY <1>1, <1>6, <2>1 DEF Turn, NoAsk, NoReply
  <2>6. Served(c, step[c]) /\ NoReply(c)
    BY <1>1, <1>6, <2>1, WireAssumption DEF Served, NoReply
  <2>7. \A l \in Lines : cch[c][l] = None /\ step[c] = 0 /\ ~(0 > At(l[1]))
    <3>1. \A l \in Lines : At(l[1]) \in {2, 3}
      BY Ranges
    <3>2. \A l \in Lines : cch[c][l] = None /\ step[c] = 0
      BY <1>1, <1>6
    <3>3. QED
      BY <3>1, <3>2
  <2>8. \A of \in Media : outCh[c][<<of, "rtp">>] = -1
    BY <1>1, <1>6, Ranges DEF NoOutCh
  <2>9. Channels(c)
    BY <2>1, <2>6, <2>7, <2>8 DEF Channels
  <2>10. QED
    BY <2>2, <2>4, <2>5, <2>9 DEF ConnInv
<1>7. QED
  BY <1>5, <1>6 DEF Inv

----------------------------------------------------------------------------
(* Reading and writing.                                                    *)

\* Of what is under way to the server on c, some may be gone, and nothing is new.
Fewer(c) ==
  /\ c2s' \in [Conns -> Seq(Says)] /\ \A d \in Conns \ {c} : c2s'[d] = c2s[d]
  /\ ToSet(c2s'[c]) \subseteq ToSet(c2s[c])
  /\ Lone(c2s[c], Asks) => Lone(c2s'[c], Asks)

LEMMA FewerSame ==
  ASSUME Typed, NEW c \in Conns, c2s' = c2s
  PROVE  Fewer(c)
BY DEF Typed, Fewer

LEMMA FewerNone ==
  ASSUME Typed, NEW c \in Conns, c2s' = [c2s EXCEPT ![c] = <<>>]
  PROVE  Fewer(c) /\ ToSet(c2s'[c]) = {}
<1>1. c2s'[c] = <<>> /\ c2s' \in [Conns -> Seq(Says)] /\ \A d \in Conns \ {c} : c2s'[d] = c2s[d]
  BY DEF Typed
<1>2. QED
  BY <1>1, NothingSaid DEF Fewer

LEMMA FewerTail ==
  ASSUME Typed, NEW c \in Conns, c2s[c] # <<>>, c2s' = [c2s EXCEPT ![c] = Tail(@)]
  PROVE  /\ Fewer(c) /\ Head(c2s[c]) \in ToSet(c2s[c]) /\ Head(c2s[c]) \in Says
         /\ Lone(c2s[c], Asks) /\ Head(c2s[c]) \in Asks => ToSet(c2s'[c]) \cap Asks = {}
<1> DEFINE q == c2s[c]
<1>1. q \in Seq(Says) /\ q # <<>> /\ c2s' = [c2s EXCEPT ![c] = Tail(q)]
  BY DEF Typed
<1>2. /\ Tail(q) \in Seq(Says) /\ Head(q) \in ToSet(q) /\ ToSet(Tail(q)) \subseteq ToSet(q)
      /\ Lone(q, Asks) => Lone(Tail(q), Asks)
                          /\ (Head(q) \in Asks => ToSet(Tail(q)) \cap Asks = {})
  <2> HIDE DEF q
  <2>1. QED
    BY <1>1, TailSaid
<1>3. c2s'[c] = Tail(q) /\ c2s' \in [Conns -> Seq(Says)] /\ \A d \in Conns \ {c} : c2s'[d] = c2s[d]
  BY <1>1, <1>2 DEF Typed
<1>4. Head(q) \in Says
  <2> HIDE DEF q
  <2>1. QED
    BY <1>1, HeadTailProperties
<1>5. QED
  BY <1>2, <1>3, <1>4 DEF Fewer

LEMMA ServerTook ==
  ASSUME Typed, NEW c \in Conns, NEW m, ServerTakes(c, m)
  PROVE  /\ Fewer(c) /\ m \in ToSet(c2s[c]) /\ m \in Says
         /\ Lone(c2s[c], Asks) /\ m \in Asks => ToSet(c2s'[c]) \cap Asks = {}
BY FewerTail DEF ServerTakes

\* A client's write.
LEMMA ClientWrote ==
  ASSUME Typed, NEW c \in Conns, NEW ms \in Seq(Says), ClientWritesAll(c, ms)
  PROVE  /\ c2s' \in [Conns -> Seq(Says)] /\ \A d \in Conns \ {c} : c2s'[d] = c2s[d]
         /\ ToSet(c2s'[c]) \subseteq ToSet(c2s[c]) \cup ToSet(ms)
         /\ c \notin serverUp => c2s'[c] = c2s[c]
         /\ ToSet(ms) \cap Asks = {} /\ Lone(c2s[c], Asks) => Lone(c2s'[c], Asks)
         /\ ToSet(c2s[c]) \cap Asks = {} /\ Lone(ms, Asks) => Lone(c2s'[c], Asks)
<1> DEFINE q == c2s[c]
<1>1. q \in Seq(Says)
  BY DEF Typed
<1>2. /\ q \o ms \in Seq(Says) /\ ToSet(q \o ms) = ToSet(q) \cup ToSet(ms)
      /\ Lone(q, Asks) /\ ToSet(ms) \cap Asks = {} => Lone(q \o ms, Asks)
      /\ Lone(ms, Asks) /\ ToSet(q) \cap Asks = {} => Lone(q \o ms, Asks)
  <2> HIDE DEF q
  <2>1. QED
    BY <1>1, ConcatSaid
<1>3. \/ c \in serverUp /\ c2s' = [c2s EXCEPT ![c] = q \o ms]
      \/ c \notin serverUp /\ c2s' = c2s
  BY DEF ClientWritesAll
<1>4. CASE c \in serverUp /\ c2s' = [c2s EXCEPT ![c] = q \o ms]
  <2>1. c2s'[c] = q \o ms /\ c2s' \in [Conns -> Seq(Says)] /\ \A d \in Conns \ {c} : c2s'[d] = c2s[d]
    BY <1>2, <1>4 DEF Typed
  <2>2. QED
    BY <1>2, <1>4, <2>1
<1>5. CASE c \notin serverUp /\ c2s' = c2s
  <2>1. ToSet(q) \cap Asks = {} => Lone(q, Asks)
    BY DEF ToSet, Lone
  <2>2. QED
    BY <1>1, <1>5, <2>1 DEF Typed
<1>6. QED
  BY <1>3, <1>4, <1>5

\* One message.
LEMMA SaidOne ==
  ASSUME NEW S, NEW m \in S, NEW T
  PROVE  <<m>> \in Seq(S) /\ ToSet(<<m>>) = {m} /\ Lone(<<m>>, T)
BY DEF ToSet, Lone

LEMMA ClientAsked ==
  ASSUME Typed, NEW c \in Conns, NEW m \in Says, ClientWrites(c, m)
  PROVE  /\ c2s' \in [Conns -> Seq(Says)] /\ \A d \in Conns \ {c} : c2s'[d] = c2s[d]
         /\ ToSet(c2s'[c]) \subseteq ToSet(c2s[c]) \cup {m}
         /\ c \notin serverUp => c2s'[c] = c2s[c]
         /\ m \notin Asks /\ Lone(c2s[c], Asks) => Lone(c2s'[c], Asks)
         /\ ToSet(c2s[c]) \cap Asks = {} => Lone(c2s'[c], Asks)
<1> DEFINE ms == <<m>>
<1>1. ms \in Seq(Says) /\ ToSet(ms) = {m} /\ Lone(ms, Asks) /\ ClientWritesAll(c, ms)
  BY SaidOne DEF ClientWrites
<1> HIDE DEF ms
<1>2. QED
  BY <1>1, ClientWrote

\* What is under way to a client: its replies are the same, and packets are new only on
\* channels the client knows.
HeardKept(d) ==
  /\ ToSet(s2c'[d]) \cap Replies = ToSet(s2c[d]) \cap Replies
  /\ Lone(s2c[d], Replies) => Lone(s2c'[d], Replies)
  /\ \A m \in ToSet(s2c'[d]) \cap Packets : m \in ToSet(s2c[d]) \/ cch[d][m.line] = m.ch

LEMMA HeardSame == \A d \in Conns : s2c'[d] = s2c[d] => HeardKept(d)
BY DEF HeardKept

LEMMA ServerWrote ==
  ASSUME Typed, NEW c \in Conns, NEW m \in Hears, ServerWrites(c, m)
  PROVE  /\ s2c' \in [Conns -> Seq(Hears)] /\ \A d \in Conns \ {c} : s2c'[d] = s2c[d]
         /\ ToSet(s2c'[c]) \subseteq ToSet(s2c[c]) \cup {m}
         /\ ToSet(s2c[c]) \subseteq ToSet(s2c'[c])
         /\ m \notin Replies /\ Lone(s2c[c], Replies) => Lone(s2c'[c], Replies)
         /\ ToSet(s2c[c]) \cap Replies = {} => Lone(s2c'[c], Replies)
<1> DEFINE q == s2c[c]
<1>1. q \in Seq(Hears)
  BY DEF Typed
<1>2. /\ Append(q, m) \in Seq(Hears) /\ ToSet(Append(q, m)) = ToSet(q) \cup {m}
      /\ Lone(q, Replies) /\ m \notin Replies => Lone(Append(q, m), Replies)
      /\ ToSet(q) \cap Replies = {} => Lone(Append(q, m), Replies)
  <2> HIDE DEF q
  <2>1. QED
    BY <1>1, AppendSaid
<1>3. CASE s2c' = [s2c EXCEPT ![c] = Append(q, m)]
  <2>1. /\ s2c'[c] = Append(q, m) /\ s2c' \in [Conns -> Seq(Hears)]
        /\ \A d \in Conns \ {c} : s2c'[d] = s2c[d]
    BY <1>2, <1>3 DEF Typed
  <2>2. QED
    BY <1>2, <2>1
<1>4. CASE s2c' = s2c
  <2>1. ToSet(q) \cap Replies = {} => Lone(q, Replies)
    BY DEF ToSet, Lone
  <2>2. QED
    BY <1>1, <1>4, <2>1 DEF Typed
<1>5. QED
  BY <1>3, <1>4 DEF ServerWrites

LEMMA ClientTook ==
  ASSUME Typed, NEW c \in Conns, NEW m, ClientTakes(c, m)
  PROVE  /\ s2c' \in [Conns -> Seq(Hears)] /\ \A d \in Conns \ {c} : s2c'[d] = s2c[d]
         /\ ToSet(s2c'[c]) \subseteq ToSet(s2c[c]) /\ ToSet(s2c[c]) \subseteq ToSet(s2c'[c]) \cup {m}
         /\ m \in ToSet(s2c[c]) /\ m \in Hears
         /\ Lone(s2c[c], Replies) => Lone(s2c'[c], Replies)
                                     /\ (m \in Replies => ToSet(s2c'[c]) \cap Replies = {})
<1> DEFINE q == s2c[c]
<1>1. q \in Seq(Hears) /\ q # <<>> /\ Head(q) = m /\ s2c' = [s2c EXCEPT ![c] = Tail(q)]
  BY DEF Typed, ClientTakes
<1>2. /\ Tail(q) \in Seq(Hears) /\ Head(q) \in ToSet(q) /\ ToSet(Tail(q)) \subseteq ToSet(q)
      /\ Lone(q, Replies) => Lone(Tail(q), Replies)
                             /\ (Head(q) \in Replies => ToSet(Tail(q)) \cap Replies = {})
  <2> HIDE DEF q
  <2>1. QED
    BY <1>1, TailSaid
<1>3. Head(q) \in Hears /\ ToSet(q) \subseteq ToSet(Tail(q)) \cup {Head(q)}
  <2> HIDE DEF q
  <2>1. /\ Len(q) \in Nat \ {0} /\ DOMAIN q = 1 .. Len(q) /\ Head(q) = q[1] /\ Head(q) \in Hears
        /\ Tail(q) \in Seq(Hears) /\ Len(Tail(q)) = Len(q) - 1
        /\ \A i \in 1 .. Len(Tail(q)) : Tail(q)[i] = q[i + 1]
    BY <1>1, LenProperties, EmptySeq, HeadTailProperties
  <2>2. DOMAIN Tail(q) = 1 .. Len(q) - 1
    BY <2>1, LenProperties
  <2>3. \A i \in DOMAIN q : i = 1 \/ (i - 1 \in DOMAIN Tail(q) /\ Tail(q)[i - 1] = q[i])
    BY <2>1, <2>2
  <2>4. \A i \in DOMAIN q : q[i] \in ToSet(Tail(q)) \cup {Head(q)}
    BY <2>1, <2>3 DEF ToSet
  <2>5. QED
    BY <2>1, <2>4 DEF ToSet
<1>4. s2c'[c] = Tail(q) /\ s2c' \in [Conns -> Seq(Hears)] /\ \A d \in Conns \ {c} : s2c'[d] = s2c[d]
  BY <1>1, <1>2 DEF Typed
<1>5. QED
  BY <1>1, <1>2, <1>3, <1>4

\* A packet for a player goes where its client reads it.
LEMMA PlayerKnows ==
  ASSUME Inv, NEW d \in subs, NEW of \in Media, outCh[d][<<of, "rtp">>] # -1
  PROVE  /\ outCh[d][<<of, "rtp">>] = Chan(<<of, "rtp">>)
         /\ cch[d][<<of, "rtp">>] = Chan(<<of, "rtp">>)
<1>1. d \in Conns /\ ConnInv(d)
  BY DEF Inv, Typed
<1>2. d \in tcp /\ outCh[d][<<of, "rtp">>] = Chan(<<of, "rtp">>)
  BY <1>1 DEF ConnInv, Channels
<1>3. step[d] \in 0 .. Steps /\ step[d] >= Steps - 1
  BY <1>1 DEF ConnInv, Roles, Inv, Typed
<1>4. At(of) \in 2 .. Steps - 2 /\ Steps \in {4, 5}
  BY Scripts
<1>5. <<of, "rtp">> \in Lines /\ step[d] > At(<<of, "rtp">>[1])
  <2>1. step[d] > At(of)
    BY <1>3, <1>4
  <2>2. QED
    BY <2>1, Ranges
<1>6. QED
  BY <1>1, <1>2, <1>5 DEF ConnInv, Channels

LEMMA Forwarded ==
  ASSUME Inv, NEW of \in Media, OnRTPPacket(of)
  PROVE  s2c' \in [Conns -> Seq(Hears)] /\ \A d \in Conns : HeardKept(d)
<1> DEFINE p(d) == Interleaved(outCh[d][<<of, "rtp">>], <<of, "rtp">>)
           gets(d) == d \in subs \cap clientUp /\ outCh[d][<<of, "rtp">>] # -1
<1>1. s2c' = [d \in Conns |-> IF gets(d) THEN Append(s2c[d], p(d)) ELSE s2c[d]]
  BY DEF OnRTPPacket
<1>2. ASSUME NEW d \in Conns, gets(d)
      PROVE  /\ p(d) \in Hears /\ p(d) \notin Replies /\ p(d).line = <<of, "rtp">>
             /\ cch[d][p(d).line] = p(d).ch
  <2>1. p(d) = Interleaved(Chan(<<of, "rtp">>), <<of, "rtp">>)
        /\ cch[d][<<of, "rtp">>] = Chan(<<of, "rtp">>)
    BY <1>2, PlayerKnows
  <2>2. <<of, "rtp">> \in Lines
    BY Ranges
  <2>3. p(d) \in Packets
    BY <2>1, <2>2, PacketIs
  <2>4. p(d).line = <<of, "rtp">> /\ p(d).ch = Chan(<<of, "rtp">>)
    BY <2>1 DEF Interleaved
  <2>5. QED
    BY <2>1, <2>3, <2>4, Apart DEF Hears
<1>3. ASSUME NEW d \in Conns, gets(d)
      PROVE  /\ Append(s2c[d], p(d)) \in Seq(Hears)
             /\ ToSet(Append(s2c[d], p(d))) = ToSet(s2c[d]) \cup {p(d)}
             /\ Lone(s2c[d], Replies) => Lone(Append(s2c[d], p(d)), Replies)
  <2>1. p(d) \in Hears /\ p(d) \notin Replies
    BY <1>2, <1>3
  <2>2. s2c[d] \in Seq(Hears)
    BY DEF Inv, Typed
  <2> HIDE DEF p
  <2>3. QED
    BY <2>1, <2>2, AppendSaid
<1>4. s2c' \in [Conns -> Seq(Hears)]
  <2>1. \A d \in Conns : (IF gets(d) THEN Append(s2c[d], p(d)) ELSE s2c[d]) \in Seq(Hears)
    BY <1>3 DEF Inv, Typed
  <2> HIDE DEF p, gets
  <2>2. QED
    BY <1>1, <2>1
<1>5. ASSUME NEW d \in Conns PROVE HeardKept(d)
  <2>1. CASE gets(d)
    <3>1. s2c'[d] = Append(s2c[d], p(d))
      BY <1>1, <2>1
    <3>2. p(d) \notin Replies /\ cch[d][p(d).line] = p(d).ch
      BY <1>2, <2>1
    <3>3. ToSet(s2c'[d]) = ToSet(s2c[d]) \cup {p(d)}
          /\ (Lone(s2c[d], Replies) => Lone(s2c'[d], Replies))
      BY <1>3, <2>1, <3>1
    <3> HIDE DEF p
    <3>4. QED
      BY <3>2, <3>3 DEF HeardKept
  <2>2. CASE ~gets(d)
    <3>1. s2c'[d] = s2c[d]
      BY <1>1, <2>2
    <3>2. QED
      BY <3>1, HeardSame
  <2>3. QED
    BY <2>1, <2>2
<1>6. QED
  BY <1>4, <1>5

----------------------------------------------------------------------------
(* Connections a step does not touch.                                      *)

ServerSame(d) ==
  /\ sloop'[d] = sloop[d]
  /\ d \in pubS' <=> d \in pubS
  /\ d \in subS' <=> d \in subS
  /\ inCh'[d] = inCh[d] /\ outCh'[d] = outCh[d]
  /\ ssock'[d] = ssock[d]
  /\ pub' = d <=> pub = d
  /\ d \in subs' <=> d \in subs

ClientSame(d) ==
  /\ kind'[d] = kind[d] /\ tcp' = tcp /\ step'[d] = step[d] /\ cch'[d] = cch[d]
  /\ d \in far' <=> d \in far
  /\ d \in asked' <=> d \in asked
  /\ d \in OwnConns =>
       /\ cloop'[d] = cloop[d] /\ called'[d] = called[d] /\ errc'[d] = errc[d]
       /\ csock'[d] = csock[d] /\ csetup'[d] = csetup[d]

Same(d) ==
  /\ ServerSame(d) /\ ClientSame(d)
  /\ c2s'[d] = c2s[d] /\ HeardKept(d)
  /\ d \in clientUp' <=> d \in clientUp
  /\ d \in serverUp' <=> d \in serverUp

LEMMA RequestSame ==
  ASSUME NEW c, kind'[c] = kind[c], step'[c] = step[c], tcp' = tcp
  PROVE  RequestAt(c)' = RequestAt(c)
BY DEF RequestAt, Script, Setups, channel

\* What a client and its goroutine know, as long as the connection is not accepted before
\* it is made.
LEMMA ClientKept ==
  ASSUME NEW c \in OwnConns, Client(c), ClientSame(c), c \in clientUp' <=> c \in clientUp,
         c \in serverUp' => c \in serverUp,
         sloop'[c] = "none" \/ sloop[c] # "none" \/ c \in serverUp
  PROVE  Client(c)'
<1>1. RequestAt(c)' = RequestAt(c)
  BY RequestSame DEF ClientSame
<1>2. OverUDP(RequestAt(c))' = OverUDP(RequestAt(c))
  BY <1>1 DEF OverUDP
<1>3. QED
  BY <1>1, <1>2 DEF Client, ClientSame

LEMMA ServedSame ==
  ASSUME NEW c, kind'[c] = kind[c], c \in far' <=> c \in far, tcp' = tcp, step'[c] = step[c],
         inCh'[c] = inCh[c], c \in pubS => c \in pubS',
         c \in serverUp' => c \in serverUp, pub = c => pub' = c \/ c \notin serverUp'
  PROVE  /\ Served(c, step[c]) => Served(c, step[c])'
         /\ Served(c, step[c] + 1) => Served(c, step[c] + 1)'
BY DEF Served, At, ChannelOf, Chan, Lines

LEMMA SameKept ==
  ASSUME Inv, NEW d \in Conns, Same(d)
  PROVE  ConnInv(d)'
<1>1. ConnInv(d)
  BY DEF Inv
<1>2. RequestAt(d)' = RequestAt(d)
  BY RequestSame DEF Same, ClientSame
<1>3. d \in OwnConns => Client(d)'
  BY <1>1, ClientKept DEF ConnInv, Same, ServerSame
<1>4. Ends(d)'
  BY <1>1 DEF ConnInv, Ends, Same, ServerSame, ClientSame
<1>5. (NoAsk(d)' <=> NoAsk(d)) /\ (NoReply(d)' <=> NoReply(d)) /\ (Idle(d)' <=> Idle(d))
  BY DEF NoAsk, NoReply, Idle, Same, ClientSame, HeardKept
<1>6. Turn(d)'
  BY <1>1, <1>2, <1>5 DEF ConnInv, Turn, Same, ServerSame, ClientSame, HeardKept
<1>7. Roles(d)'
  BY <1>1 DEF ConnInv, Roles, Same, ServerSame, ClientSame
<1>8. /\ Served(d, step[d]) => Served(d, step[d])'
      /\ Served(d, step[d] + 1) => Served(d, step[d] + 1)'
  BY ServedSame DEF Same, ServerSame, ClientSame
<1>9. Channels(d)'
  <2>1. step'[d] = step[d] /\ tcp' = tcp /\ cch'[d] = cch[d] /\ outCh'[d] = outCh[d]
        /\ c2s'[d] = c2s[d] /\ kind'[d] = kind[d] /\ (d \in far' <=> d \in far)
    BY DEF Same, ServerSame, ClientSame
  <2>2. Channels(d)
    BY <1>1 DEF ConnInv
  <2>3. Served(d, step[d])' /\ (~NoReply(d)' => Served(d, step[d] + 1)')
    BY <1>5, <1>8, <2>2 DEF Channels
  <2>4. \A m \in ToSet(s2c'[d]) \cap Packets : cch'[d][m.line] = m.ch
    BY <2>1, <2>2 DEF Channels, Same, HeardKept
  <2>5. QED
    BY <2>1, <2>2, <2>3, <2>4 DEF Channels, At, Chan, ChannelOf, Lines, Packets, Interleaved
<1>10. QED
  BY <1>3, <1>4, <1>6, <1>7, <1>9 DEF ConnInv

----------------------------------------------------------------------------
(* The server's steps.                                                     *)

\* A request that is under way is that of the client's step.
LEMMA AskedAt ==
  ASSUME Inv, NEW c \in Conns, NEW m \in ToSet(c2s[c]), m \in Asks, m # Bad
  PROVE  /\ step[c] \in 0 .. Steps - 1 /\ kind[c] \in {"pull", "push", None} /\ NoReply(c)
         /\ m = Plain("ANNOUNCE") => step[c] = 1 /\ kind[c] = "push"
         /\ m = Plain("DESCRIBE") => step[c] = 1 /\ kind[c] = "pull"
         /\ m = Plain("PLAY") => step[c] = Steps - 1 /\ kind[c] = "pull"
         /\ \A of \in Media : \A ch : m = Request("SETUP", of, ch) =>
              step[c] = At(of) /\ kind[c] # None /\ ch = IF c \in tcp THEN Pair(of) ELSE None
<1>1. Turn(c) /\ Ends(c) /\ step[c] \in 0 .. Steps /\ kind[c] \in {"pull", "push", None}
  BY DEF Inv, ConnInv, Typed
<1>2. m = RequestAt(c) /\ ~NoAsk(c)
  BY <1>1 DEF Turn, NoAsk
<1>3. step[c] \in 0 .. Steps - 1 /\ NoReply(c) /\ Steps \in {4, 5}
  BY <1>1, <1>2, Scripts DEF Turn
<1>4. \A x, of, ch : /\ Request(x, of, ch).method = x /\ Request(x, of, ch).of = of
                     /\ Request(x, of, ch).chans = ch /\ Plain(x).method = x
  BY DEF Request, Plain
<1>5. kind[c] = None => step[c] = 0
  BY <1>1 DEF Ends
<1>6. \/ step[c] = 0 /\ m = Plain("OPTIONS")
      \/ step[c] = 1 /\ m = Plain(IF kind[c] = "pull" THEN "DESCRIBE" ELSE "ANNOUNCE")
      \/ step[c] = Steps - 1 /\ m = Plain(IF kind[c] = "pull" THEN "PLAY" ELSE "RECORD")
      \/ \E of \in Media :
           step[c] = At(of) /\ m = Request("SETUP", of, IF c \in tcp THEN Pair(of) ELSE None)
  BY <1>2, <1>3, Requests
<1>7. \A of \in Media : At(of) \in 2 .. Steps - 2
  BY Scripts
<1>8. m.method = "ANNOUNCE" => step[c] = 1 /\ kind[c] = "push"
  BY <1>1, <1>4, <1>5, <1>6
<1>9. /\ m.method = "DESCRIBE" => step[c] = 1 /\ kind[c] = "pull"
      /\ m.method = "PLAY" => step[c] = Steps - 1 /\ kind[c] = "pull"
  BY <1>4, <1>6
<1>10. ASSUME NEW of \in Media, NEW ch, m = Request("SETUP", of, ch)
       PROVE  step[c] = At(of) /\ kind[c] # None /\ ch = IF c \in tcp THEN Pair(of) ELSE None
  <2>1. m.method = "SETUP" /\ m.of = of /\ m.chans = ch
    BY <1>4, <1>10
  <2>2. PICK o \in Media :
          step[c] = At(o) /\ m = Request("SETUP", o, IF c \in tcp THEN Pair(o) ELSE None)
    BY <1>4, <1>6, <2>1
  <2>3. o = of /\ ch = IF c \in tcp THEN Pair(of) ELSE None
    BY <1>4, <2>1, <2>2
  <2>4. step[c] # 0
    BY <1>7, <2>2
  <2>5. QED
    BY <1>5, <2>2, <2>3, <2>4
<1>11. QED
  BY <1>1, <1>3, <1>4, <1>8, <1>9, <1>10

\* A request is served, with an answer or with none.
LEMMA TurnServed ==
  ASSUME Inv, NEW c \in Conns, NEW m \in Asks, ServerTakes(c, m), UNCHANGED <<clientVars, asked>>,
         s2c' = s2c \/ ServerWrites(c, Response("200")),
         sloop'[c] # "play" \/ (step[c] = Steps - 1 /\ kind[c] = "pull" /\ s2c' = s2c)
  PROVE  /\ Turn(c)' /\ NoAsk(c)' /\ Fewer(c) /\ m \in ToSet(c2s[c])
         /\ s2c' \in [Conns -> Seq(Hears)] /\ \A d \in Conns \ {c} : s2c'[d] = s2c[d]
         /\ ToSet(s2c'[c]) \cap Packets \subseteq ToSet(s2c[c])
         /\ s2c' = s2c => NoReply(c)'
<1>1. Typed /\ Turn(c)
  BY DEF Inv, ConnInv
<1>2. /\ Fewer(c) /\ m \in ToSet(c2s[c]) /\ ToSet(c2s'[c]) \cap Asks = {}
  BY <1>1, ServerTook DEF Turn
<1>3. ~NoAsk(c) /\ step[c] < Steps /\ NoReply(c) /\ ~Idle(c)
  BY <1>1, <1>2 DEF Turn, NoAsk
<1>4. step'[c] = step[c] /\ ~Idle(c)' /\ kind'[c] = kind[c]
  BY <1>3 DEF Idle, clientVars
<1>5. /\ s2c' \in [Conns -> Seq(Hears)] /\ \A d \in Conns \ {c} : s2c'[d] = s2c[d]
      /\ ToSet(s2c'[c]) \cap Packets \subseteq ToSet(s2c[c])
      /\ Lone(s2c'[c], Replies)
  <2>1. CASE s2c' = s2c
    BY <1>1, <1>3, <2>1 DEF Typed, Turn
  <2>2. CASE ServerWrites(c, Response("200"))
    <3>1. Response("200") \in Hears /\ Response("200") \notin Packets
      BY ReplyIs DEF Hears
    <3>2. QED
      BY <1>1, <1>3, <2>2, <3>1, ServerWrote DEF NoReply
  <2>3. QED
    BY <2>1, <2>2
<1>6. s2c' = s2c => NoReply(c)'
  BY <1>3 DEF NoReply
<1>7. NoAsk(c)'
  BY <1>2 DEF NoAsk
<1>8. /\ ToSet(c2s'[c]) \cap Asks \subseteq {RequestAt(c), Bad}'
      /\ Lone(c2s'[c], Asks)
      /\ ToSet(c2s'[c]) \subseteq Asks
  BY <1>1, <1>2, <1>3 DEF Turn, Fewer
<1>9. Turn(c)'
  BY <1>3, <1>4, <1>5, <1>6, <1>7, <1>8 DEF Turn
<1>10. QED
  BY <1>2, <1>5, <1>6, <1>7, <1>9

\* Nothing is asked and nothing is answered.
LEMMA TurnKept ==
  ASSUME Inv, NEW c \in Conns, ClientSame(c), Fewer(c), HeardKept(c),
         sloop'[c] = sloop[c] \/ sloop'[c] # "play"
  PROVE  Turn(c)'
<1>1. Turn(c)
  BY DEF Inv, ConnInv
<1>2. RequestAt(c)' = RequestAt(c)
  BY RequestSame DEF ClientSame
<1>3. (NoAsk(c) => NoAsk(c)') /\ (NoReply(c)' <=> NoReply(c)) /\ (Idle(c)' <=> Idle(c))
  BY DEF NoAsk, NoReply, Idle, ClientSame, HeardKept, Fewer
<1>4. QED
  BY <1>1, <1>2, <1>3 DEF Turn, ClientSame, HeardKept, Fewer

\* When all has been asked, there is no more to keep in turn.
LEMMA TurnDone ==
  ASSUME NEW c, step'[c] = Steps, NoAsk(c)', sloop'[c] # "play", Idle(c)' => FALSE,
         Lone(c2s'[c], Asks)
  PROVE  Turn(c)'
<1>1. Steps' = Steps /\ Steps \in {4, 5}
  BY Scripts DEF Steps, Setups
<1>2. QED
  BY <1>1 DEF Turn, NoAsk

\* The channels of a connection, when the client has not moved and the server's session
\* only becomes what it was asked to.
LEMMA ChannelsKept ==
  ASSUME Inv, NEW c \in Conns, ClientSame(c),
         \A of \in Media : outCh'[c][<<of, "rtp">>] # -1 =>
            c \in tcp /\ outCh'[c][<<of, "rtp">>] = Chan(<<of, "rtp">>),
         \A m \in ToSet(s2c'[c]) \cap Packets : m \in ToSet(s2c[c]) \/ cch[c][m.line] = m.ch,
         ToSet(c2s'[c]) \subseteq ToSet(c2s[c]),
         Served(c, step[c])', ~NoReply(c)' => Served(c, step[c] + 1)'
  PROVE  Channels(c)'
<1>1. Channels(c)
  BY DEF Inv, ConnInv
<1>2. step'[c] = step[c] /\ tcp' = tcp /\ cch'[c] = cch[c] /\ kind'[c] = kind[c]
      /\ (c \in far' <=> c \in far)
  BY DEF ClientSame
<1>3. \A m \in ToSet(s2c'[c]) \cap Packets : cch'[c][m.line] = m.ch
  BY <1>1, <1>2 DEF Channels
<1>4. ToSet(c2s'[c]) \cap Packets # {} => c \in tcp' \ far' /\ kind'[c] = "push"
  BY <1>1, <1>2 DEF Channels
<1>5. \A of \in Media : outCh'[c][<<of, "rtp">>] # -1 =>
            c \in tcp' /\ outCh'[c][<<of, "rtp">>] = Chan(<<of, "rtp">>)
  BY <1>2
<1>6. /\ \A l \in Lines : cch'[c][l] \in {None, Chan(l)}
      /\ \A l \in Lines : c \in tcp' /\ step'[c] > At(l[1]) => cch'[c][l] = Chan(l)
  BY <1>1, <1>2 DEF Channels
<1>7. QED
  BY <1>3, <1>4, <1>5, <1>6 DEF Channels, At, Chan, ChannelOf, Lines, Packets, Interleaved

LEMMA InvFrom ==
  ASSUME Inv, NEW c \in Conns, Typed', ConnInv(c)', \A d \in Conns \ {c} : Same(d)
  PROVE  Inv'
BY SameKept DEF Inv, Conns

\* What the server's steps leave alone.
LEMMA ClientsSame ==
  ASSUME UNCHANGED <<clientVars, asked>>
  PROVE  \A d : ClientSame(d)
BY DEF ClientSame, clientVars

LEMMA InvAccept ==
  ASSUME Inv, NEW c \in Conns, Accept(c)
  PROVE  Inv'
<1>1. /\ sloop[c] = "none" /\ c \in serverUp \ far /\ sloop' = [sloop EXCEPT ![c] = "read"]
      /\ UNCHANGED <<c2s, s2c, udp, clientUp, serverUp, pubS, subS, inCh, outCh, ssock, pub, subs>>
      /\ UNCHANGED <<clientVars, asked>>
  BY DEF Accept, Goes, wireVars, Sessions, Sockets, Stream
<1>2. Typed /\ ConnInv(c)
  BY DEF Inv
<1>3. Typed'
  BY <1>1, <1>2 DEF Typed, clientVars
<1>4. \A d \in Conns \ {c} : Same(d)
  BY <1>1, <1>2, ClientsSame, HeardSame DEF Same, ServerSame, Typed
<1>5. sloop'[c] = "read" /\ ClientSame(c)
  BY <1>1, <1>2, ClientsSame DEF Typed
<1>6. c \in OwnConns => Client(c)'
  BY <1>1, <1>2, <1>5, ClientKept DEF ConnInv
<1>7. Ends(c)' /\ Roles(c)'
  BY <1>1, <1>2, <1>5 DEF ConnInv, Ends, Roles, ClientSame
<1>8. Turn(c)'
  BY <1>1, <1>2, <1>5, TurnKept, FewerSame, HeardSame
<1>9. Channels(c)'
  <2>1. Served(c, step[c])' /\ (~NoReply(c)' => Served(c, step[c] + 1)')
    BY <1>1, <1>2, <1>5, ServedSame DEF ConnInv, Channels, NoReply, ClientSame
  <2>2. QED
    BY <1>1, <1>2, <1>5, <2>1, ChannelsKept DEF ConnInv, Channels
<1>10. QED
  BY <1>3, <1>4, <1>6, <1>7, <1>8, <1>9, InvFrom DEF ConnInv

\* The loop of c goes on or ends, and its sessions stay.
LEMMA LoopStep ==
  ASSUME Inv, NEW c \in Conns, UNCHANGED <<clientVars, asked>>,
         UNCHANGED <<clientUp, pubS, subS, inCh, outCh, ssock, pub, subs>>,
         \/ UNCHANGED <<sloop, serverUp>>
         \/ sloop[c] \in {"read", "play"} /\ sloop' = [sloop EXCEPT ![c] = "read"] /\ UNCHANGED serverUp
         \/ sloop[c] = "read" /\ sloop' = [sloop EXCEPT ![c] = "ended"] /\ serverUp' = serverUp \ {c},
         Fewer(c), s2c' \in [Conns -> Seq(Hears)],
         \A d \in Conns \ {c} : HeardKept(d),
         \A m \in ToSet(s2c'[c]) \cap Packets : m \in ToSet(s2c[c]) \/ cch[c][m.line] = m.ch,
         ~NoReply(c)' => Served(c, step[c] + 1), Turn(c)'
  PROVE  Inv'
<1>1. Typed /\ ConnInv(c) /\ ClientSame(c)
  BY ClientsSame DEF Inv
<1>2. Typed'
  BY <1>1 DEF Typed, clientVars, Fewer
<1>3. \A d \in Conns \ {c} : Same(d)
  BY <1>1, ClientsSame DEF Same, ServerSame, Typed, Fewer
<1>4. c \in serverUp' => c \in serverUp
  OBVIOUS
<1>5. c \in OwnConns => Client(c)'
  BY <1>1, <1>4, ClientKept DEF ConnInv
<1>6. \/ sloop'[c] = sloop[c] /\ (c \in serverUp' <=> c \in serverUp)
      \/ sloop[c] \in {"read", "play"} /\ sloop'[c] = "read" /\ (c \in serverUp' <=> c \in serverUp)
      \/ sloop[c] = "read" /\ sloop'[c] = "ended" /\ c \notin serverUp'
  BY <1>1 DEF Typed
<1>7. Ends(c)' /\ Roles(c)'
  BY <1>1, <1>6 DEF ConnInv, Ends, Roles, ClientSame
<1>8. Channels(c)'
  <2>1. Served(c, step[c])' /\ (~NoReply(c)' => Served(c, step[c] + 1)')
    BY <1>1, <1>4, ServedSame DEF ConnInv, Channels, ClientSame
  <2>2. QED
    BY <1>1, <2>1, ChannelsKept DEF ConnInv, Channels, Fewer
<1>9. QED
  BY <1>2, <1>3, <1>5, <1>7, <1>8, InvFrom DEF ConnInv

LEMMA InvLoopFails ==
  ASSUME Inv, NEW c \in Conns, LoopFails(c), UNCHANGED <<clientVars, asked>>
  PROVE  Inv'
<1>1. /\ sloop[c] = "read" /\ sloop' = [sloop EXCEPT ![c] = "ended"] /\ serverUp' = serverUp \ {c}
      /\ UNCHANGED <<s2c, clientUp, pubS, subS, inCh, outCh, ssock, pub, subs>>
      /\ c2s' = c2s \/ ServerTakes(c, Bad)
  BY DEF LoopFails, Breaks, Goes, Sessions, Sockets, Stream, Bad, Plain
<1>2. Typed /\ ClientSame(c) /\ sloop'[c] = "ended" /\ Channels(c)
  BY <1>1, ClientsSame DEF Inv, Typed, ConnInv
<1>3. Fewer(c)
  BY <1>1, <1>2, FewerSame, ServerTook
<1>4. Turn(c)'
  BY <1>1, <1>2, <1>3, TurnKept, HeardSame
<1>5. s2c' \in [Conns -> Seq(Hears)] /\ \A d \in Conns \ {c} : HeardKept(d)
  BY <1>1, <1>2, HeardSame DEF Typed
<1>6. ~NoReply(c)' => Served(c, step[c] + 1)
  BY <1>1, <1>2 DEF Channels, NoReply
<1>7. QED
  BY <1>1, <1>3, <1>4, <1>5, <1>6, LoopStep

\* Only the answers to ANNOUNCE and SETUP say what the server holds.
LEMMA ServedNext ==
  ASSUME Inv, NEW c \in Conns, step[c] # 1, \A of \in Media : step[c] # At(of)
  PROVE  Served(c, step[c] + 1)
<1>1. Served(c, step[c]) /\ step[c] \in 0 .. Steps
  BY DEF Inv, ConnInv, Channels, Typed
<1>2. step[c] + 1 >= 2 => step[c] >= 2
  BY <1>1
<1>3. ASSUME NEW l \in Lines, step[c] + 1 > At(l[1]) PROVE step[c] > At(l[1])
  <2>1. l[1] \in Media /\ At(l[1]) \in {2, 3}
    BY Ranges
  <2>2. step[c] # At(l[1])
    BY <2>1
  <2>3. QED
    BY <1>1, <1>3, <2>1, <2>2
<1>4. QED
  BY <1>1, <1>2, <1>3 DEF Served

LEMMA InvHandleOptions ==
  ASSUME Inv, NEW c \in Conns, handleOptions(c), UNCHANGED <<clientVars, asked>>
  PROVE  Inv'
<1>1. /\ UNCHANGED <<serverUp, sloop, clientUp, pubS, subS, inCh, outCh, ssock, pub, subs>>
      /\ ServerWrites(c, Response("200")) /\ sloop[c] = "read"
  BY DEF handleOptions, Answers, serverVars, ReadsPlain, Reads
<1>2. PICK x \in {"OPTIONS", "RECORD"} : ServerTakes(c, Plain(x))
  BY DEF handleOptions, ReadsPlain, Reads, Plain
<1>3. Typed /\ Plain(x) \in ToSet(c2s[c]) /\ Plain(x) \in Says
  BY <1>2, ServerTook DEF Inv
<1>4. Plain(x) \in Asks /\ Plain(x) # Bad
  <2>1. Plain(x).method = x /\ Bad.method = "bad"
    BY DEF Plain, Bad, Request
  <2>2. QED
    BY <2>1 DEF Asks
<1>5. /\ Turn(c)' /\ Fewer(c) /\ s2c' \in [Conns -> Seq(Hears)]
      /\ \A d \in Conns \ {c} : s2c'[d] = s2c[d]
      /\ ToSet(s2c'[c]) \cap Packets \subseteq ToSet(s2c[c])
  <2> DEFINE m == Plain(x)
  <2>1. m \in Asks /\ ServerTakes(c, m)
    BY <1>2, <1>4
  <2> HIDE DEF m
  <2>2. sloop'[c] # "play"
    BY <1>1
  <2>3. QED
    BY <1>1, <2>1, <2>2, TurnServed
<1>6. Served(c, step[c] + 1)
  <2>1. Plain(x) = RequestAt(c) /\ step[c] \in 0 .. Steps - 1
    BY <1>3, <1>4, AskedAt DEF Inv, ConnInv, Turn
  <2>2. \A y, of, ch : Request(y, of, ch).method = y
    BY DEF Request
  <2>3. step[c] # 1 /\ \A of \in Media : step[c] # At(of)
    BY <2>1, <2>2, Requests DEF Plain
  <2>4. QED
    BY <2>3, ServedNext
<1>7. \A d \in Conns \ {c} : HeardKept(d)
  BY <1>5, HeardSame
<1>8. QED
  BY <1>1, <1>5, <1>6, <1>7, LoopStep

LEMMA InvAnswerPlay ==
  ASSUME Inv, NEW c \in Conns, answerPlay(c), UNCHANGED <<clientVars, asked>>
  PROVE  Inv'
<1>1. /\ sloop[c] = "play" /\ sloop' = [sloop EXCEPT ![c] = "read"]
      /\ ServerWrites(c, Response("200"))
      /\ UNCHANGED <<c2s, clientUp, serverUp, pubS, subS, inCh, outCh, ssock, pub, subs>>
  BY DEF answerPlay, Answers, Goes, Sessions, Sockets, Stream
<1>2. Typed /\ ClientSame(c) /\ sloop'[c] = "read" /\ Turn(c)
  BY <1>1, ClientsSame DEF Inv, Typed, ConnInv
<1>3. step[c] = Steps - 1 /\ kind[c] = "pull" /\ NoAsk(c) /\ NoReply(c) /\ ~Idle(c)
  BY <1>1, <1>2 DEF Turn
<1>4. Response("200") \in Hears /\ Response("200") \notin Packets
  BY ReplyIs DEF Hears
<1>5. /\ s2c' \in [Conns -> Seq(Hears)] /\ \A d \in Conns \ {c} : s2c'[d] = s2c[d]
      /\ ToSet(s2c'[c]) \subseteq ToSet(s2c[c]) \cup {Response("200")}
      /\ Lone(s2c'[c], Replies)
  BY <1>1, <1>2, <1>3, <1>4, ServerWrote DEF NoReply
<1>6. NoAsk(c)' /\ ~Idle(c)' /\ step'[c] = step[c]
  BY <1>1, <1>2, <1>3 DEF NoAsk, Idle, ClientSame
<1>7. Turn(c)'
  BY <1>1, <1>2, <1>5, <1>6 DEF Turn, NoAsk
<1>8. Served(c, step[c] + 1)
  BY <1>3 DEF Served
<1>9. \A d \in Conns \ {c} : HeardKept(d)
  BY <1>5, HeardSame
<1>10. \A m \in ToSet(s2c'[c]) \cap Packets : m \in ToSet(s2c[c])
  BY <1>4, <1>5
<1>11. QED
  BY <1>1, <1>2, <1>5, <1>7, <1>8, <1>9, <1>10, FewerSame, LoopStep

\* When all has been asked.
LEMMA NotIdle ==
  ASSUME Inv, NEW c \in Conns, step[c] = Steps
  PROVE  ~Idle(c) /\ NoAsk(c) /\ sloop[c] # "play"
<1>1. Turn(c) /\ (c \in OwnConns => Client(c)) /\ Steps \in {4, 5}
  BY Scripts DEF Inv, ConnInv
<1>2. ~Idle(c)
  BY <1>1 DEF Idle, Client
<1>3. QED
  BY <1>1, <1>2 DEF Turn

LEMMA AllAsked ==
  ASSUME Inv, NEW c \in Conns, NEW m \in ToSet(c2s[c]), m \notin Asks
  PROVE  step[c] = Steps
<1>1. Turn(c) /\ step[c] \in 0 .. Steps /\ Steps \in {4, 5}
  BY Scripts DEF Inv, ConnInv, Typed
<1>2. QED
  BY <1>1 DEF Turn

\* At the end of the script, the server holds all.
LEMMA ServedAll ==
  ASSUME Inv, NEW c \in Conns, step[c] = Steps
  PROVE  Served(c, step[c] + 1)
<1>1. Steps \in {4, 5} /\ \A of \in Media : At(of) \in 2 .. Steps - 2
  BY Scripts
<1>2. QED
  BY <1>1, ServedNext

LEMMA DoneKept ==
  ASSUME Inv, NEW c \in Conns, step[c] = Steps, ClientSame(c), Fewer(c), sloop'[c] # "play"
  PROVE  Turn(c)'
<1>1. ~Idle(c) /\ NoAsk(c) /\ Turn(c)
  BY NotIdle DEF Inv, ConnInv
<1>2. ~Idle(c)' /\ NoAsk(c)' /\ Lone(c2s'[c], Asks) /\ step'[c] = Steps
  BY <1>1 DEF Idle, NoAsk, ClientSame, Fewer, Turn
<1>3. QED
  BY <1>2, TurnDone

LEMMA InvHandleTeardown ==
  ASSUME Inv, NEW c \in Conns, handleTeardown(c), UNCHANGED <<clientVars, asked>>
  PROVE  Inv'
<1>1. /\ sloop[c] = "read" /\ sloop' = [sloop EXCEPT ![c] = "ended"] /\ serverUp' = serverUp \ {c}
      /\ ServerTakes(c, Plain("TEARDOWN")) /\ ServerWrites(c, Response("200"))
      /\ UNCHANGED <<clientUp, pubS, subS, inCh, outCh, ssock, pub, subs>>
  BY DEF handleTeardown, ReadsPlain, Reads, Plain, Breaks, Goes, Sessions, Sockets, Stream
<1>2. Typed /\ ClientSame(c) /\ sloop'[c] = "ended"
  BY <1>1, ClientsSame DEF Inv, Typed
<1>3. Fewer(c) /\ Plain("TEARDOWN") \in ToSet(c2s[c])
  BY <1>1, <1>2, ServerTook
<1>4. Plain("TEARDOWN") \notin Asks
  <2>1. Plain("TEARDOWN").method = "TEARDOWN"
    BY DEF Plain, Request
  <2>2. QED
    BY <2>1, Messages
<1>5. step[c] = Steps
  BY <1>3, <1>4, AllAsked
<1>6. Turn(c)'
  BY <1>2, <1>3, <1>5, DoneKept
<1>7. Response("200") \in Hears /\ Response("200") \notin Packets
  BY ReplyIs DEF Hears
<1>8. /\ s2c' \in [Conns -> Seq(Hears)] /\ \A d \in Conns \ {c} : s2c'[d] = s2c[d]
      /\ \A m \in ToSet(s2c'[c]) \cap Packets : m \in ToSet(s2c[c])
  <2>1. ServerWrites(c, Response("200"))
    BY <1>1
  <2>2. /\ s2c' \in [Conns -> Seq(Hears)] /\ \A d \in Conns \ {c} : s2c'[d] = s2c[d]
        /\ ToSet(s2c'[c]) \subseteq ToSet(s2c[c]) \cup {Response("200")}
    BY <1>2, <1>7, <2>1, ServerWrote
  <2>3. QED
    BY <1>7, <2>2
<1>9. Served(c, step[c] + 1)
  BY <1>5, ServedAll
<1>10. \A d \in Conns \ {c} : HeardKept(d)
  BY <1>8, HeardSame
<1>11. QED
  BY <1>1, <1>3, <1>6, <1>8, <1>9, <1>10, LoopStep

LEMMA InvHandleAnnounce ==
  ASSUME Inv, NEW c \in Conns, handleAnnounce(c), UNCHANGED <<clientVars, asked>>
  PROVE  Inv'
<1> DEFINE m == Plain("ANNOUNCE")
<1>1. /\ sloop[c] = "read" /\ ServerTakes(c, m)
      /\ pubS' = pubS \cup {c} /\ inCh' = [inCh EXCEPT ![c] = NoInCh]
      /\ UNCHANGED <<clientUp, subS, outCh, ssock, subs>>
      /\ \/ /\ pub = None /\ pub' = c /\ ServerWrites(c, Response("200"))
            /\ UNCHANGED <<serverUp, sloop>>
         \/ /\ pub' = pub /\ s2c' = s2c
            /\ sloop' = [sloop EXCEPT ![c] = "ended"] /\ serverUp' = serverUp \ {c}
  BY DEF handleAnnounce, ReadsPlain, Reads, Plain, Breaks, Goes, Answers
<1>2. Typed /\ ClientSame(c) /\ ConnInv(c)
  BY ClientsSame DEF Inv
<1>3. m \in Asks /\ m # Bad
  <2>1. m.method = "ANNOUNCE" /\ Bad.method = "bad"
    BY DEF Plain, Bad, Request
  <2>2. QED
    BY <2>1 DEF Asks
<1> HIDE DEF m
<1>4. sloop'[c] \in {"read", "ended"} /\ (sloop'[c] = "ended" <=> sloop' # sloop)
      /\ (\A d \in Conns \ {c} : sloop'[d] = sloop[d])
      /\ sloop' \in [Conns -> {"none", "read", "play", "ended", "done"}]
  BY <1>1, <1>2 DEF Typed
<1>5. /\ Turn(c)' /\ Fewer(c) /\ m \in ToSet(c2s[c])
      /\ s2c' \in [Conns -> Seq(Hears)] /\ \A d \in Conns \ {c} : s2c'[d] = s2c[d]
      /\ ToSet(s2c'[c]) \cap Packets \subseteq ToSet(s2c[c])
      /\ s2c' = s2c => NoReply(c)'
  BY <1>1, <1>3, <1>4, TurnServed
<1>6. step[c] = 1 /\ kind[c] = "push" /\ NoReply(c)
  BY <1>3, <1>5, AskedAt DEF m
<1>7. /\ inCh' \in [Conns -> [Lines -> Int]] /\ \A d \in Conns \ {c} : inCh'[d] = inCh[d]
  <2>1. NoInCh \in [Lines -> Int]
    BY DEF NoInCh
  <2>2. QED
    BY <1>1, <1>2, <2>1 DEF Typed
<1>8. Typed'
  BY <1>1, <1>2, <1>4, <1>5, <1>7 DEF Typed, Fewer, clientVars
<1>9. \A d \in Conns \ {c} : Same(d)
  <2>1. \A d \in Conns \ {c} : pub' = d <=> pub = d
    BY <1>1, WireAssumption
  <2>2. \A d \in Conns \ {c} : (d \in serverUp' <=> d \in serverUp) /\ (d \in pubS' <=> d \in pubS)
    BY <1>1
  <2>3. QED
    BY <1>1, <1>4, <1>5, <1>7, <2>1, <2>2, ClientsSame, HeardSame DEF Same, ServerSame, Fewer
<1>10. c \in OwnConns => Client(c)'
  BY <1>1, <1>2, ClientKept DEF ConnInv
<1>11. c \notin subS /\ c \notin subs
  BY <1>2, <1>6 DEF ConnInv, Roles
<1>12. Ends(c)' /\ Roles(c)'
  <2>1. kind'[c] = "push" /\ (c \in far' <=> c \in far) /\ "push" # None
    BY <1>2, <1>6, WireAssumption DEF ClientSame
  <2>2. Ends(c)'
    BY <1>1, <1>2, <1>4, <2>1 DEF ConnInv, Ends
  <2>3. Roles(c)'
    BY <1>1, <1>4, <1>11, <2>1 DEF Roles
  <2>4. QED
    BY <2>2, <2>3
<1>13. Channels(c)'
  <2>1. \A l \in Lines : ~(1 > At(l[1])) /\ ~(1 + 1 > At(l[1]))
    <3>1. \A l \in Lines : At(l[1]) \in {2, 3}
      BY Ranges
    <3>2. QED
      BY <3>1
  <2>2. step'[c] = 1 /\ c \in pubS' /\ \A l : At(l[1])' = At(l[1])
    BY <1>1, <1>2, <1>6 DEF ClientSame, At, ChannelOf
  <2>3. Served(c, step[c])'
    BY <2>1, <2>2 DEF Served, At, ChannelOf, Lines
  <2>4. ~NoReply(c)' => Served(c, step[c] + 1)'
    <3> SUFFICES ASSUME ~NoReply(c)' PROVE Served(c, step[c] + 1)'
      OBVIOUS
    <3>1. pub' = c
      BY <1>1, <1>5
    <3>2. QED
      BY <2>1, <2>2, <3>1 DEF Served, At, ChannelOf, Lines
  <2>5. \A of \in Media : outCh'[c][<<of, "rtp">>] # -1 =>
            c \in tcp /\ outCh'[c][<<of, "rtp">>] = Chan(<<of, "rtp">>)
    BY <1>1, <1>2 DEF ConnInv, Channels
  <2>6. QED
    BY <1>2, <1>5, <2>3, <2>4, <2>5, ChannelsKept DEF Fewer
<1>14. QED
  BY <1>5, <1>8, <1>9, <1>10, <1>12, <1>13, InvFrom DEF ConnInv

LEMMA InvHandleDescribe ==
  ASSUME Inv, NEW c \in Conns, handleDescribe(c), UNCHANGED <<clientVars, asked>>
  PROVE  Inv'
<1> DEFINE m == Plain("DESCRIBE")
<1>1. /\ sloop[c] = "read" /\ ServerTakes(c, m)
      /\ subS' = subS \cup {c} /\ outCh' = [outCh EXCEPT ![c] = NoOutCh]
      /\ UNCHANGED <<clientUp, pubS, inCh, ssock, pub, subs>>
      /\ \/ ServerWrites(c, Response("200")) /\ UNCHANGED <<serverUp, sloop>>
         \/ /\ s2c' = s2c
            /\ sloop' = [sloop EXCEPT ![c] = "ended"] /\ serverUp' = serverUp \ {c}
  BY DEF handleDescribe, ReadsPlain, Reads, Plain, Breaks, Goes, Answers, Sockets, Stream
<1>2. Typed /\ ClientSame(c) /\ ConnInv(c)
  BY ClientsSame DEF Inv
<1>3. m \in Asks /\ m # Bad
  <2>1. m.method = "DESCRIBE" /\ Bad.method = "bad"
    BY DEF Plain, Bad, Request
  <2>2. QED
    BY <2>1 DEF Asks
<1> HIDE DEF m
<1>4. sloop'[c] \in {"read", "ended"} /\ (sloop'[c] = "ended" <=> sloop' # sloop)
      /\ (\A d \in Conns \ {c} : sloop'[d] = sloop[d])
      /\ sloop' \in [Conns -> {"none", "read", "play", "ended", "done"}]
  BY <1>1, <1>2 DEF Typed
<1>5. /\ Turn(c)' /\ Fewer(c) /\ m \in ToSet(c2s[c])
      /\ s2c' \in [Conns -> Seq(Hears)] /\ \A d \in Conns \ {c} : s2c'[d] = s2c[d]
      /\ ToSet(s2c'[c]) \cap Packets \subseteq ToSet(s2c[c])
  BY <1>1, <1>3, <1>4, TurnServed
<1>6. step[c] = 1 /\ kind[c] = "pull"
  BY <1>3, <1>5, AskedAt DEF m
<1>7. /\ outCh' \in [Conns -> [Lines -> Int]] /\ \A d \in Conns \ {c} : outCh'[d] = outCh[d]
      /\ \A of \in Media : outCh'[c][<<of, "rtp">>] = -1
  <2>1. NoOutCh \in [Lines -> Int] /\ \A of \in Media : NoOutCh[<<of, "rtp">>] = -1
    <3>1. \A of \in Media : <<of, "rtp">>[2] = "rtp" /\ <<of, "rtp">> \in Lines
      BY Ranges
    <3>2. QED
      BY <3>1 DEF NoOutCh
  <2>2. QED
    BY <1>1, <1>2, <2>1 DEF Typed
<1>8. Typed'
  BY <1>1, <1>2, <1>4, <1>5, <1>7 DEF Typed, Fewer, clientVars
<1>9. \A d \in Conns \ {c} : Same(d)
  <2>1. \A d \in Conns \ {c} : (d \in serverUp' <=> d \in serverUp) /\ (d \in subS' <=> d \in subS)
    BY <1>1
  <2>2. QED
    BY <1>1, <1>4, <1>5, <1>7, <2>1, ClientsSame, HeardSame DEF Same, ServerSame, Fewer
<1>10. c \in OwnConns => Client(c)'
  BY <1>1, <1>2, ClientKept DEF ConnInv
<1>11. Ends(c)' /\ Roles(c)'
  <2>1. kind'[c] = "pull" /\ (c \in far' <=> c \in far) /\ "pull" # None /\ step'[c] = step[c]
    BY <1>2, <1>6, WireAssumption DEF ClientSame
  <2>2. Ends(c)'
    BY <1>1, <1>2, <1>4, <2>1 DEF ConnInv, Ends
  <2>3. Roles(c)'
    BY <1>1, <1>2, <1>4, <1>6, <2>1 DEF ConnInv, Roles
  <2>4. QED
    BY <2>2, <2>3
<1>12. Channels(c)'
  <2>1. kind'[c] = "pull"
    BY <1>2, <1>6 DEF ClientSame
  <2>2. Served(c, step[c])' /\ Served(c, step[c] + 1)'
    BY <2>1 DEF Served
  <2>3. QED
    BY <1>2, <1>5, <1>7, <2>2, ChannelsKept DEF Fewer
<1>13. QED
  BY <1>5, <1>8, <1>9, <1>10, <1>11, <1>12, InvFrom DEF ConnInv

\* A pair of channels in a session's table.
LEMMA PairSet ==
  ASSUME NEW table \in [Conns -> [Lines -> Int]], NEW c \in Conns, NEW of \in Media,
         NEW chans, chans = Pair(of)
  PROVE  LET t == SetupWithChannel(table, c, of, chans)
         IN /\ t \in [Conns -> [Lines -> Int]]
            /\ \A d \in Conns \ {c} : t[d] = table[d]
            /\ \A l \in Lines : t[c][l] = IF l[1] = of THEN Chan(l) ELSE table[c][l]
<1> DEFINE r == <<of, "rtp">>
           s == <<of, "rtcp">>
           f == table[c]
           g == [f EXCEPT ![r] = Chan(r), ![s] = Chan(s)]
<1>1. r \in Lines /\ s \in Lines /\ r # s /\ Chan(r) \in Int /\ Chan(s) \in Int /\ f \in [Lines -> Int]
  BY Ranges
<1>2. \A l \in Lines : l[1] = of <=> l \in {r, s}
  BY Ranges
<1>3. chans[1] = Chan(r) /\ chans[2] = Chan(s)
  BY DEF Pair
<1>4. SetupWithChannel(table, c, of, chans) = [table EXCEPT ![c] = g]
  BY <1>3 DEF SetupWithChannel
<1> HIDE DEF r, s
<1>5. g \in [Lines -> Int] /\ \A l \in Lines : g[l] = IF l \in {r, s} THEN Chan(l) ELSE f[l]
  BY <1>1
<1> HIDE DEF g
<1>6. QED
  BY <1>2, <1>4, <1>5

LEMMA InvHandleSetup ==
  ASSUME Inv, NEW c \in Conns, handleSetup(c), UNCHANGED <<clientVars, asked>>
  PROVE  Inv'
<1>1. PICK of \in Media, chans \in {None} \cup {<<2 * i, 2 * i + 1>> : i \in 0 .. 1} :
         /\ sloop[c] = "read" /\ ServerTakes(c, Request("SETUP", of, chans))
         /\ ssock' = IF chans = None THEN [ssock EXCEPT ![c] = @ \cup {of}] ELSE ssock
         /\ inCh' = IF chans # None /\ c \in pubS
                    THEN SetupWithChannel(inCh, c, of, chans) ELSE inCh
         /\ outCh' = IF chans # None /\ c \in subS \ pubS
                     THEN SetupWithChannel(outCh, c, of, chans) ELSE outCh
  BY DEF handleSetup, Reads
<1>2. /\ UNCHANGED <<clientUp, pubS, subS, pub, subs>>
      /\ \/ ServerWrites(c, Response("200")) /\ UNCHANGED <<serverUp, sloop>>
         \/ /\ s2c' = s2c
            /\ sloop' = [sloop EXCEPT ![c] = "ended"] /\ serverUp' = serverUp \ {c}
  BY DEF handleSetup, Breaks, Goes, Answers, Stream
<1> DEFINE m == Request("SETUP", of, chans)
<1>3. Typed /\ ClientSame(c) /\ ConnInv(c)
  BY ClientsSame DEF Inv
<1>4. m \in Asks /\ m # Bad
  <2>1. m \in Says
    BY <1>1, <1>3, ServerTook
  <2>2. m.method = "SETUP" /\ Bad.method = "bad"
    BY DEF Plain, Bad, Request
  <2>3. QED
    BY <2>1, <2>2, AskIs
<1> HIDE DEF m
<1>5. sloop'[c] \in {"read", "ended"} /\ (sloop'[c] = "ended" <=> sloop' # sloop)
      /\ (\A d \in Conns \ {c} : sloop'[d] = sloop[d])
      /\ sloop' \in [Conns -> {"none", "read", "play", "ended", "done"}]
  BY <1>1, <1>2, <1>3 DEF Typed
<1>6. /\ Turn(c)' /\ Fewer(c) /\ m \in ToSet(c2s[c])
      /\ s2c' \in [Conns -> Seq(Hears)] /\ \A d \in Conns \ {c} : s2c'[d] = s2c[d]
      /\ ToSet(s2c'[c]) \cap Packets \subseteq ToSet(s2c[c])
  <2>1. ServerTakes(c, m)
    BY <1>1 DEF m
  <2>2. QED
    BY <1>2, <1>4, <1>5, <2>1, TurnServed
<1>7. step[c] = At(of) /\ kind[c] # None /\ chans = IF c \in tcp THEN Pair(of) ELSE None
  BY <1>4, <1>6, AskedAt DEF m
<1>8. c \in tcp => chans # None
  <2>1. Pair(of) # None
    BY WireAssumption, Ranges DEF Pair
  <2>2. QED
    BY <1>7, <2>1
<1>9. /\ inCh' \in [Conns -> [Lines -> Int]] /\ \A d \in Conns \ {c} : inCh'[d] = inCh[d]
      /\ \A l \in Lines : inCh'[c][l] = IF c \in tcp \cap pubS /\ l[1] = of THEN Chan(l) ELSE inCh[c][l]
  <2>1. inCh \in [Conns -> [Lines -> Int]]
    BY <1>3 DEF Typed
  <2>2. CASE chans # None /\ c \in pubS
    <3>1. c \in tcp \cap pubS /\ chans = Pair(of) /\ inCh' = SetupWithChannel(inCh, c, of, chans)
      BY <1>1, <1>7, <2>2
    <3>2. QED
      BY <2>1, <3>1, PairSet
  <2>3. CASE ~(chans # None /\ c \in pubS)
    BY <1>1, <1>8, <2>1, <2>3
  <2>4. QED
    BY <2>2, <2>3
<1>10. /\ outCh' \in [Conns -> [Lines -> Int]] /\ \A d \in Conns \ {c} : outCh'[d] = outCh[d]
       /\ \A l \in Lines : outCh'[c][l] = outCh[c][l] \/ (c \in tcp /\ outCh'[c][l] = Chan(l))
  <2>1. outCh \in [Conns -> [Lines -> Int]]
    BY <1>3 DEF Typed
  <2>2. CASE chans # None /\ c \in subS \ pubS
    BY <1>1, <1>7, <2>1, <2>2, PairSet
  <2>3. CASE ~(chans # None /\ c \in subS \ pubS)
    BY <1>1, <1>8, <2>1, <2>3
  <2>4. QED
    BY <2>2, <2>3
<1>11. ssock' \in [Conns -> SUBSET Media] /\ \A d \in Conns \ {c} : ssock'[d] = ssock[d]
  BY <1>1, <1>3 DEF Typed
<1>12. Typed'
  BY <1>2, <1>3, <1>5, <1>6, <1>9, <1>10, <1>11 DEF Typed, Fewer, clientVars
<1>13. \A d \in Conns \ {c} : Same(d)
  <2>1. \A d \in Conns \ {c} : d \in serverUp' <=> d \in serverUp
    BY <1>2
  <2>2. QED
    BY <1>2, <1>5, <1>6, <1>9, <1>10, <1>11, <2>1, ClientsSame, HeardSame DEF Same, ServerSame, Fewer
<1>14. c \in OwnConns => Client(c)'
  BY <1>1, <1>2, <1>3, ClientKept DEF ConnInv
<1>15. Ends(c)' /\ Roles(c)'
  <2>1. kind'[c] = kind[c] /\ (c \in far' <=> c \in far) /\ step'[c] = step[c]
    BY <1>3 DEF ClientSame
  <2>2. Ends(c)'
    BY <1>1, <1>2, <1>3, <1>5, <1>7, <2>1 DEF ConnInv, Ends
  <2>3. Roles(c)'
    BY <1>2, <1>3, <1>5, <2>1 DEF ConnInv, Roles
  <2>4. QED
    BY <2>2, <2>3
<1>16. Channels(c)'
  <2>1. /\ kind'[c] = kind[c] /\ (c \in far' <=> c \in far) /\ step'[c] = step[c] /\ tcp' = tcp
        /\ pubS' = pubS /\ pub' = pub /\ (c \in serverUp' => c \in serverUp)
        /\ \A l : At(l[1])' = At(l[1]) /\ Chan(l)' = Chan(l)
    BY <1>2, <1>3 DEF ClientSame, At, ChannelOf, Chan
  <2>2. Served(c, step[c]) /\ step[c] \in 0 .. Steps
    BY <1>3 DEF ConnInv, Channels, Typed
  <2>3. At(of) \in {2, 3} /\ \A l \in Lines : At(l[1]) \in {2, 3} /\ l[1] \in Media
    BY Ranges
  <2>4. ASSUME NEW l \in Lines, c \in tcp, c \in pubS, step[c] + 1 > At(l[1]),
               step[c] > At(l[1]) => inCh[c][l] = Chan(l)
        PROVE  inCh'[c][l] = Chan(l)
    <3>1. CASE l[1] = of
      BY <1>9, <2>4, <3>1
    <3>2. CASE l[1] # of
      <4>1. At(l[1]) # At(of)
        BY <2>3, <3>2, WireAssumption DEF At, ChannelOf
      <4>2. step[c] > At(l[1])
        BY <1>7, <2>2, <2>3, <2>4, <4>1
      <4>3. QED
        BY <1>9, <2>4, <3>2, <4>2
    <3>3. QED
      BY <3>1, <3>2
  <2>5. step[c] >= 2
    BY <1>7, <2>3
  <2>6. ASSUME kind[c] = "push", c \notin far
        PROVE  /\ c \in pubS /\ (c \in serverUp => pub = c)
               /\ \A l \in Lines : c \in tcp /\ step[c] > At(l[1]) => inCh[c][l] = Chan(l)
    BY <2>2, <2>5, <2>6 DEF Served
  <2>7. Served(c, step[c] + 1)'
    BY <2>1, <2>4, <2>6 DEF Served, Lines
  <2>8. \A l \in Lines : step[c] > At(l[1]) => step[c] + 1 > At(l[1])
    BY <2>2, <2>3
  <2>9. Served(c, step[c])'
    BY <2>1, <2>4, <2>6, <2>8 DEF Served, Lines
  <2>10. \A of1 \in Media : outCh'[c][<<of1, "rtp">>] # -1 =>
            c \in tcp /\ outCh'[c][<<of1, "rtp">>] = Chan(<<of1, "rtp">>)
    BY <1>3, <1>10, Ranges DEF ConnInv, Channels
  <2>11. QED
    BY <1>3, <1>6, <2>7, <2>9, <2>10, ChannelsKept DEF Fewer
<1>17. QED
  BY <1>6, <1>12, <1>13, <1>14, <1>15, <1>16, InvFrom DEF ConnInv

LEMMA InvHandlePlay ==
  ASSUME Inv, NEW c \in Conns, handlePlay(c), UNCHANGED <<clientVars, asked>>
  PROVE  Inv'
<1> DEFINE m == Plain("PLAY")
<1>1. /\ sloop[c] = "read" /\ ServerTakes(c, m) /\ c \in subS
      /\ subs' = subs \cup {c} /\ sloop' = [sloop EXCEPT ![c] = "play"]
      /\ UNCHANGED <<s2c, clientUp, serverUp, pubS, subS, inCh, outCh, ssock, pub>>
  BY DEF handlePlay, ReadsPlain, Reads, Plain, Goes, Sessions, Sockets
<1>2. Typed /\ ClientSame(c) /\ ConnInv(c)
  BY ClientsSame DEF Inv
<1>3. m \in Asks /\ m # Bad
  <2>1. m.method = "PLAY" /\ Bad.method = "bad"
    BY DEF Plain, Bad, Request
  <2>2. QED
    BY <2>1 DEF Asks
<1>4. m \in ToSet(c2s[c])
  BY <1>1, <1>2, ServerTook
<1>5. step[c] = Steps - 1 /\ kind[c] = "pull" /\ NoReply(c)
  BY <1>3, <1>4, AskedAt
<1> HIDE DEF m
<1>6. Turn(c)' /\ Fewer(c)
  BY <1>1, <1>3, <1>5, TurnServed
<1>7. sloop'[c] = "play" /\ (\A d \in Conns \ {c} : sloop'[d] = sloop[d])
      /\ sloop' \in [Conns -> {"none", "read", "play", "ended", "done"}]
  BY <1>1, <1>2 DEF Typed
<1>8. Typed'
  BY <1>1, <1>2, <1>6, <1>7 DEF Typed, Fewer, clientVars
<1>9. \A d \in Conns \ {c} : Same(d)
  <2>1. \A d \in Conns \ {c} : d \in subs' <=> d \in subs
    BY <1>1
  <2>2. QED
    BY <1>1, <1>6, <1>7, <2>1, ClientsSame, HeardSame DEF Same, ServerSame, Fewer
<1>10. c \in OwnConns => Client(c)'
  BY <1>1, <1>2, ClientKept DEF ConnInv
<1>11. Ends(c)' /\ Roles(c)'
  <2>1. kind'[c] = "pull" /\ (c \in far' <=> c \in far) /\ "pull" # None /\ step'[c] = Steps - 1
        /\ Steps' = Steps /\ Steps \in {4, 5}
    BY <1>2, <1>5, Scripts, WireAssumption DEF ClientSame, Steps, Setups
  <2>2. Ends(c)'
    BY <1>1, <1>2, <1>7, <2>1 DEF ConnInv, Ends
  <2>3. Roles(c)'
    BY <1>1, <1>2, <1>5, <1>7, <2>1 DEF ConnInv, Roles
  <2>4. QED
    BY <2>2, <2>3
<1>12. Channels(c)'
  <2>1. kind'[c] = "pull"
    BY <1>2, <1>5 DEF ClientSame
  <2>2. Served(c, step[c])' /\ Served(c, step[c] + 1)'
    BY <2>1 DEF Served
  <2>3. QED
    BY <1>1, <1>2, <1>6, <2>2, ChannelsKept DEF Fewer, ConnInv, Channels
<1>13. QED
  BY <1>6, <1>8, <1>9, <1>10, <1>11, <1>12, InvFrom DEF ConnInv

\* A packet that arrives is on a channel of the session: all of them have been set up.
LEMMA PacketRead ==
  ASSUME Inv, NEW c \in Conns, NEW m \in ToSet(c2s[c]), m \in Packets
  PROVE  /\ step[c] = Steps /\ kind[c] = "push" /\ c \in tcp \ far /\ c \in pubS
         /\ \A l \in Lines : inCh[c][l] = Chan(l) /\ cch[c][l] = Chan(l)
<1>1. step[c] = Steps
  BY AllAsked, Apart
<1>2. Channels(c)
  BY DEF Inv, ConnInv
<1>3. kind[c] = "push" /\ c \in tcp \ far /\ Served(c, step[c])
  BY <1>2 DEF Channels
<1>4. Steps \in {4, 5} /\ \A l \in Lines : At(l[1]) \in 2 .. Steps - 2
  BY Scripts, Ranges
<1>5. \A l \in Lines : step[c] > At(l[1])
  BY <1>1, <1>4
<1>6. \A l \in Lines : inCh[c][l] = Chan(l) /\ cch[c][l] = Chan(l)
  BY <1>2, <1>3, <1>5 DEF Served, Channels
<1>7. c \in pubS
  BY <1>1, <1>3, <1>4 DEF Served
<1>8. QED
  BY <1>1, <1>3, <1>6, <1>7

LEMMA InvHandleInterleavedPacket ==
  ASSUME Inv, NEW c \in Conns, HandleInterleavedPacket(c), UNCHANGED <<clientVars, asked>>
  PROVE  Inv'
<1>1. PICK ch \in 0 .. 3, l \in Lines :
        /\ Reads(c, Interleaved(ch, l))
        /\ \/ handleRTPPacket(c, l[1]) /\ UNCHANGED <<sloop, serverUp>>
           \/ handleRTCPPacket(c, l[1], TRUE) /\ UNCHANGED <<sloop, serverUp>>
           \/ s2c' = s2c /\ (UNCHANGED <<sloop, serverUp>> \/ Breaks(c))
  BY DEF HandleInterleavedPacket
<1>2. UNCHANGED <<clientUp, pubS, subS, inCh, outCh, ssock, pub, subs>>
  BY DEF HandleInterleavedPacket, Sessions, Stream
<1> DEFINE m == Interleaved(ch, l)
<1>3. Typed /\ ClientSame(c) /\ ConnInv(c) /\ sloop[c] = "read" /\ ServerTakes(c, m)
  BY <1>1, ClientsSame DEF Inv, Reads
<1>4. Fewer(c) /\ m \in ToSet(c2s[c]) /\ m \in Packets
  <2>1. Fewer(c) /\ m \in ToSet(c2s[c]) /\ m \in Says
    BY <1>3, ServerTook
  <2>2. QED
    BY <2>1, PacketIs DEF Says
<1> HIDE DEF m
<1>5. step[c] = Steps /\ \A k \in Lines : inCh[c][k] = Chan(k) /\ cch[c][k] = Chan(k)
  BY <1>4, PacketRead
<1>6. l[1] \in Media /\ <<l[1], "rtcp">> \in Lines
  BY Ranges
<1>7. s2c' \in [Conns -> Seq(Hears)] /\ \A d \in Conns : HeardKept(d)
  <2>1. CASE handleRTPPacket(c, l[1])
    BY <1>6, <2>1, Forwarded DEF handleRTPPacket
  <2>2. CASE handleRTCPPacket(c, l[1], TRUE)
    <3> DEFINE p == Interleaved(inCh[c][<<l[1], "rtcp">>], <<l[1], "rtcp">>)
    <3>1. p \in Packets /\ p \notin Replies /\ cch[c][p.line] = p.ch
      <4>1. p = Interleaved(Chan(<<l[1], "rtcp">>), <<l[1], "rtcp">>)
        BY <1>5, <1>6
      <4>2. p \in Packets
        BY <1>6, <4>1, PacketIs
      <4>3. p.line = <<l[1], "rtcp">> /\ p.ch = Chan(<<l[1], "rtcp">>)
        BY <4>1 DEF Interleaved
      <4>4. QED
        BY <1>5, <1>6, <4>2, <4>3, Apart
    <3>2. s2c' = s2c \/ ServerWrites(c, p)
      BY <2>2 DEF handleRTCPPacket
    <3> HIDE DEF p
    <3>3. CASE s2c' = s2c
      BY <1>3, <3>3, HeardSame DEF Typed
    <3>4. CASE ServerWrites(c, p)
      <4>1. p \in Hears
        BY <3>1 DEF Hears
      <4>2. /\ s2c' \in [Conns -> Seq(Hears)] /\ \A d \in Conns \ {c} : s2c'[d] = s2c[d]
            /\ ToSet(s2c'[c]) \subseteq ToSet(s2c[c]) \cup {p}
            /\ ToSet(s2c[c]) \subseteq ToSet(s2c'[c])
            /\ Lone(s2c[c], Replies) => Lone(s2c'[c], Replies)
        BY <1>3, <3>1, <3>4, <4>1, ServerWrote
      <4>3. HeardKept(c)
        BY <3>1, <4>2 DEF HeardKept
      <4>4. QED
        BY <4>2, <4>3, HeardSame
    <3>5. QED
      BY <3>2, <3>3, <3>4
  <2>3. CASE s2c' = s2c
    BY <1>3, <2>3, HeardSame DEF Typed
  <2>4. QED
    BY <1>1, <2>1, <2>2, <2>3
<1>8. \/ UNCHANGED <<sloop, serverUp>>
      \/ sloop' = [sloop EXCEPT ![c] = "ended"] /\ serverUp' = serverUp \ {c}
  BY <1>1 DEF Breaks, Goes
<1>9. sloop'[c] # "play"
  BY <1>3, <1>8 DEF Typed
<1>10. Turn(c)'
  BY <1>3, <1>4, <1>5, <1>9, DoneKept
<1>11. Served(c, step[c] + 1)
  BY <1>5, ServedAll
<1>12. \A k \in ToSet(s2c'[c]) \cap Packets : k \in ToSet(s2c[c]) \/ cch[c][k.line] = k.ch
  BY <1>7 DEF HeardKept
<1>13. QED
  BY <1>2, <1>3, <1>4, <1>7, <1>8, <1>10, <1>11, <1>12, LoopStep

LEMMA InvOnReadUDPPacket ==
  ASSUME Inv, NEW c \in Conns, onReadUDPPacket(c), UNCHANGED <<clientVars, asked>>
  PROVE  Inv'
<1>1. /\ UNCHANGED <<c2s, clientUp, serverUp, sloop, pubS, subS, inCh, outCh, ssock, pub, subs>>
      /\ \E l \in Lines : s2c' = s2c \/ OnRTPPacket(l[1])
  BY DEF onReadUDPPacket, handleRTPPacket, handleRTCPPacket, Sessions, Stream
<1>2. s2c' \in [Conns -> Seq(Hears)] /\ \A d \in Conns : HeardKept(d)
  <2>1. PICK l \in Lines : s2c' = s2c \/ OnRTPPacket(l[1])
    BY <1>1
  <2>2. CASE s2c' = s2c
    BY <2>2, HeardSame DEF Inv, Typed
  <2>3. CASE OnRTPPacket(l[1])
    BY <2>3, Forwarded, Ranges
  <2>4. QED
    BY <2>1, <2>2, <2>3
<1>3. Typed'
  BY <1>1, <1>2 DEF Inv, Typed, clientVars
<1>4. \A d \in Conns : Same(d)
  BY <1>1, <1>2, ClientsSame DEF Same, ServerSame
<1>5. QED
  BY <1>3, <1>4, SameKept DEF Inv, Conns

\* The end of a connection, or of its publisher.
LEMMA InvHandleTCPConnect ==
  ASSUME Inv, NEW c \in Conns, handleTCPConnect(c), UNCHANGED <<clientVars, asked>>
  PROVE  Inv'
<1>1. /\ sloop[c] = "ended" /\ sloop' = [sloop EXCEPT ![c] = "done"]
      /\ c2s' = [c2s EXCEPT ![c] = <<>>]
      /\ \/ c = pub /\ pub' = None /\ ssock' = [ssock EXCEPT ![c] = {}]
         \/ c # pub /\ UNCHANGED <<pub, ssock>>
      /\ subs' = IF c \in subS \ pubS THEN subs \ {c} ELSE subs
      /\ UNCHANGED <<s2c, clientUp, serverUp, pubS, subS, inCh, outCh>>
  BY DEF handleTCPConnect, Goes, Sessions
<1>2. Typed /\ ClientSame(c) /\ ConnInv(c)
  BY ClientsSame DEF Inv
<1>3. Fewer(c) /\ ToSet(c2s'[c]) = {}
  BY <1>1, <1>2, FewerNone
<1>4. sloop'[c] = "done" /\ (\A d \in Conns \ {c} : sloop'[d] = sloop[d])
      /\ sloop' \in [Conns -> {"none", "read", "play", "ended", "done"}]
  BY <1>1, <1>2 DEF Typed
<1>5. ssock' \in [Conns -> SUBSET Media] /\ \A d \in Conns \ {c} : ssock'[d] = ssock[d]
  BY <1>1, <1>2 DEF Typed
<1>6. pub' # c /\ c \notin subs' /\ (pub' = pub \/ (pub = c /\ pub' = None))
      /\ \A d \in Conns \ {c} : d \in subs' <=> d \in subs
  BY <1>1, <1>2, WireAssumption DEF ConnInv, Roles
<1>7. Typed'
  BY <1>1, <1>2, <1>3, <1>4, <1>5 DEF Typed, Fewer, clientVars
<1>8. \A d \in Conns \ {c} : Same(d)
  <2>1. \A d \in Conns \ {c} : pub' = d <=> pub = d
    BY <1>6, WireAssumption
  <2>2. QED
    BY <1>1, <1>3, <1>4, <1>5, <1>6, <2>1, ClientsSame, HeardSame DEF Same, ServerSame, Fewer
<1>9. c \in OwnConns => Client(c)'
  BY <1>1, <1>2, ClientKept DEF ConnInv
<1>10. Ends(c)' /\ Roles(c)'
  BY <1>1, <1>2, <1>4, <1>6 DEF ConnInv, Ends, Roles, ClientSame
<1>11. Turn(c)'
  BY <1>1, <1>2, <1>3, <1>4, TurnKept, HeardSame
<1>12. Channels(c)'
  <2>1. Served(c, step[c])' /\ (~NoReply(c)' => Served(c, step[c] + 1)')
    <3>1. c \notin serverUp'
      BY <1>1, <1>2 DEF ConnInv, Ends
    <3>2. QED
      BY <1>1, <1>2, <3>1, ServedSame DEF ConnInv, Channels, NoReply, ClientSame
  <2>2. QED
    BY <1>1, <1>2, <1>3, <2>1, ChannelsKept DEF ConnInv, Channels, Fewer
<1>13. QED
  BY <1>7, <1>8, <1>9, <1>10, <1>11, <1>12, InvFrom DEF ConnInv

LEMMA InvDropped ==
  ASSUME Inv, NEW c \in Conns, KickOutSession(c) \/ Tick(c), UNCHANGED <<clientVars, asked>>
  PROVE  Inv'
<1>1. /\ c = pub /\ pub' \in {c, None}
      /\ serverUp' = serverUp \ {c} /\ ssock' = [ssock EXCEPT ![c] = {}]
      /\ UNCHANGED <<c2s, s2c, clientUp, sloop, pubS, subS, inCh, outCh, subs>>
  BY DEF KickOutSession, Tick, DisposeOfPub, Sessions, Stream
<1>2. Typed /\ ClientSame(c) /\ ConnInv(c)
  BY ClientsSame DEF Inv
<1>3. ssock' \in [Conns -> SUBSET Media] /\ ssock'[c] = {} /\ \A d \in Conns \ {c} : ssock'[d] = ssock[d]
  BY <1>1, <1>2 DEF Typed
<1>4. Typed'
  BY <1>1, <1>2, <1>3 DEF Typed, clientVars
<1>5. \A d \in Conns \ {c} : Same(d)
  <2>1. \A d \in Conns \ {c} : (pub' = d <=> pub = d) /\ (d \in serverUp' <=> d \in serverUp)
    BY <1>1, WireAssumption
  <2>2. QED
    BY <1>1, <1>3, <2>1, ClientsSame, HeardSame DEF Same, ServerSame
<1>6. c \in OwnConns => Client(c)'
  BY <1>1, <1>2, ClientKept DEF ConnInv, Ends
<1>7. Ends(c)' /\ Roles(c)'
  BY <1>1, <1>2, <1>3 DEF ConnInv, Ends, Roles, ClientSame
<1>8. Turn(c)'
  BY <1>1, <1>2, TurnKept, FewerSame, HeardSame
<1>9. Channels(c)'
  <2>1. Served(c, step[c])' /\ (~NoReply(c)' => Served(c, step[c] + 1)')
    BY <1>1, <1>2, ServedSame DEF ConnInv, Channels, NoReply, ClientSame
  <2>2. QED
    BY <1>1, <1>2, <2>1, ChannelsKept DEF ConnInv, Channels
<1>10. QED
  BY <1>4, <1>5, <1>6, <1>7, <1>8, <1>9, InvFrom DEF ConnInv

LEMMA InvServer ==
  ASSUME Inv, NEW c \in Conns, ServerNext(c)
  PROVE  Inv'
BY InvAccept, InvLoopFails, InvHandleOptions, InvHandleAnnounce, InvHandleDescribe, InvHandleSetup,
   InvHandlePlay, InvAnswerPlay, InvHandleTeardown, InvHandleInterleavedPacket,
   InvOnReadUDPPacket, InvHandleTCPConnect, InvDropped
DEF ServerNext, ServerStep

----------------------------------------------------------------------------
(* The clients' steps.                                                     *)

\* A step of the client of c.
ClientOnly(c) ==
  /\ UNCHANGED serverVars
  /\ \A d \in Conns \ {c} :
       /\ ClientSame(d) /\ c2s'[d] = c2s[d] /\ s2c'[d] = s2c[d]
       /\ d \in clientUp' <=> d \in clientUp
       /\ d \in serverUp' <=> d \in serverUp

LEMMA OthersSame ==
  ASSUME NEW c \in Conns, ClientOnly(c)
  PROVE  \A d \in Conns \ {c} : Same(d)
BY HeardSame DEF ClientOnly, Same, ServerSame, serverVars

\* The client writes, closes or goes on, and its request is the same.
LEMMA ClientMoves ==
  ASSUME Inv, NEW c \in Conns, ClientOnly(c), Typed', c \in OwnConns => Client(c)',
         kind[c] # None, kind'[c] = kind[c], tcp' = tcp, step'[c] = step[c], cch'[c] = cch[c],
         c \in far' => c \in far \/ sloop[c] = "none",
         c \in far => c \in far',
         c \in serverUp' => c \in serverUp \/ (step[c] = 0 /\ sloop[c] = "none"),
         \A m \in ToSet(s2c'[c]) \cap Packets : m \in ToSet(s2c[c]) \/ cch[c][m.line] = m.ch,
         ToSet(c2s'[c]) \cap Packets # {} =>
           (ToSet(c2s[c]) \cap Packets # {} /\ far' = far) \/ (c \in tcp \ far' /\ kind[c] = "push"),
         ~NoReply(c)' => Served(c, step[c] + 1),
         Turn(c)'
  PROVE  Inv'
<1>1. Typed /\ ConnInv(c) /\ \A d \in Conns \ {c} : Same(d)
  BY OthersSame DEF Inv
<1>2. UNCHANGED <<sloop, pubS, subS, inCh, outCh, ssock, pub, subs>>
  BY DEF ClientOnly, serverVars
<1>3. Ends(c)' /\ Roles(c)'
  BY <1>1, <1>2 DEF ConnInv, Ends, Roles
<1>4. Served(c, step[c]) /\ step[c] \in 0 .. Steps
  BY <1>1 DEF ConnInv, Channels, Typed
<1>5. CASE c \in serverUp' => c \in serverUp
  <2>1. Served(c, step[c])'
    BY <1>2, <1>4, <1>5 DEF Served, At, ChannelOf, Chan, Lines
  <2>2. ~NoReply(c)' => Served(c, step[c] + 1)'
    BY <1>2, <1>5 DEF Served, At, ChannelOf, Chan, Lines
  <2>3. Channels(c)'
    BY <1>1, <1>2, <2>1, <2>2
    DEF ConnInv, Channels, At, ChannelOf, Chan, Lines, Packets, Interleaved
  <2>4. QED
    BY <1>1, <1>3, <2>3, InvFrom DEF ConnInv
<1>6. CASE step[c] = 0
  <2>1. \A l \in Lines : ~(0 > At(l[1])) /\ ~(1 > At(l[1]))
    <3>1. \A l \in Lines : At(l[1]) \in {2, 3}
      BY Ranges
    <3>2. QED
      BY <3>1
  <2>2. Served(c, step[c])' /\ Served(c, step[c] + 1)'
    BY <1>6, <2>1 DEF Served, At, ChannelOf, Chan, Lines
  <2>3. Channels(c)'
    BY <1>1, <1>2, <2>2
    DEF ConnInv, Channels, At, ChannelOf, Chan, Lines, Packets, Interleaved
  <2>4. QED
    BY <1>1, <1>3, <2>3, InvFrom DEF ConnInv
<1>7. QED
  BY <1>5, <1>6

\* Before its first request nothing is under way.
LEMMA NothingYet ==
  ASSUME Inv, NEW c \in Conns, step[c] = 0, Idle(c)
  PROVE  ToSet(c2s[c]) = {} /\ NoReply(c)
<1>1. Turn(c) /\ Steps \in {4, 5}
  BY Scripts DEF Inv, ConnInv
<1>2. QED
  BY <1>1 DEF Turn, NoAsk

\* A session that becomes a puller or a pusher.
LEMMA ClientBegins ==
  ASSUME Inv, NEW c \in Conns, ClientOnly(c), Typed', c \in OwnConns => Client(c)',
         kind[c] = None, kind'[c] # None, Idle(c), tcp' = tcp, step'[c] = step[c], cch'[c] = cch[c],
         far' = far, UNCHANGED <<c2s, s2c>>,
         c \in asked' <=> c \in asked
  PROVE  Inv'
<1>1. Typed /\ ConnInv(c) /\ \A d \in Conns \ {c} : Same(d)
  BY OthersSame DEF Inv
<1>2. UNCHANGED <<sloop, pubS, subS, inCh, outCh, ssock, pub, subs>>
  BY DEF ClientOnly, serverVars
<1>3. step[c] = 0 /\ sloop[c] = "none" /\ ToSet(c2s[c]) = {} /\ NoReply(c)
  BY <1>1, NothingYet DEF ConnInv, Ends
<1>4. Ends(c)' /\ Roles(c)'
  BY <1>1, <1>2, <1>3 DEF ConnInv, Ends, Roles
<1>5. Turn(c)'
  BY <1>1, <1>2, <1>3 DEF ConnInv, Turn, NoAsk, NoReply, Steps, Setups
<1>6. Channels(c)'
  <2>1. \A l \in Lines : ~(0 > At(l[1]))
    <3>1. \A l \in Lines : At(l[1]) \in {2, 3}
      BY Ranges
    <3>2. QED
      BY <3>1
  <2>2. Served(c, step[c])' /\ NoReply(c)'
    BY <1>3, <2>1 DEF Served, NoReply, At, ChannelOf, Lines
  <2>3. QED
    BY <1>1, <1>2, <1>3, <2>2
    DEF ConnInv, Channels, At, ChannelOf, Chan, Lines, Packets, Interleaved
<1>7. QED
  BY <1>1, <1>4, <1>5, <1>6, InvFrom DEF ConnInv

\* The channels of a SETUP that is answered.
LEMMA ChannelsSet ==
  ASSUME Inv, NEW c \in Conns, step[c] \in 0 .. Steps - 1, OnSetupWithChannel(c, RequestAt(c))
  PROVE  /\ cch' \in [Conns -> [Lines -> Int \cup {None}]] /\ \A d \in Conns \ {c} : cch'[d] = cch[d]
         /\ \A l \in Lines : cch'[c][l] \in {cch[c][l], Chan(l)}
         /\ \A l \in Lines : c \in tcp /\ step[c] = At(l[1]) => cch'[c][l] = Chan(l)
<1>1. cch \in [Conns -> [Lines -> Int \cup {None}]]
  BY DEF Inv, Typed
<1> DEFINE q == RequestAt(c)
<1>2. CASE \E of \in Media : step[c] = At(of) /\ q = Request("SETUP", of, Pair(of)) /\ c \in tcp
  <2>1. PICK of \in Media : step[c] = At(of) /\ q = Request("SETUP", of, Pair(of)) /\ c \in tcp
    BY <1>2
  <2>2. q.of = of /\ q.chans = Pair(of)
    BY <2>1 DEF Request
  <2>3. of # None /\ Pair(of) # None
    BY WireAssumption, Ranges DEF Pair
  <2> DEFINE r == <<of, "rtp">>
             s == <<of, "rtcp">>
             f == cch[c]
             g == [f EXCEPT ![r] = Chan(r), ![s] = Chan(s)]
  <2>4. r \in Lines /\ s \in Lines /\ r # s /\ Chan(r) \in Int /\ Chan(s) \in Int
        /\ f \in [Lines -> Int \cup {None}]
    BY <1>1, Ranges
  <2>5. \A l \in Lines : l[1] = of <=> l \in {r, s}
    BY Ranges
  <2>6. Pair(of)[1] = Chan(r) /\ Pair(of)[2] = Chan(s)
    BY DEF Pair
  <2>7. cch' = [cch EXCEPT ![c] = g]
    <3> HIDE DEF q
    <3>1. QED
      BY <2>2, <2>3, <2>6 DEF OnSetupWithChannel, q
  <2> HIDE DEF q, r, s
  <2>8. g \in [Lines -> Int \cup {None}] /\ \A l \in Lines : g[l] = IF l \in {r, s} THEN Chan(l) ELSE f[l]
    BY <2>4
  <2> HIDE DEF g
  <2>9. /\ cch' \in [Conns -> [Lines -> Int \cup {None}]] /\ \A d \in Conns \ {c} : cch'[d] = cch[d]
        /\ \A l \in Lines : cch'[c][l] = IF l[1] = of THEN Chan(l) ELSE cch[c][l]
    BY <1>1, <2>5, <2>7, <2>8
  <2>10. \A l \in Lines : At(l[1]) = At(of) => l[1] = of
    BY Ranges, WireAssumption DEF At, ChannelOf
  <2>11. QED
    BY <2>1, <2>9, <2>10
<1>3. CASE ~\E of \in Media : step[c] = At(of) /\ q = Request("SETUP", of, Pair(of)) /\ c \in tcp
  <2>1. \A x, of, ch : Request(x, of, ch).of = of /\ Request(x, of, ch).chans = ch
    BY DEF Request
  <2>2. q.of = None \/ q.chans = None
    BY <1>3, <2>1, Requests DEF Plain
  <2>3. c \in tcp => \A l \in Lines : step[c] # At(l[1])
    <3>1. \A of \in Media : step[c] = At(of) => q = Request("SETUP", of, IF c \in tcp THEN Pair(of) ELSE None)
      BY Requests
    <3>2. QED
      BY <1>3, <3>1, Ranges
  <2>4. cch' = cch
    BY <2>2 DEF OnSetupWithChannel
  <2>5. QED
    BY <1>1, <2>3, <2>4
<1>4. QED
  BY <1>2, <1>3

\* The client reads the answer to its request.
LEMMA ClientHears ==
  ASSUME Inv, NEW c \in Conns, ClientOnly(c), Typed', c \in OwnConns => Client(c)',
         step[c] \in 0 .. Steps - 1, kind[c] # None,
         NEW m \in Replies, ClientTakes(c, m), c2s' = c2s, OnSetupWithChannel(c, RequestAt(c)),
         kind'[c] = kind[c], tcp' = tcp, far' = far, step'[c] = step[c] + 1,
         UNCHANGED <<clientUp, serverUp>>,
         c \in asked' => c \in asked
  PROVE  Inv'
<1>1. Typed /\ ConnInv(c) /\ \A d \in Conns \ {c} : Same(d)
  BY OthersSame DEF Inv
<1>2. UNCHANGED <<sloop, pubS, subS, inCh, outCh, ssock, pub, subs>>
  BY DEF ClientOnly, serverVars
<1>3. m \in ToSet(s2c[c]) /\ ToSet(s2c'[c]) \subseteq ToSet(s2c[c])
      /\ (Lone(s2c[c], Replies) => Lone(s2c'[c], Replies) /\ ToSet(s2c'[c]) \cap Replies = {})
  BY <1>1, ClientTook
<1>0. Steps \in {4, 5} /\ Steps' = Steps /\ step[c] < Steps /\ step[c] \in Nat
  BY Scripts DEF Steps, Setups
<1>4. ~NoReply(c) /\ Turn(c) /\ step[c] < Steps
  BY <1>0, <1>1, <1>3 DEF NoReply, ConnInv
<1>5. NoReply(c)' /\ Lone(s2c'[c], Replies) /\ NoAsk(c) /\ NoAsk(c)' /\ sloop[c] # "play"
  BY <1>3, <1>4 DEF Turn, NoReply, NoAsk
<1>6. Ends(c)' /\ Roles(c)'
  <2>1. Ends(c)'
    BY <1>1, <1>2 DEF ConnInv, Ends
  <2>2. step[c] >= Steps - 1 => step'[c] >= Steps' - 1
    BY <1>0
  <2>3. QED
    BY <1>1, <1>2, <2>1, <2>2 DEF ConnInv, Roles
<1>7. Turn(c)'
  BY <1>2, <1>4, <1>5 DEF Turn, NoAsk
<1>8. /\ \A l \in Lines : cch'[c][l] \in {cch[c][l], Chan(l)}
      /\ \A l \in Lines : c \in tcp /\ step[c] = At(l[1]) => cch'[c][l] = Chan(l)
  BY ChannelsSet
<1>9. Channels(c)'
  <2>1. Channels(c) /\ Served(c, step[c] + 1)
    BY <1>1, <1>4 DEF ConnInv, Channels
  <2>2. Served(c, step[c])'
    BY <1>2, <2>1 DEF Served, At, ChannelOf, Chan, Lines
  <2>3. ASSUME NEW l \in Lines, c \in tcp, step[c] + 1 > At(l[1])
        PROVE  cch'[c][l] = Chan(l)
    <3>1. At(l[1]) \in {2, 3}
      BY Ranges
    <3>2. step[c] > At(l[1]) \/ step[c] = At(l[1])
      BY <2>3, <3>1
    <3>3. QED
      BY <1>8, <2>1, <2>3, <3>2 DEF Channels
  <2>4. \A l \in Lines : cch'[c][l] \in {None, Chan(l)}
    BY <1>8, <2>1 DEF Channels
  <2>5. ASSUME NEW k \in ToSet(s2c'[c]) \cap Packets PROVE cch'[c][k.line] = k.ch
    <3>1. k \in ToSet(s2c[c]) /\ k.line \in Lines /\ k = Interleaved(Chan(k.line), k.line)
      BY <1>3, Messages
    <3>2. k.ch = Chan(k.line)
      BY <3>1 DEF Interleaved
    <3>3. QED
      BY <1>8, <2>1, <3>1, <3>2 DEF Channels
  <2>6. \A of \in Media :
       outCh'[c][<<of, "rtp">>] # -1 => c \in tcp' /\ outCh'[c][<<of, "rtp">>] = Chan(<<of, "rtp">>)
    BY <1>2, <2>1 DEF Channels
  <2>7. ToSet(c2s'[c]) \cap Packets # {} => c \in tcp' \ far' /\ kind'[c] = "push"
    BY <2>1 DEF Channels
  <2>8. QED
    BY <1>5, <2>2, <2>3, <2>4, <2>5, <2>6, <2>7
    DEF Channels, At, ChannelOf, Chan, Lines, Packets, Interleaved
<1>10. QED
  BY <1>1, <1>6, <1>7, <1>9, InvFrom DEF ConnInv

\* The client closes, reads or goes on, and writes nothing.
LEMMA ClientGoesOn ==
  ASSUME Inv, NEW c \in Conns, ClientOnly(c), Typed', c \in OwnConns => Client(c)',
         kind[c] # None, kind'[c] = kind[c], tcp' = tcp, step'[c] = step[c], cch'[c] = cch[c],
         far' = far, serverUp' = serverUp, c2s' = c2s, ToSet(s2c'[c]) \subseteq ToSet(s2c[c]),
         Lone(s2c[c], Replies) => Lone(s2c'[c], Replies),
         Idle(c)' => Idle(c) \/ (NoAsk(c) /\ NoReply(c)' /\ sloop[c] # "play")
  PROVE  Inv'
<1>1. Turn(c) /\ Channels(c) /\ sloop' = sloop
  BY DEF Inv, ConnInv, ClientOnly, serverVars
<1>2. RequestAt(c)' = RequestAt(c) /\ Steps' = Steps
  BY RequestSame DEF Steps, Setups
<1>3. (NoAsk(c)' <=> NoAsk(c)) /\ (NoReply(c) => NoReply(c)')
  BY DEF NoAsk, NoReply
<1>4. Turn(c)'
  BY <1>1, <1>2, <1>3 DEF Turn
<1>5. ~NoReply(c)' => Served(c, step[c] + 1)
  BY <1>1, <1>3 DEF Channels
<1>6. \A m \in ToSet(s2c'[c]) \cap Packets : m \in ToSet(s2c[c])
  OBVIOUS
<1>7. QED
  BY <1>4, <1>5, <1>6, ClientMoves

----------------------------------------------------------------------------
(* The program's own clients.                                              *)

LEMMA StepsSame == Steps' = Steps /\ Steps \in {4, 5}
BY Scripts DEF Steps, Setups

LEMMA InvDo ==
  ASSUME Inv, NEW c \in OwnConns, Do(c), UNCHANGED <<serverVars, asked>>
  PROVE  Inv'
<1>1. PICK k \in {"pull", "push"} : kind' = [kind EXCEPT ![c] = k]
  BY DEF Do
<1>2. /\ called[c] = "no" /\ called' = [called EXCEPT ![c] = "waiting"]
      /\ cloop' = [cloop EXCEPT ![c] = "dial"]
      /\ UNCHANGED <<c2s, s2c, clientUp, serverUp, errc, tcp, far, step, tries, cch, csock, csetup, tick>>
  BY DEF Do, Turns, wireVars
<1>3. Typed /\ Client(c) /\ c \in Conns /\ Ends(c)
  BY DEF Inv, ConnInv, Conns
<1>4. cloop[c] = "none" /\ kind[c] = None /\ Idle(c)
  BY <1>2, <1>3 DEF Client, Idle
<1>5. kind'[c] = k /\ called'[c] = "waiting" /\ cloop'[c] = "dial" /\ k # None
  BY <1>1, <1>2, <1>3, WireAssumption DEF Typed
<1>6. Typed'
  BY <1>1, <1>2, <1>3, StepsSame DEF Typed, serverVars
<1>7. ClientOnly(c)
  BY <1>1, <1>2, <1>3 DEF ClientOnly, ClientSame, Typed
<1>8. Client(c)'
  BY <1>2, <1>3, <1>4, <1>5 DEF Client, serverVars
<1>9. QED
  BY <1>2, <1>3, <1>4, <1>5, <1>6, <1>7, <1>8, ClientBegins

LEMMA InvDoReturns ==
  ASSUME Inv, NEW c \in OwnConns, DoReturns(c), UNCHANGED <<serverVars, asked>>
  PROVE  Inv'
<1>1. /\ called[c] = "waiting" /\ errc[c] # None
      /\ errc' = [errc EXCEPT ![c] = None] /\ called' = [called EXCEPT ![c] = errc[c]]
      /\ cloop' = [cloop EXCEPT ![c] = IF errc[c] = "ok" THEN "top" ELSE "ended"]
      /\ UNCHANGED <<c2s, s2c, clientUp, serverUp, kind, tcp, far, step, tries, cch, csock, csetup, tick>>
  BY DEF DoReturns, Turns, wireVars, Dialog
<1>2. Typed /\ Client(c) /\ c \in Conns /\ Ends(c)
  BY DEF Inv, ConnInv, Conns
<1>3. errc[c] \in {"ok", "error"} /\ cloop[c] \in {"done", "ended"}
  BY <1>1, <1>2 DEF Typed, Client
<1>4. /\ errc[c] = "ok" => cloop[c] = "done" /\ cloop'[c] = "top" /\ called'[c] = "ok"
      /\ errc[c] = "error" => cloop'[c] = "ended" /\ called'[c] = "error"
      /\ errc'[c] = None
  BY <1>1, <1>2, <1>3 DEF Typed, Client
<1>5. Typed'
  BY <1>1, <1>2, <1>3, StepsSame DEF Typed, serverVars
<1>6. ClientOnly(c)
  BY <1>1, <1>2 DEF ClientOnly, ClientSame, Typed
<1>7. Client(c)'
  BY <1>1, <1>2, <1>3, <1>4, StepsSame, WireAssumption DEF Client, serverVars
<1>8. ~Idle(c)' /\ kind[c] # None
  BY <1>1, <1>2, <1>3, <1>4 DEF Idle, Client
<1>9. QED
  BY <1>1, <1>2, <1>5, <1>6, <1>7, <1>8, ClientGoesOn

LEMMA InvDoTimesOut ==
  ASSUME Inv, NEW c \in OwnConns, DoTimesOut(c), UNCHANGED <<serverVars, asked>>
  PROVE  Inv'
<1>1. /\ called[c] = "waiting" /\ called' = [called EXCEPT ![c] = "timeout"]
      /\ UNCHANGED <<c2s, s2c, clientUp, serverUp, cloop, errc, kind, tcp, far, step, tries, cch,
                     csock, csetup, tick>>
  BY DEF DoTimesOut, wireVars, Dialog
<1>2. Typed /\ Client(c) /\ c \in Conns /\ called'[c] = "timeout"
  BY <1>1 DEF Inv, ConnInv, Conns, Typed
<1>3. Typed'
  BY <1>1, <1>2, StepsSame DEF Typed, serverVars
<1>4. ClientOnly(c)
  BY <1>1, <1>2 DEF ClientOnly, ClientSame, Typed
<1>5. RequestAt(c)' = RequestAt(c) /\ OverUDP(RequestAt(c))' = OverUDP(RequestAt(c))
  BY <1>1, RequestSame DEF OverUDP
<1>6. Client(c)'
  BY <1>1, <1>2, <1>5, StepsSame DEF Client, serverVars
<1>7. kind[c] # None /\ (Idle(c)' <=> Idle(c))
  BY <1>1, <1>2 DEF Client, Idle
<1>8. QED
  BY <1>1, <1>2, <1>3, <1>4, <1>6, <1>7, ClientGoesOn

\* What an end that closes has not read is gone.
LEMMA ClientClosed ==
  ASSUME Typed, NEW c \in Conns, ClientCloses(c)
  PROVE  /\ s2c' \in [Conns -> Seq(Hears)] /\ \A d \in Conns \ {c} : s2c'[d] = s2c[d]
         /\ ToSet(s2c'[c]) = {} /\ Lone(s2c'[c], Replies)
         /\ clientUp' = clientUp \ {c}
<1>1. s2c'[c] = <<>> /\ s2c' \in [Conns -> Seq(Hears)] /\ \A d \in Conns \ {c} : s2c'[d] = s2c[d]
  BY DEF Typed, ClientCloses
<1>2. QED
  BY <1>1, NothingSaid DEF ClientCloses

LEMMA InvClientDispose ==
  ASSUME Inv, NEW c \in OwnConns, ClientDispose(c), UNCHANGED <<serverVars, asked>>
  PROVE  Inv'
<1>1. /\ called[c] \notin {"no", "waiting"} /\ ClientCloses(c) /\ c \in clientUp
      /\ csock' = [csock EXCEPT ![c] = @ \ csetup[c]]
      /\ UNCHANGED <<c2s, serverUp, cloop, called, errc, kind, tcp, far, step, tries, cch, csetup, tick>>
  BY DEF ClientDispose, Dialog
<1>2. Typed /\ Client(c) /\ c \in Conns
  BY DEF Inv, ConnInv, Conns
<1>3. /\ s2c' \in [Conns -> Seq(Hears)] /\ \A d \in Conns \ {c} : s2c'[d] = s2c[d]
      /\ ToSet(s2c'[c]) = {} /\ Lone(s2c'[c], Replies) /\ clientUp' = clientUp \ {c}
  BY <1>1, <1>2, ClientClosed
<1>4. csock'[c] = csock[c] \ csetup[c]
  BY <1>1, <1>2 DEF Typed
<1>5. Typed'
  <2>1. csock' \in [OwnConns -> SUBSET Media]
    BY <1>1, <1>2 DEF Typed
  <2>2. QED
    BY <1>1, <1>2, <1>3, <2>1, StepsSame DEF Typed, serverVars
<1>6. ClientOnly(c)
  BY <1>1, <1>2, <1>3 DEF ClientOnly, ClientSame, Typed
<1>7. RequestAt(c)' = RequestAt(c) /\ OverUDP(RequestAt(c))' = OverUDP(RequestAt(c))
  BY <1>1, RequestSame DEF OverUDP
<1>8. Client(c)'
  BY <1>1, <1>2, <1>3, <1>4, <1>7, StepsSame DEF Client, serverVars
<1>9. kind[c] # None /\ (Idle(c)' <=> Idle(c))
  BY <1>1, <1>2 DEF Client, Idle
<1>10. QED
  BY <1>1, <1>2, <1>3, <1>5, <1>6, <1>8, <1>9, ClientGoesOn

LEMMA InvConnectFails ==
  ASSUME Inv, NEW c \in OwnConns, connectFails(c), UNCHANGED <<serverVars, asked>>
  PROVE  Inv'
<1>1. /\ cloop[c] = "dial" /\ cloop' = [cloop EXCEPT ![c] = "ended"]
      /\ errc' = [errc EXCEPT ![c] = "error"]
      /\ UNCHANGED <<c2s, s2c, clientUp, serverUp, called, kind, tcp, far, step, tries, cch,
                     csock, csetup, tick>>
  BY DEF connectFails, Errs, Turns, wireVars, Dialog
<1>2. Typed /\ Client(c) /\ c \in Conns
  BY DEF Inv, ConnInv, Conns
<1>3. cloop'[c] = "ended" /\ errc'[c] = "error" /\ kind[c] # None /\ called[c] \notin {"no", "ok"}
  BY <1>1, <1>2 DEF Typed, Client
<1>4. Typed'
  BY <1>1, <1>2, StepsSame DEF Typed, serverVars
<1>5. ClientOnly(c)
  BY <1>1, <1>2 DEF ClientOnly, ClientSame, Typed
<1>6. Client(c)' /\ ~Idle(c)'
  BY <1>1, <1>2, <1>3 DEF Client, serverVars, Idle
<1>7. QED
  BY <1>1, <1>2, <1>3, <1>4, <1>5, <1>6, ClientGoesOn

LEMMA InvConnect ==
  ASSUME Inv, NEW c \in OwnConns, connect(c), UNCHANGED <<serverVars, asked>>
  PROVE  Inv'
<1>1. /\ cloop[c] = "dial" /\ cloop' = [cloop EXCEPT ![c] = "write"]
      /\ clientUp' = clientUp \cup {c} /\ serverUp' = serverUp \cup {c}
      /\ far' = far \/ far' = far \cup {c}
      /\ UNCHANGED <<c2s, s2c, called, errc, kind, tcp, step, tries, cch, csock, csetup, tick>>
  BY DEF connect, Turns
<1>2. Typed /\ ConnInv(c) /\ Client(c) /\ c \in Conns
  BY DEF Inv, ConnInv, Conns
<1>3. /\ cloop'[c] = "write" /\ kind[c] # None /\ called[c] # "no"
      /\ step[c] = 0 /\ sloop[c] = "none" /\ csock[c] = {} /\ errc[c] = None /\ c \notin far
  BY <1>1, <1>2 DEF Typed, Client
<1>4. Typed'
  BY <1>1, <1>2, StepsSame DEF Typed, serverVars
<1>5. ClientOnly(c)
  BY <1>1, <1>2 DEF ClientOnly, ClientSame, Typed
<1>6. Client(c)'
  BY <1>1, <1>2, <1>3, StepsSame DEF Client, serverVars
<1>7. Idle(c)
  BY <1>1 DEF Idle
<1>8. ToSet(c2s[c]) = {} /\ NoReply(c) /\ Turn(c)
  BY <1>2, <1>3, <1>7, NothingYet DEF ConnInv
<1>9. Turn(c)'
  <2>1. sloop' = sloop /\ Steps' = Steps
    BY StepsSame DEF serverVars
  <2>2. QED
    BY <1>1, <1>3, <1>8, <2>1 DEF Turn, NoAsk, NoReply
<1>10. NoReply(c)' /\ ToSet(c2s'[c]) \cap Packets = {}
  BY <1>1, <1>8 DEF NoReply
<1>11. QED
  BY <1>1, <1>2, <1>3, <1>4, <1>5, <1>6, <1>9, <1>10, ClientMoves

\* What is asked at a step is a request.
LEMMA AskAtStep ==
  ASSUME NEW c \in Conns, step[c] \in 0 .. Steps - 1
  PROVE  /\ RequestAt(c) \in Asks
         /\ OverUDP(RequestAt(c)) => RequestAt(c).of \in Media
<1>1. /\ \A m \in {"OPTIONS", "DESCRIBE", "ANNOUNCE", "PLAY", "RECORD"} :
           Plain(m) \in Asks /\ ~OverUDP(Plain(m))
      /\ \A of \in Media : /\ Request("SETUP", of, None) \in Asks /\ Request("SETUP", of, Pair(of)) \in Asks
                           /\ \A ch : Request("SETUP", of, ch).of \in Media
  BY DEF Asks, OverUDP, Plain, Request
<1>2. CASE step[c] \in {0, 1, Steps - 1}
  <2>1. RequestAt(c) \in {Plain(m) : m \in {"OPTIONS", "DESCRIBE", "ANNOUNCE", "PLAY", "RECORD"}}
    BY <1>2, Requests
  <2>2. QED
    BY <1>1, <2>1
<1>3. CASE \E of \in Media : step[c] = At(of)
  BY <1>1, <1>3, Requests
<1>4. QED
  BY <1>2, <1>3, Requests

LEMMA InvWriteCmd ==
  ASSUME Inv, NEW c \in OwnConns, writeCmd(c), UNCHANGED <<serverVars, asked>>
  PROVE  Inv'
<1> DEFINE r == RequestAt(c)
<1>1. /\ cloop[c] = "write" /\ cloop' = [cloop EXCEPT ![c] = "await"]
      /\ tries' = [tries EXCEPT ![c] = @ + 1]
      /\ csock' = IF OverUDP(r) /\ tries[c] = 0 THEN [csock EXCEPT ![c] = @ \cup {r.of}] ELSE csock
      /\ ClientWrites(c, r)
      /\ UNCHANGED <<s2c, clientUp, serverUp, called, errc, kind, tcp, far, step, cch, csetup, tick>>
  BY DEF writeCmd, Turns, Acquire2, Dialog
<1>2. Typed /\ ConnInv(c) /\ Client(c) /\ Turn(c) /\ c \in Conns
  BY DEF Inv, ConnInv, Conns
<1>3. /\ cloop'[c] = "await" /\ kind[c] # None /\ called[c] # "no" /\ called[c] # "ok"
      /\ step[c] \in 0 .. Steps - 1 /\ Idle(c)
  BY <1>1, <1>2, StepsSame DEF Typed, Client, Idle
<1>4. NoAsk(c) /\ NoReply(c) /\ sloop[c] # "play"
  BY <1>2, <1>3 DEF Turn
<1>5. r \in Asks /\ (OverUDP(r) => r.of \in Media)
  BY <1>2, <1>3, AskAtStep
<1>6. RequestAt(c)' = r
  BY <1>1, RequestSame
<1> HIDE DEF r
<1>7. /\ csock' \in [OwnConns -> SUBSET Media] /\ \A d \in OwnConns \ {c} : csock'[d] = csock[d]
      /\ csock'[c] \subseteq csock[c] \cup (IF OverUDP(r) THEN {r.of} ELSE {})
  BY <1>1, <1>2, <1>5 DEF Typed
<1>8. /\ c2s' \in [Conns -> Seq(Says)] /\ \A d \in Conns \ {c} : c2s'[d] = c2s[d]
      /\ ToSet(c2s'[c]) \subseteq ToSet(c2s[c]) \cup {r}
      /\ Lone(c2s'[c], Asks)
  <2>1. r \in Says /\ ToSet(c2s[c]) \cap Asks = {}
    BY <1>4, <1>5 DEF Says, NoAsk
  <2>2. QED
    BY <1>1, <1>2, <2>1, ClientAsked
<1>9. tries' \in [OwnConns -> Nat]
  BY <1>1, <1>2 DEF Typed
<1>10. Typed'
  BY <1>1, <1>2, <1>7, <1>8, <1>9, StepsSame DEF Typed, serverVars
<1>11. ClientOnly(c)
  BY <1>1, <1>2, <1>7, <1>8 DEF ClientOnly, ClientSame, Typed
<1>12. OverUDP(RequestAt(c))' = OverUDP(r)
  BY <1>6 DEF OverUDP
<1>13. Client(c)'
  <2>1. csock[c] \subseteq csetup[c] \cup (IF OverUDP(r) THEN {r.of} ELSE {})
    BY <1>1, <1>2 DEF Client, r
  <2>2. csock'[c] \subseteq csetup[c] \cup (IF OverUDP(r) THEN {r.of} ELSE {})
    BY <1>7, <2>1
  <2>3. QED
    BY <1>1, <1>2, <1>3, <1>6, <1>12, <2>2, StepsSame DEF Client, serverVars
<1>14. ~Idle(c)'
  BY <1>3 DEF Idle
<1>15. Turn(c)'
  <2>1. sloop' = sloop /\ Steps' = Steps
    BY StepsSame DEF serverVars
  <2>2. NoReply(c)' /\ step'[c] < Steps /\ step'[c] = step[c]
    BY <1>1, <1>3, <1>4, StepsSame DEF NoReply
  <2>3. ToSet(c2s'[c]) \subseteq Asks /\ ToSet(c2s'[c]) \cap Asks \subseteq {r}
    BY <1>2, <1>4, <1>5, <1>8, <2>2 DEF Turn, NoAsk
  <2>4. QED
    BY <1>1, <1>2, <1>4, <1>6, <1>8, <1>14, <2>1, <2>2, <2>3 DEF Turn, NoAsk
<1>16. ToSet(c2s'[c]) \cap Packets # {} => ToSet(c2s[c]) \cap Packets # {}
  BY <1>5, <1>8, Apart
<1>17. NoReply(c)'
  BY <1>1, <1>4 DEF NoReply
<1>18. QED
  BY <1>1, <1>2, <1>3, <1>10, <1>11, <1>13, <1>15, <1>16, <1>17, ClientMoves

\* The goroutine ends with its error.
LEMMA InvErrs ==
  ASSUME Inv, NEW c \in OwnConns, UNCHANGED <<serverVars, asked>>, cloop[c] = "await", Errs(c),
         s2c' = s2c \/ \E m : ClientTakes(c, m),
         UNCHANGED <<c2s, udp, clientUp, serverUp, called, kind, tcp, far, step, tries, cch,
                     csock, csetup, tick>>
  PROVE  Inv'
<1>1. cloop' = [cloop EXCEPT ![c] = "ended"] /\ errc' = [errc EXCEPT ![c] = "error"]
  BY DEF Errs, Turns
<1>2. Typed /\ Client(c) /\ c \in Conns
  BY DEF Inv, ConnInv, Conns
<1>3. cloop'[c] = "ended" /\ errc'[c] = "error" /\ kind[c] # None /\ called[c] \notin {"no", "ok"}
  BY <1>1, <1>2 DEF Typed, Client
<1>4. /\ s2c' \in [Conns -> Seq(Hears)] /\ \A d \in Conns \ {c} : s2c'[d] = s2c[d]
      /\ ToSet(s2c'[c]) \subseteq ToSet(s2c[c])
      /\ Lone(s2c[c], Replies) => Lone(s2c'[c], Replies)
  BY <1>2, ClientTook DEF Typed
<1>5. Typed'
  BY <1>1, <1>2, <1>4, StepsSame DEF Typed, serverVars
<1>6. ClientOnly(c)
  BY <1>1, <1>2, <1>4 DEF ClientOnly, ClientSame, Typed
<1>7. Client(c)' /\ ~Idle(c)'
  BY <1>1, <1>2, <1>3 DEF Client, serverVars, Idle
<1>8. QED
  BY <1>1, <1>2, <1>3, <1>4, <1>5, <1>6, <1>7, ClientGoesOn

LEMMA InvReadRespFails ==
  ASSUME Inv, NEW c \in OwnConns, readRespFails(c), UNCHANGED <<serverVars, asked>>
  PROVE  Inv'
BY InvErrs DEF readRespFails, Dialog

LEMMA InvReadUnauthorized ==
  ASSUME Inv, NEW c \in OwnConns, readUnauthorized(c), UNCHANGED <<serverVars, asked>>
  PROVE  Inv'
<1>1. CASE Errs(c)
  BY <1>1, InvErrs DEF readUnauthorized, Dialog
<1>2. CASE Turns(c, "write") /\ UNCHANGED errc
  <2>1. /\ cloop[c] = "await" /\ cloop' = [cloop EXCEPT ![c] = "write"] /\ ClientTakes(c, Response("401"))
        /\ UNCHANGED <<c2s, clientUp, serverUp, called, errc, kind, tcp, far, step, tries, cch,
                       csock, csetup, tick>>
    BY <1>2 DEF readUnauthorized, Turns, Dialog
  <2>2. Typed /\ Client(c) /\ Turn(c) /\ c \in Conns
    BY DEF Inv, ConnInv, Conns
  <2>3. cloop'[c] = "write" /\ kind[c] # None
    BY <2>1, <2>2 DEF Typed, Client
  <2>4. Response("401") \in Replies
    BY ReplyIs
  <2>5. /\ s2c' \in [Conns -> Seq(Hears)] /\ \A d \in Conns \ {c} : s2c'[d] = s2c[d]
        /\ ToSet(s2c'[c]) \subseteq ToSet(s2c[c]) /\ Response("401") \in ToSet(s2c[c])
        /\ Lone(s2c[c], Replies) => Lone(s2c'[c], Replies) /\ ToSet(s2c'[c]) \cap Replies = {}
    BY <2>1, <2>2, <2>4, ClientTook
  <2>6. NoAsk(c) /\ NoReply(c)' /\ sloop[c] # "play"
    <3>1. step[c] < Steps /\ ~NoReply(c)
      BY <2>1, <2>2, <2>4, <2>5 DEF Client, NoReply
    <3>2. QED
      BY <2>2, <2>5, <3>1 DEF Turn, NoReply
  <2>7. Typed'
    BY <2>1, <2>2, <2>5, StepsSame DEF Typed, serverVars
  <2>8. ClientOnly(c)
    BY <2>1, <2>2, <2>5 DEF ClientOnly, ClientSame, Typed
  <2>9. RequestAt(c)' = RequestAt(c) /\ OverUDP(RequestAt(c))' = OverUDP(RequestAt(c))
    BY <2>1, RequestSame DEF OverUDP
  <2>10. Client(c)'
    BY <2>1, <2>2, <2>3, <2>9, StepsSame DEF Client, serverVars
  <2>11. QED
    BY <2>1, <2>2, <2>3, <2>5, <2>6, <2>7, <2>8, <2>10, ClientGoesOn
<1>3. QED
  BY <1>1, <1>2 DEF readUnauthorized

LEMMA InvReadResp ==
  ASSUME Inv, NEW c \in OwnConns, readResp(c), UNCHANGED <<serverVars, asked>>
  PROVE  Inv'
<1> DEFINE r == RequestAt(c)
<1>1. PICK code \in {"200", "refused"} :
        /\ cloop[c] = "await" /\ ClientTakes(c, Response(code))
        /\ \/ Errs(c) /\ UNCHANGED <<step, tries, cch, csetup>>
           \/ /\ Answered(c) /\ tries' = [tries EXCEPT ![c] = 0]
              /\ OnSetupWithChannel(c, r) /\ OnSetupWithConn(c, r)
              /\ IF step[c] + 1 = Len(Script(kind[c]))
                 THEN errc' = [errc EXCEPT ![c] = "ok"] /\ Turns(c, "done")
                 ELSE UNCHANGED errc /\ Turns(c, "write")
  BY DEF readResp
<1>2. UNCHANGED <<c2s, udp, clientUp, serverUp, called, kind, tcp, far, csock, tick, sent>>
  BY DEF readResp, Dialog
<1>3. CASE Errs(c) /\ UNCHANGED <<step, tries, cch, csetup>>
  BY <1>1, <1>2, <1>3, InvErrs
<1>4. CASE /\ Answered(c) /\ tries' = [tries EXCEPT ![c] = 0]
           /\ OnSetupWithChannel(c, r) /\ OnSetupWithConn(c, r)
           /\ IF step[c] + 1 = Len(Script(kind[c]))
              THEN errc' = [errc EXCEPT ![c] = "ok"] /\ Turns(c, "done")
              ELSE UNCHANGED errc /\ Turns(c, "write")
  <2>1. Typed /\ Client(c) /\ c \in Conns
    BY DEF Inv, ConnInv, Conns
  <2>2. step[c] \in 0 .. Steps - 1 /\ kind[c] # None /\ Len(Script(kind[c])) = Steps
        /\ called[c] \notin {"no", "ok"} /\ errc[c] = None
    BY <1>1, <2>1, StepsSame, Scripts DEF Client, Typed
  <2>3. /\ step' \in [Conns -> 0 .. Steps] /\ step'[c] = step[c] + 1
        /\ \A d \in Conns \ {c} : step'[d] = step[d]
    BY <1>4, <2>1, <2>2, StepsSame DEF Answered, Typed
  <2>4. /\ cch' \in [Conns -> [Lines -> Int \cup {None}]] /\ \A d \in Conns \ {c} : cch'[d] = cch[d]
    BY <1>4, <2>1, <2>2, ChannelsSet
  <2>5. Response(code) \in Replies
    BY ReplyIs
  <2>6. s2c' \in [Conns -> Seq(Hears)] /\ \A d \in Conns \ {c} : s2c'[d] = s2c[d]
    BY <1>1, <2>1, <2>5, ClientTook
  <2>7. OverUDP(r) => r.of \in Media
    BY <2>1, <2>2, AskAtStep
  <2>8. csetup' = IF OverUDP(r) THEN [csetup EXCEPT ![c] = @ \cup {r.of}] ELSE csetup
    BY <1>4 DEF OnSetupWithConn
  <2>9. csock[c] \subseteq csetup[c] \cup (IF OverUDP(r) THEN {r.of} ELSE {})
    BY <1>1, <2>1 DEF Client
  <2> HIDE DEF r
  <2>10. /\ csetup' \in [OwnConns -> SUBSET Media] /\ \A d \in OwnConns \ {c} : csetup'[d] = csetup[d]
         /\ csock[c] \subseteq csetup'[c]
    BY <2>1, <2>7, <2>8, <2>9 DEF Typed
  <2>11. \/ step'[c] = Steps /\ errc' = [errc EXCEPT ![c] = "ok"] /\ cloop' = [cloop EXCEPT ![c] = "done"]
         \/ step'[c] < Steps /\ errc' = errc /\ cloop' = [cloop EXCEPT ![c] = "write"]
    BY <1>4, <2>2, <2>3, StepsSame DEF Turns
  <2>12. Typed'
    <3>1. tries' \in [OwnConns -> Nat]
      BY <1>4, <2>1 DEF Typed
    <3>2. /\ cloop' \in [OwnConns -> {"none", "dial", "write", "await", "done", "top", "reading", "ended"}]
          /\ errc' \in [OwnConns -> {None, "ok", "error"}]
      BY <2>1, <2>11 DEF Typed
    <3>3. step' \in [Conns -> 0 .. Steps']
      BY <2>3, StepsSame
    <3>4. QED
      BY <1>2, <2>1, <2>4, <2>6, <2>10, <3>1, <3>2, <3>3 DEF Typed, serverVars
  <2>13. ClientOnly(c)
    BY <1>2, <2>1, <2>3, <2>4, <2>6, <2>10, <2>11 DEF ClientOnly, ClientSame, Typed
  <2>14. Client(c)'
    <3>1. \/ cloop'[c] = "done" /\ errc'[c] = "ok" /\ step'[c] = Steps'
          \/ cloop'[c] = "write" /\ errc'[c] = None /\ step'[c] < Steps'
      BY <2>1, <2>2, <2>11, StepsSame DEF Typed
    <3>2. called'[c] \notin {"no", "ok"} /\ kind'[c] # None
      BY <1>2, <2>2
    <3>3. called'[c] = "waiting" => c \in clientUp'
      BY <1>1, <1>2, <2>1 DEF Client
    <3>4. csock'[c] \subseteq csetup'[c]
      BY <1>2, <2>10
    <3>5. QED
      BY <3>1, <3>2, <3>3, <3>4, StepsSame DEF Client
  <2>15. QED
    BY <1>1, <1>2, <1>4, <2>1, <2>2, <2>3, <2>5, <2>12, <2>13, <2>14, ClientHears DEF r
<1>5. QED
  BY <1>1, <1>3, <1>4

LEMMA InvTickerFires ==
  ASSUME Inv, NEW c \in OwnConns, TickerFires(c), UNCHANGED <<serverVars, asked>>
  PROVE  Inv'
<1>1. /\ cloop[c] \in {"top", "reading"} /\ c \in far /\ tick' = tick \cup {c}
      /\ UNCHANGED <<c2s, s2c, clientUp, serverUp, cloop, called, errc, kind, tcp, far, step, tries,
                     cch, csock, csetup>>
  BY DEF TickerFires, wireVars, Dialog
<1>2. Typed /\ c \in Conns
  BY DEF Inv, Conns
<1>3. Typed'
  BY <1>1, <1>2, StepsSame DEF Typed, serverVars
<1>4. \A d \in Conns : Same(d)
  BY <1>1, HeardSame DEF Same, ServerSame, ClientSame, serverVars
<1>5. QED
  BY <1>3, <1>4, SameKept DEF Inv

\* The read loop's own moves.
LEMMA InvLoop ==
  ASSUME Inv, NEW c \in OwnConns, UNCHANGED <<serverVars, asked>>,
         NEW l \in {"top", "reading", "ended"}, NEW k \in {"top", "reading"},
         cloop[c] = k, cloop' = [cloop EXCEPT ![c] = l],
         s2c' = s2c \/ \E m : ClientTakes(c, m),
         UNCHANGED <<c2s, clientUp, serverUp, called, errc, kind, tcp, far, step, tries, cch,
                     csock, csetup, tick>>
  PROVE  Inv'
<1>1. Typed /\ Client(c) /\ c \in Conns
  BY DEF Inv, ConnInv, Conns
<1>2. cloop'[c] = l /\ kind[c] # None /\ errc[c] = None /\ step[c] = Steps /\ called[c] # "no"
  BY <1>1 DEF Typed, Client
<1>3. /\ s2c' \in [Conns -> Seq(Hears)] /\ \A d \in Conns \ {c} : s2c'[d] = s2c[d]
      /\ ToSet(s2c'[c]) \subseteq ToSet(s2c[c])
      /\ Lone(s2c[c], Replies) => Lone(s2c'[c], Replies)
  BY <1>1, ClientTook DEF Typed
<1>4. Typed'
  BY <1>1, <1>3, StepsSame DEF Typed, serverVars
<1>5. ClientOnly(c)
  BY <1>1, <1>3 DEF ClientOnly, ClientSame, Typed
<1>6. Client(c)' /\ ~Idle(c)'
  BY <1>1, <1>2, StepsSame, WireAssumption DEF Client, serverVars, Idle
<1>7. QED
  BY <1>1, <1>2, <1>3, <1>4, <1>5, <1>6, ClientGoesOn

LEMMA InvReadLoop ==
  ASSUME Inv, NEW c \in OwnConns, UNCHANGED <<serverVars, asked>>,
         blocksInRead(c) \/ OnInterleavedPacket(c) \/ readLoopEnds(c)
  PROVE  Inv'
BY InvLoop DEF blocksInRead, OnInterleavedPacket, readLoopEnds, Turns, wireVars, Dialog

LEMMA InvKeepAlive ==
  ASSUME Inv, NEW c \in OwnConns, keepAlive(c), UNCHANGED <<serverVars, asked>>
  PROVE  Inv'
<1> DEFINE m == Plain("GET_PARAMETER")
<1>1. /\ cloop[c] = "top" /\ cloop' = [cloop EXCEPT ![c] = "reading"] /\ tick' = tick \ {c}
      /\ ClientWrites(c, m)
      /\ UNCHANGED <<s2c, clientUp, serverUp, called, errc, kind, tcp, far, step, tries, cch,
                     csock, csetup>>
  BY DEF keepAlive, Turns, Dialog, Plain
<1>2. Typed /\ Client(c) /\ Turn(c) /\ c \in Conns
  BY DEF Inv, ConnInv, Conns
<1>3. cloop'[c] = "reading" /\ kind[c] # None /\ errc[c] = None /\ step[c] = Steps /\ called[c] # "no"
  BY <1>1, <1>2 DEF Typed, Client
<1>4. m \in Others /\ m \notin Asks /\ m \notin Packets /\ m \in Says
  BY Apart DEF Others, Says
<1> HIDE DEF m
<1>5. NoAsk(c) /\ sloop[c] # "play"
  BY <1>2, <1>3, NotIdle
<1>6. /\ c2s' \in [Conns -> Seq(Says)] /\ \A d \in Conns \ {c} : c2s'[d] = c2s[d]
      /\ ToSet(c2s'[c]) \subseteq ToSet(c2s[c]) \cup {m}
      /\ Lone(c2s'[c], Asks)
  BY <1>1, <1>2, <1>4, <1>5, ClientAsked DEF NoAsk
<1>7. Typed'
  BY <1>1, <1>2, <1>6, StepsSame DEF Typed, serverVars
<1>8. ClientOnly(c)
  BY <1>1, <1>2, <1>6 DEF ClientOnly, ClientSame, Typed
<1>9. Client(c)' /\ ~Idle(c)'
  BY <1>1, <1>2, <1>3, StepsSame, WireAssumption DEF Client, serverVars, Idle
<1>10. Turn(c)'
  <2>1. sloop'[c] # "play" /\ step'[c] = Steps /\ NoAsk(c)'
    BY <1>1, <1>3, <1>4, <1>5, <1>6 DEF serverVars, NoAsk
  <2>2. QED
    BY <1>6, <1>9, <2>1, TurnDone
<1>11. Served(c, step[c] + 1)
  BY <1>2, <1>3, ServedAll
<1>12. ToSet(c2s'[c]) \cap Packets # {} => ToSet(c2s[c]) \cap Packets # {}
  BY <1>4, <1>6
<1>13. QED
  BY <1>1, <1>2, <1>3, <1>7, <1>8, <1>9, <1>10, <1>11, <1>12, ClientMoves

\* Media, of a client that has gone through its script.
LEMMA SentPackets ==
  ASSUME Inv, NEW c \in Conns, step[c] = Steps, NEW of \in Media,
         NEW ls \in Seq(Lines), Sends(c, ls)
  PROVE  /\ c2s' \in [Conns -> Seq(Says)] /\ \A d \in Conns \ {c} : c2s'[d] = c2s[d]
         /\ Lone(c2s'[c], Asks) /\ NoAsk(c)'
         /\ ToSet(c2s'[c]) \cap Packets # {} => ToSet(c2s[c]) \cap Packets # {} \/ c \in tcp
<1>1. Typed /\ Channels(c) /\ Turn(c) /\ NoAsk(c)
  BY NotIdle DEF Inv, ConnInv
<1>2. CASE c2s' = c2s
  BY <1>1, <1>2 DEF Typed, Turn, NoAsk
<1>3. CASE c \in tcp /\ ClientWritesAll(c, [i \in DOMAIN ls |-> Interleaved(cch[c][ls[i]], ls[i])])
  <2> DEFINE ms == [i \in DOMAIN ls |-> Interleaved(cch[c][ls[i]], ls[i])]
  <2>1. DOMAIN ls = 1 .. Len(ls) /\ Len(ls) \in Nat /\ \A i \in DOMAIN ls : ls[i] \in Lines
    BY LenProperties, ElementOfSeq
  <2>2. Steps \in {4, 5} /\ \A l \in Lines : At(l[1]) \in 2 .. Steps - 2
    BY Scripts, Ranges
  <2>3. \A l \in Lines : cch[c][l] = Chan(l)
    <3>1. \A l \in Lines : step[c] > At(l[1])
      BY <2>2
    <3>2. QED
      BY <1>1, <1>3, <3>1 DEF Channels
  <2>4. \A i \in DOMAIN ls : ms[i] \in Packets
    BY <2>1, <2>3, PacketIs
  <2>5. DOMAIN ms = 1 .. Len(ls)
    BY <2>1
  <2> HIDE DEF ms
  <2>6. ms \in [1 .. Len(ls) -> Packets]
    <3>1. ms = [i \in DOMAIN ls |-> ms[i]]
      BY DEF ms
    <3>2. QED
      BY <2>1, <2>4, <2>5, <3>1
  <2>7. ms \in Seq(Says) /\ ToSet(ms) \subseteq Packets
    BY <2>1, <2>4, <2>5, <2>6, SeqDef DEF Says, ToSet
  <2>8. ToSet(ms) \cap Asks = {}
    BY <2>7, Apart
  <2>9. ClientWritesAll(c, ms)
    BY <1>3 DEF ms
  <2>10. QED
    BY <1>1, <1>3, <2>7, <2>8, <2>9, ClientWrote DEF Turn, NoAsk
<1>4. QED
  BY <1>2, <1>3 DEF Sends

LEMMA InvSends ==
  ASSUME Inv, NEW c \in Conns, step[c] = Steps, kind[c] = "push", c \notin far,
         NEW of \in Media, NEW ls \in Seq(Lines), Sends(c, ls),
         UNCHANGED <<s2c, clientUp, serverUp, serverVars, cloop, called, errc, far, tries, csock,
                     csetup, tick, kind, tcp, step, cch, asked>>
  PROVE  Inv'
<1>1. Typed /\ ConnInv(c)
  BY DEF Inv
<1>2. /\ c2s' \in [Conns -> Seq(Says)] /\ \A d \in Conns \ {c} : c2s'[d] = c2s[d]
      /\ Lone(c2s'[c], Asks) /\ NoAsk(c)'
      /\ ToSet(c2s'[c]) \cap Packets # {} => ToSet(c2s[c]) \cap Packets # {} \/ c \in tcp
  BY SentPackets
<1>3. Typed'
  BY <1>1, <1>2, StepsSame DEF Typed, serverVars
<1>4. ClientOnly(c)
  BY <1>1, <1>2 DEF ClientOnly, ClientSame
<1>5. ClientSame(c) /\ sloop' = sloop
  BY DEF ClientSame, serverVars
<1>6. c \in OwnConns => Client(c)'
  BY <1>1, <1>5, ClientKept DEF ConnInv
<1>7. ~Idle(c) /\ sloop[c] # "play"
  BY NotIdle
<1>8. Turn(c)'
  <2>1. ~Idle(c)' /\ step'[c] = Steps /\ sloop'[c] # "play"
    BY <1>5, <1>7 DEF Idle
  <2>2. QED
    BY <1>2, <2>1, TurnDone
<1>9. Served(c, step[c] + 1)
  BY ServedAll
<1>10. kind[c] # None
  BY WireAssumption
<1>11. QED
  BY <1>2, <1>3, <1>4, <1>6, <1>8, <1>9, <1>10, ClientMoves

LEMMA InvWriteRTPPacket ==
  ASSUME Inv, NEW c \in OwnConns, WriteRTPPacket(c), UNCHANGED <<serverVars, asked>>
  PROVE  Inv'
<1>1. PICK of \in Media : Sends(c, <<<<of, "rtp">>>>)
  BY DEF WriteRTPPacket
<1>2. /\ kind[c] = "push" /\ called[c] = "ok" /\ c \notin far
      /\ UNCHANGED <<s2c, clientUp, serverUp, cloop, called, errc, far, tries, csock,
                     csetup, tick, kind, tcp, step, cch>>
  BY DEF WriteRTPPacket, Dialog
<1>3. c \in Conns /\ step[c] = Steps
  BY <1>2 DEF Inv, ConnInv, Client, Conns
<1>4. <<<<of, "rtp">>>> \in Seq(Lines)
  <2> DEFINE l == <<of, "rtp">>
  <2>1. l \in Lines
    BY Ranges
  <2> HIDE DEF l
  <2>2. <<l>> \in Seq(Lines)
    BY <2>1
  <2>3. QED
    BY <2>2 DEF l
<1>5. QED
  BY <1>1, <1>2, <1>3, <1>4, InvSends

LEMMA InvOwn ==
  ASSUME Inv, NEW c \in OwnConns, OwnNext(c)
  PROVE  Inv'
BY InvDo, InvDoReturns, InvDoTimesOut, InvWriteRTPPacket, InvClientDispose, InvConnectFails,
   InvConnect, InvWriteCmd, InvReadResp, InvReadUnauthorized, InvReadRespFails, InvTickerFires,
   InvKeepAlive, InvReadLoop
DEF OwnNext, ClientStep

----------------------------------------------------------------------------
(* Another server.                                                         *)

LEMMA FarStep ==
  ASSUME Inv, NEW c \in OwnConns, c \in far, UNCHANGED <<serverVars, clientVars, asked>> \/
           (UNCHANGED <<serverVars, cloop, called, errc, kind, tcp, far, step, tries, cch, csock,
                        csetup, tick, asked>>),
         clientUp' = clientUp, serverUp' \subseteq serverUp,
         \A d \in Conns \ {c} : d \in serverUp' <=> d \in serverUp,
         Fewer(c), s2c' \in [Conns -> Seq(Hears)], \A d \in Conns \ {c} : s2c'[d] = s2c[d],
         \A m \in ToSet(s2c'[c]) \cap Packets : m \in ToSet(s2c[c]) \/ cch[c][m.line] = m.ch,
         Turn(c)'
  PROVE  Inv'
<1>1. UNCHANGED <<sloop, pubS, subS, inCh, outCh, ssock, pub, subs>>
  BY DEF serverVars
<1>2. UNCHANGED <<cloop, called, errc, kind, tcp, far, step, tries, cch, csock, csetup, tick, asked>>
  BY DEF clientVars
<1>3. Typed /\ ConnInv(c) /\ c \in Conns /\ \A d : ClientSame(d)
  BY <1>2 DEF Inv, Conns, ClientSame
<1>4. Typed'
  BY <1>1, <1>2, <1>3, StepsSame DEF Typed, Fewer
<1>5. \A d \in Conns \ {c} : Same(d)
  BY <1>1, <1>3, HeardSame DEF Same, ServerSame, Fewer
<1>6. Client(c)'
  BY <1>1, <1>3, ClientKept DEF ConnInv
<1>7. Ends(c)' /\ Roles(c)'
  BY <1>1, <1>2, <1>3, StepsSame DEF ConnInv, Ends, Roles
<1>8. Served(c, step[c])' /\ Served(c, step[c] + 1)'
  BY <1>2 DEF Served
<1>9. Channels(c)'
  BY <1>1, <1>3, <1>8, ChannelsKept DEF ConnInv, Channels, Fewer
<1>10. QED
  BY <1>3, <1>4, <1>5, <1>6, <1>7, <1>9, InvFrom DEF ConnInv

LEMMA InvFarAnswers ==
  ASSUME Inv, NEW c \in OwnConns, FarAnswers(c)
  PROVE  Inv'
<1>1. PICK code \in {"200", "401", "refused"} : ServerWrites(c, Response(code))
  BY DEF FarAnswers
<1>2. /\ c \in far /\ c2s[c] # <<>> /\ c2s' = [c2s EXCEPT ![c] = Tail(@)]
      /\ UNCHANGED <<udp, clientUp, serverUp, serverVars, clientVars, asked>>
  BY DEF FarAnswers
<1>3. Typed /\ ConnInv(c) /\ c \in Conns /\ ClientSame(c) /\ sloop' = sloop
  BY <1>2, ClientsSame DEF Inv, Conns, serverVars
<1> DEFINE h == Head(c2s[c])
<1>4. /\ Fewer(c) /\ h \in ToSet(c2s[c]) /\ h \in Says
      /\ Lone(c2s[c], Asks) /\ h \in Asks => ToSet(c2s'[c]) \cap Asks = {}
  BY <1>2, <1>3, FewerTail
<1> HIDE DEF h
<1>5. Response(code) \in Hears /\ Response(code) \notin Packets
  BY ReplyIs DEF Hears
<1>6. /\ s2c' \in [Conns -> Seq(Hears)] /\ \A d \in Conns \ {c} : s2c'[d] = s2c[d]
      /\ ToSet(s2c'[c]) \subseteq ToSet(s2c[c]) \cup {Response(code)}
      /\ ToSet(s2c[c]) \cap Replies = {} => Lone(s2c'[c], Replies)
  BY <1>1, <1>3, <1>5, ServerWrote
<1>7. Turn(c)'
  <2>1. CASE h \in Asks
    <3>1. ~NoAsk(c) /\ NoReply(c) /\ step[c] < Steps /\ sloop[c] # "play" /\ ~Idle(c)
      BY <1>3, <1>4, <2>1 DEF ConnInv, Turn, NoAsk
    <3>2. NoAsk(c)' /\ ToSet(c2s'[c]) \cap Asks = {} /\ ToSet(c2s'[c]) \subseteq Asks
      BY <1>3, <1>4, <2>1, <3>1 DEF ConnInv, Turn, NoAsk, Fewer
    <3>3. Lone(s2c'[c], Replies) /\ Lone(c2s'[c], Asks)
      BY <1>3, <1>4, <1>6, <3>1 DEF NoReply, Fewer, ConnInv, Turn
    <3>4. ~Idle(c)' /\ sloop'[c] # "play"
      BY <1>3, <3>1 DEF Idle, ClientSame
    <3>5. QED
      BY <3>2, <3>3, <3>4 DEF Turn
  <2>2. CASE h \notin Asks
    <3>1. step[c] = Steps
      BY <1>3, <1>4, <2>2, AllAsked
    <3>2. sloop'[c] # "play"
      BY <1>3, <3>1, NotIdle
    <3>3. QED
      BY <1>3, <1>4, <3>1, <3>2, DoneKept
  <2>3. QED
    BY <2>1, <2>2
<1>8. QED
  BY <1>2, <1>4, <1>5, <1>6, <1>7, FarStep

LEMMA InvFarSends ==
  ASSUME Inv, NEW c \in OwnConns, FarSends(c)
  PROVE  Inv'
<1>1. PICK of \in Media : /\ cch[c][<<of, "rtp">>] # None
                          /\ ServerWrites(c, Interleaved(cch[c][<<of, "rtp">>], <<of, "rtp">>))
  BY DEF FarSends
<1>2. /\ c \in far /\ step[c] = Len(Script("pull"))
      /\ UNCHANGED <<c2s, udp, clientUp, serverUp, serverVars, cloop, called, errc, kind, tcp, far,
                     step, tries, cch, csock, csetup, tick, asked>>
  BY DEF FarSends, Dialog
<1>3. Typed /\ ConnInv(c) /\ c \in Conns /\ ClientSame(c) /\ sloop' = sloop /\ step[c] = Steps
  BY <1>2, Scripts DEF Inv, Conns, serverVars, ClientSame
<1> DEFINE p == Interleaved(cch[c][<<of, "rtp">>], <<of, "rtp">>)
<1>4. p \in Packets /\ p.line = <<of, "rtp">> /\ p.ch = cch[c][<<of, "rtp">>]
  <2>1. <<of, "rtp">> \in Lines
    BY Ranges
  <2>2. cch[c][<<of, "rtp">>] = Chan(<<of, "rtp">>)
    BY <1>1, <1>3, <2>1 DEF ConnInv, Channels
  <2>3. QED
    BY <2>1, <2>2, PacketIs DEF Interleaved
<1>5. ServerWrites(c, p)
  BY <1>1
<1> HIDE DEF p
<1>6. p \in Hears /\ p \notin Replies
  BY <1>4, Apart DEF Hears
<1>7. /\ s2c' \in [Conns -> Seq(Hears)] /\ \A d \in Conns \ {c} : s2c'[d] = s2c[d]
      /\ ToSet(s2c'[c]) \subseteq ToSet(s2c[c]) \cup {p}
  BY <1>3, <1>5, <1>6, ServerWrote
<1>8. Fewer(c)
  BY <1>2, <1>3, FewerSame
<1>9. Turn(c)'
  <2>1. sloop'[c] # "play"
    BY <1>3, NotIdle
  <2>2. QED
    BY <1>3, <1>8, <2>1, DoneKept
<1>10. \A m \in ToSet(s2c'[c]) \cap Packets : m \in ToSet(s2c[c]) \/ cch[c][m.line] = m.ch
  BY <1>4, <1>7
<1>11. QED
  BY <1>2, <1>7, <1>8, <1>9, <1>10, FarStep

LEMMA InvFarCloses ==
  ASSUME Inv, NEW c \in OwnConns, FarCloses(c)
  PROVE  Inv'
<1>1. /\ c \in far /\ serverUp' = serverUp \ {c}
      /\ UNCHANGED <<c2s, s2c, clientUp, serverVars, clientVars, asked>>
  BY DEF FarCloses
<1>2. Typed /\ c \in Conns /\ ClientSame(c) /\ sloop' = sloop
  BY <1>1, ClientsSame DEF Inv, Conns, serverVars
<1>3. Fewer(c) /\ s2c' \in [Conns -> Seq(Hears)]
  BY <1>1, <1>2, FewerSame DEF Typed
<1>4. Turn(c)'
  BY <1>1, <1>2, <1>3, TurnKept, HeardSame
<1>5. QED
  BY <1>1, <1>3, <1>4, FarStep

----------------------------------------------------------------------------
(* Another client.                                                         *)

\* Whoever waits for an answer has asked for one.
Asking == \A c \in asked : step[c] < Steps

LEMMA PeerIs ==
  ASSUME Inv, NEW c \in PeerConns
  PROVE  /\ c \in Conns /\ c \notin OwnConns /\ c \notin far /\ Typed /\ ConnInv(c)
         /\ c \in clientUp => kind[c] # None
BY WireAssumption DEF Inv, ConnInv, Ends, Conns, Typed

LEMMA InvPeerConnects ==
  ASSUME Inv, NEW c \in PeerConns, PeerConnects(c)
  PROVE  Inv'
<1>1. PICK k \in {"pull", "push"} : kind' = [kind EXCEPT ![c] = k]
  BY DEF PeerConnects
<1>2. /\ kind[c] = None /\ clientUp' = clientUp \cup {c} /\ serverUp' = serverUp \cup {c}
      /\ UNCHANGED <<c2s, s2c, serverVars, cloop, called, errc, far, tries, csock, csetup, tick,
                     tcp, step, cch, asked>>
  BY DEF PeerConnects, Untouched
<1>3. c \in Conns /\ c \notin OwnConns /\ Typed /\ ConnInv(c) /\ k # None
  BY PeerIs, WireAssumption
<1>4. kind'[c] = k /\ kind' \in [Conns -> {None, "pull", "push"}]
  BY <1>1, <1>3 DEF Typed
<1>5. Typed'
  BY <1>2, <1>3, <1>4, StepsSame DEF Typed, serverVars
<1>6. ClientOnly(c)
  BY <1>1, <1>2, <1>3 DEF ClientOnly, ClientSame, Typed
<1>7. Idle(c)
  BY <1>2, <1>3, StepsSame DEF ConnInv, Ends, Idle
<1>8. QED
  BY <1>2, <1>3, <1>4, <1>5, <1>6, <1>7, ClientBegins

LEMMA InvPeerAsks ==
  ASSUME Inv, OneRole, NEW c \in PeerConns, PeerAsks(c)
  PROVE  Inv'
<1>1. PICK r \in {RequestAt(c), Request("bad", None, None)} : ClientWrites(c, r)
  BY DEF PeerAsks
<1>2. /\ c \in clientUp \ asked /\ step[c] < Len(Script(kind[c])) /\ asked' = asked \cup {c}
      /\ UNCHANGED <<s2c, clientUp, serverUp, serverVars, cloop, called, errc, far, tries, csock,
                     csetup, tick, tcp, kind, step, cch>>
  BY DEF PeerAsks, Untouched
<1>3. c \in Conns /\ c \notin OwnConns /\ c \notin far /\ Typed /\ ConnInv(c) /\ kind[c] # None
  BY <1>2, PeerIs
<1>4. step[c] \in 0 .. Steps - 1
  BY <1>2, <1>3, Scripts DEF Typed
<1>5. r \in Asks /\ r \in {RequestAt(c), Bad}
  BY <1>1, <1>3, <1>4, AskAtStep DEF Asks, Bad, Plain
<1>6. NoAsk(c) /\ NoReply(c) /\ sloop[c] # "play" /\ ToSet(c2s[c]) \subseteq Asks
  <2>1. Idle(c) /\ step[c] < Steps
    BY <1>2, <1>3, <1>4, StepsSame DEF Idle
  <2>2. QED
    BY <1>3, <2>1 DEF ConnInv, Turn
<1>7. /\ c2s' \in [Conns -> Seq(Says)] /\ \A d \in Conns \ {c} : c2s'[d] = c2s[d]
      /\ ToSet(c2s'[c]) \subseteq ToSet(c2s[c]) \cup {r}
      /\ Lone(c2s'[c], Asks)
  BY <1>1, <1>3, <1>5, <1>6, ClientAsked DEF NoAsk, Says
<1>8. Typed'
  BY <1>2, <1>3, <1>7, StepsSame DEF Typed, serverVars
<1>9. ClientOnly(c)
  BY <1>2, <1>3, <1>7 DEF ClientOnly, ClientSame
<1>10. RequestAt(c)' = RequestAt(c)
  BY <1>2, RequestSame
<1>11. ToSet(c2s'[c]) \subseteq Asks /\ ToSet(c2s'[c]) \cap Asks \subseteq {RequestAt(c), Bad}
  BY <1>5, <1>6, <1>7 DEF NoAsk
<1>12. Turn(c)'
  <2>1. sloop' = sloop /\ Steps' = Steps /\ step'[c] < Steps /\ NoReply(c)' /\ ~Idle(c)'
    BY <1>2, <1>3, <1>4, <1>6, StepsSame DEF serverVars, NoReply, Idle
  <2>2. Lone(s2c'[c], Replies) /\ Bad' = Bad /\ Asks' = Asks
    BY <1>2, <1>3, <1>4, StepsSame DEF ConnInv, Turn
  <2>3. QED
    BY <1>6, <1>7, <1>10, <1>11, <2>1, <2>2 DEF Turn
<1>13. ToSet(c2s'[c]) \cap Packets = {} /\ NoReply(c)'
  BY <1>2, <1>6, <1>11, Apart DEF NoReply
<1>14. QED
  BY <1>2, <1>3, <1>8, <1>9, <1>12, <1>13, ClientMoves

LEMMA InvPeerHears ==
  ASSUME Inv, Asking, NEW c \in PeerConns, PeerHears(c)
  PROVE  Inv'
<1>1. UNCHANGED <<c2s, clientUp, serverUp, serverVars, cloop, called, errc, far, tries, csock,
                  csetup, tick, tcp, kind>>
  BY DEF PeerHears, Untouched
<1>2. PICK m : ClientTakes(c, m)
  BY DEF PeerHears
<1>3. c \in Conns /\ c \notin OwnConns /\ Typed /\ ConnInv(c) /\ kind[c] # None
  BY <1>2, PeerIs DEF ClientTakes
<1>4. /\ s2c' \in [Conns -> Seq(Hears)] /\ \A d \in Conns \ {c} : s2c'[d] = s2c[d]
      /\ ToSet(s2c'[c]) \subseteq ToSet(s2c[c])
      /\ Lone(s2c[c], Replies) => Lone(s2c'[c], Replies)
  BY <1>2, <1>3, ClientTook
<1>5. CASE UNCHANGED <<asked, step, cch>>
  <2>1. Typed'
    BY <1>1, <1>3, <1>4, <1>5, StepsSame DEF Typed, serverVars
  <2>2. ClientOnly(c)
    BY <1>1, <1>3, <1>4, <1>5 DEF ClientOnly, ClientSame
  <2>3. Idle(c)' <=> Idle(c)
    BY <1>1, <1>5, StepsSame DEF Idle
  <2>4. QED
    BY <1>1, <1>3, <1>4, <1>5, <2>1, <2>2, <2>3, ClientGoesOn
<1>6. CASE /\ ClientTakes(c, Response("200")) /\ c \in asked /\ asked' = asked \ {c}
           /\ Answered(c) /\ OnSetupWithChannel(c, RequestAt(c))
  <2>1. step[c] \in 0 .. Steps - 1
    BY <1>3, <1>6, StepsSame DEF Asking, Typed
  <2>2. /\ step' \in [Conns -> 0 .. Steps] /\ step'[c] = step[c] + 1
        /\ \A d \in Conns \ {c} : step'[d] = step[d]
    BY <1>3, <1>6, <2>1, StepsSame DEF Answered, Typed
  <2>3. /\ cch' \in [Conns -> [Lines -> Int \cup {None}]] /\ \A d \in Conns \ {c} : cch'[d] = cch[d]
    BY <1>3, <1>6, <2>1, ChannelsSet
  <2>4. step' \in [Conns -> 0 .. Steps']
    BY <2>2, StepsSame
  <2>5. Typed'
    BY <1>1, <1>3, <1>4, <1>6, <2>3, <2>4 DEF Typed, serverVars
  <2>6. ClientOnly(c)
    BY <1>1, <1>3, <1>4, <1>6, <2>2, <2>3 DEF ClientOnly, ClientSame
  <2>7. Response("200") \in Replies
    BY ReplyIs
  <2>8. QED
    BY <1>1, <1>3, <1>6, <2>1, <2>2, <2>5, <2>6, <2>7, ClientHears
<1>7. QED
  BY <1>5, <1>6 DEF PeerHears

LEMMA InvPeerSends ==
  ASSUME Inv, NEW c \in PeerConns, PeerSends(c)
  PROVE  Inv'
<1>1. PICK of \in Media : Sends(c, <<<<of, "rtp">>, <<of, "rtcp">>>>)
  BY DEF PeerSends
<1>2. /\ kind[c] = "push" /\ step[c] = Len(Script("push"))
      /\ UNCHANGED <<s2c, clientUp, serverUp, serverVars, cloop, called, errc, far, tries, csock,
                     csetup, tick, kind, tcp, step, cch, asked>>
  BY DEF PeerSends, Untouched
<1>3. c \in Conns /\ c \notin far /\ step[c] = Steps
  BY <1>2, PeerIs, Scripts
<1>4. <<<<of, "rtp">>, <<of, "rtcp">>>> \in Seq(Lines)
  <2> DEFINE l == <<of, "rtp">>
             k == <<of, "rtcp">>
  <2>1. l \in Lines /\ k \in Lines
    BY Ranges
  <2> HIDE DEF l, k
  <2>2. <<l, k>> \in Seq(Lines)
    BY <2>1
  <2>3. QED
    BY <2>2 DEF l, k
<1>5. QED
  BY <1>1, <1>2, <1>3, <1>4, InvSends

\* A request that is none of the script's.
LEMMA InvPeerTearsDown ==
  ASSUME Inv, NEW c \in PeerConns, PeerTearsDown(c)
  PROVE  Inv'
<1> DEFINE m == Plain("TEARDOWN")
<1>1. /\ c \in clientUp \ asked /\ step[c] = Len(Script(kind[c])) /\ ClientWrites(c, m)
      /\ UNCHANGED <<s2c, clientUp, serverUp, serverVars, cloop, called, errc, far, tries, csock,
                     csetup, tick, kind, tcp, step, cch, asked>>
  BY DEF PeerTearsDown, Untouched, Plain
<1>2. c \in Conns /\ c \notin OwnConns /\ Typed /\ Turn(c) /\ kind[c] # None /\ step[c] = Steps
  BY <1>1, PeerIs, Scripts DEF ConnInv
<1>3. m \in Others /\ m \notin Asks /\ m \notin Packets /\ m \in Says
  BY Apart DEF Others, Says
<1> HIDE DEF m
<1>4. NoAsk(c) /\ sloop[c] # "play" /\ ~Idle(c)
  BY <1>2, NotIdle
<1>5. /\ c2s' \in [Conns -> Seq(Says)] /\ \A d \in Conns \ {c} : c2s'[d] = c2s[d]
      /\ ToSet(c2s'[c]) \subseteq ToSet(c2s[c]) \cup {m}
      /\ Lone(c2s'[c], Asks)
  BY <1>1, <1>2, <1>3, <1>4, ClientAsked DEF NoAsk
<1>6. Typed'
  BY <1>1, <1>2, <1>5, StepsSame DEF Typed, serverVars
<1>7. ClientOnly(c)
  BY <1>1, <1>2, <1>5 DEF ClientOnly, ClientSame
<1>8. Turn(c)'
  <2>1. ~Idle(c)' /\ sloop'[c] # "play" /\ step'[c] = Steps /\ NoAsk(c)'
    BY <1>1, <1>2, <1>3, <1>4, <1>5, StepsSame DEF serverVars, NoAsk, Idle
  <2>2. QED
    BY <1>5, <2>1, TurnDone
<1>9. Served(c, step[c] + 1)
  BY <1>2, ServedAll
<1>10. ToSet(c2s'[c]) \cap Packets # {} => ToSet(c2s[c]) \cap Packets # {}
  BY <1>3, <1>5
<1>11. QED
  BY <1>1, <1>2, <1>6, <1>7, <1>8, <1>9, <1>10, ClientMoves

LEMMA InvPeerLeaves ==
  ASSUME Inv, NEW c \in PeerConns, PeerLeaves(c)
  PROVE  Inv'
<1>1. /\ c \in clientUp /\ ClientCloses(c)
      /\ UNCHANGED <<c2s, serverUp, serverVars, clientVars, asked>>
  BY DEF PeerLeaves
<1>2. c \in Conns /\ c \notin OwnConns /\ Typed /\ kind[c] # None
  BY <1>1, PeerIs
<1>3. /\ s2c' \in [Conns -> Seq(Hears)] /\ \A d \in Conns \ {c} : s2c'[d] = s2c[d]
      /\ ToSet(s2c'[c]) = {} /\ Lone(s2c'[c], Replies) /\ clientUp' = clientUp \ {c}
  BY <1>1, <1>2, ClientClosed
<1>4. Typed'
  BY <1>1, <1>2, <1>3, StepsSame DEF Typed, serverVars, clientVars
<1>5. ClientOnly(c)
  BY <1>1, <1>2, <1>3 DEF ClientOnly, ClientSame, clientVars
<1>6. Idle(c)' <=> Idle(c)
  BY <1>1, StepsSame DEF Idle, clientVars
<1>7. QED
  BY <1>1, <1>2, <1>3, <1>4, <1>5, <1>6, ClientGoesOn DEF clientVars

LEMMA InvLost ==
  ASSUME Inv, DatagramLost \/ UNCHANGED vars
  PROVE  Inv'
<1>1. UNCHANGED <<c2s, s2c, clientUp, serverUp, serverVars, clientVars, asked>>
  BY DEF DatagramLost, vars, wireVars
<1>2. Typed'
  BY <1>1, StepsSame DEF Inv, Typed, serverVars, clientVars
<1>3. \A d \in Conns : Same(d)
  BY <1>1, HeardSame DEF Same, ServerSame, ClientSame, serverVars, clientVars
<1>4. QED
  BY <1>2, <1>3, SameKept DEF Inv

LEMMA InvNext ==
  ASSUME Inv, Asking, OneRole, [Next]_vars
  PROVE  Inv'
<1>1. ASSUME NEW c \in OwnConns, FarNext(c) PROVE Inv'
  BY <1>1, InvFarAnswers, InvFarSends, InvFarCloses DEF FarNext
<1>2. ASSUME NEW c \in PeerConns, PeerNext(c) PROVE Inv'
  BY <1>2, InvPeerConnects, InvPeerAsks, InvPeerHears, InvPeerSends, InvPeerTearsDown, InvPeerLeaves
  DEF PeerNext
<1>3. QED
  BY <1>1, <1>2, InvServer, InvOwn, InvLost DEF Next

LEMMA AskingNext ==
  ASSUME Inv, Asking, OneRole, [Next]_vars
  PROVE  Asking'
<1>1. Typed
  BY DEF Inv
<1>2. CASE UNCHANGED <<step, asked>>
  BY <1>2, StepsSame DEF Asking
<1>3. ASSUME NEW c \in OwnConns, OwnNext(c) PROVE Asking'
  <2>1. asked' = asked /\ (step' = step \/ Answered(c))
    BY <1>3
    DEF OwnNext, Do, DoReturns, DoTimesOut, WriteRTPPacket, ClientDispose, ClientStep, connectFails,
        connect, writeCmd, readResp, readUnauthorized, readRespFails, TickerFires, keepAlive,
        blocksInRead, OnInterleavedPacket, readLoopEnds
  <2>2. \A d \in asked : d \in Conns \ {c}
    BY <1>1, WireAssumption DEF Typed, Conns
  <2>3. \A d \in asked : step'[d] = step[d]
    BY <1>1, <2>1, <2>2 DEF Answered, Typed
  <2>4. QED
    BY <2>1, <2>3, StepsSame DEF Asking
<1>4. ASSUME NEW c \in OwnConns, FarNext(c) PROVE Asking'
  <2>1. UNCHANGED <<step, asked>>
    BY <1>4 DEF FarNext, FarAnswers, FarSends, FarCloses, clientVars
  <2>2. QED
    BY <1>2, <2>1
<1>5. ASSUME NEW c \in Conns, ServerNext(c) PROVE Asking'
  <2>1. UNCHANGED <<step, asked>>
    BY <1>5 DEF ServerNext, Accept, clientVars
  <2>2. QED
    BY <1>2, <2>1
<1>6. ASSUME NEW c \in PeerConns, PeerNext(c) PROVE Asking'
  <2>1. CASE PeerAsks(c)
    <3>1. step' = step /\ asked' = asked \cup {c} /\ step[c] < Len(Script(kind[c]))
      BY <2>1 DEF PeerAsks
    <3>2. QED
      BY <3>1, Scripts, StepsSame DEF Asking
  <2>2. CASE PeerHears(c)
    <3>1. \/ UNCHANGED <<step, asked>>
          \/ asked' = asked \ {c} /\ Answered(c)
      BY <2>2 DEF PeerHears
    <3>2. CASE asked' = asked \ {c} /\ Answered(c)
      <4>1. \A d \in asked' : d \in asked /\ d \in Conns \ {c}
        BY <1>1, <3>2 DEF Typed, Conns
      <4>2. \A d \in asked' : d \in asked /\ step'[d] = step[d]
        BY <1>1, <3>2, <4>1 DEF Answered, Typed
      <4>3. QED
        BY <4>2, StepsSame DEF Asking
    <3>3. QED
      BY <1>2, <3>1, <3>2
  <2>3. CASE PeerConnects(c) \/ PeerSends(c) \/ PeerTearsDown(c) \/ PeerLeaves(c)
    <3>1. UNCHANGED <<step, asked>>
      BY <2>3 DEF PeerConnects, PeerSends, PeerTearsDown, PeerLeaves, clientVars
    <3>2. QED
      BY <1>2, <3>1
  <2>4. QED
    BY <1>6, <2>1, <2>2, <2>3 DEF PeerNext
<1>7. CASE DatagramLost \/ UNCHANGED vars
  <2>1. UNCHANGED <<step, asked>>
    BY <1>7 DEF DatagramLost, vars, clientVars
  <2>2. QED
    BY <1>2, <2>1
<1>8. QED
  BY <1>3, <1>4, <1>5, <1>6, <1>7 DEF Next

\* What is said on an interleaved channel is read for what it is.
LEMMA InvAgrees == Inv => ChannelsAgree
<1> SUFFICES ASSUME Inv, NEW c \in Conns
             PROVE  /\ \A p \in ToSet(s2c[c]) : p.is = "packet" => p.ch = cch[c][p.line]
                    /\ \A p \in ToSet(c2s[c]) : p.is = "packet" =>
                         /\ p.ch = inCh[c][p.line]
                         /\ p.line[2] = "rtcp" => \A of \in Media : p.ch # inCh[c][<<of, "rtp">>]
  BY DEF ChannelsAgree
<1>1. Channels(c) /\ s2c[c] \in Seq(Hears) /\ c2s[c] \in Seq(Says)
  BY DEF Inv, ConnInv, Typed
<1>2. \A S : \A q \in Seq(S) : ToSet(q) \subseteq S
  BY ElementOfSeq, LenProperties DEF ToSet
<1>3. ASSUME NEW p \in ToSet(s2c[c]), p.is = "packet" PROVE p.ch = cch[c][p.line]
  <2>1. p \in Packets
    BY <1>1, <1>2, <1>3, Messages DEF Hears
  <2>2. QED
    BY <1>1, <2>1 DEF Channels
<1>4. ASSUME NEW p \in ToSet(c2s[c]), p.is = "packet"
      PROVE  /\ p.ch = inCh[c][p.line]
             /\ p.line[2] = "rtcp" => \A of \in Media : p.ch # inCh[c][<<of, "rtp">>]
  <2>1. p \in Packets
    BY <1>1, <1>2, <1>4, Messages DEF Says
  <2>2. p.line \in Lines /\ p = Interleaved(Chan(p.line), p.line)
    BY <2>1, Messages
  <2>3. p.ch = Chan(p.line)
    BY <2>2 DEF Interleaved
  <2>4. \A l \in Lines : inCh[c][l] = Chan(l)
    BY <2>1, PacketRead
  <2>5. p.line[2] = "rtcp" => Chan(p.line) \in {1, 3}
    BY <2>2, Ranges
  <2>6. \A of \in Media : inCh[c][<<of, "rtp">>] \in {0, 2}
    BY <2>4, Ranges
  <2>7. p.ch = inCh[c][p.line]
    BY <2>2, <2>3, <2>4
  <2>8. p.line[2] = "rtcp" => p.ch \in {1, 3}
    BY <2>3, <2>5
  <2>9. QED
    BY <2>6, <2>7, <2>8
<1>5. QED
  BY <1>3, <1>4

\* RTSP's interleaved channels mean the same at both ends, for every set of connections,
\* media and transports: of what is under way from the server, each packet is on the
\* channel the client set up for its line; of what is under way to it, on the channel the
\* server's session has for it, and no RTCP is taken for RTP.
THEOREM ChannelsMeanTheSame ==
  ASSUME OneRole
  PROVE  Spec => []ChannelsAgree
<1>1. Init => Inv /\ Asking
  BY InvInit DEF Init, Asking
<1>2. Inv /\ Asking /\ [Next]_vars => Inv' /\ Asking'
  BY InvNext, AskingNext
<1>3. QED
  BY <1>1, <1>2, InvAgrees, PTL DEF Spec

----------------------------------------------------------------------------
(* Sockets.                                                                *)

AskSetups == UNION {{Request("SETUP", of, None), Request("SETUP", of, Pair(of))} : of \in Media}

\* A publisher with sockets on the server, or that asks for some, is known to the group.
Socks(c) ==
  kind[c] = "push" =>
    /\ ssock[c] # {} => pub = c
    /\ c \notin far /\ ToSet(c2s[c]) \cap AskSetups # {} => pub = c

SocksKept(d) ==
  /\ kind'[d] = kind[d] /\ ssock'[d] \subseteq ssock[d]
  /\ pub = d => pub' = d
  /\ d \in far => d \in far'
  /\ d \in far \/ ToSet(c2s'[d]) \cap AskSetups \subseteq ToSet(c2s[d])

LEMMA SocksStay ==
  ASSUME NEW d, Socks(d), SocksKept(d)
  PROVE  Socks(d)'
<1>1. AskSetups' = AskSetups
  BY DEF AskSetups, Pair, Chan, ChannelOf
<1>2. QED
  BY <1>1 DEF Socks, SocksKept

\* Of what is under way to it, the server only takes.
LEMMA ServerTakesOnly ==
  ASSUME Typed, NEW c \in Conns, ServerNext(c)
  PROVE  Fewer(c) /\ UNCHANGED <<kind, far>>
<1>1. \/ c2s' = c2s \/ c2s' = [c2s EXCEPT ![c] = <<>>] \/ \E m : ServerTakes(c, m)
  BY DEF ServerNext, Accept, ServerStep, LoopFails, handleOptions, handleAnnounce, handleDescribe,
     handleSetup, handlePlay, answerPlay, handleTeardown, HandleInterleavedPacket, onReadUDPPacket,
     handleTCPConnect, KickOutSession, Tick, ReadsPlain, Reads, wireVars
<1>2. UNCHANGED <<kind, far>>
  BY DEF ServerNext, Accept, clientVars
<1>3. QED
  BY <1>1, <1>2, FewerSame, FewerNone, ServerTook

LEMMA SocksServer ==
  ASSUME Inv, QuietWhenDropped, \A d \in Conns : Socks(d), NEW c \in Conns, ServerNext(c)
  PROVE  \A d \in Conns : Socks(d)'
<1>1. Typed /\ Fewer(c) /\ UNCHANGED <<kind, far>> /\ ConnInv(c)
  BY ServerTakesOnly DEF Inv
<1>2. \A d \in Conns : ToSet(c2s'[d]) \subseteq ToSet(c2s[d])
  BY <1>1 DEF Fewer
<1>3. ASSUME ssock' = ssock, pub' = pub \/ pub = None PROVE \A d \in Conns : Socks(d)'
  <2>1. \A d \in Conns : pub = d => pub' = d
    BY <1>3, WireAssumption
  <2>2. QED
    BY <1>1, <1>2, <1>3, <2>1, SocksStay DEF SocksKept
<1>4. ASSUME ssock' = [ssock EXCEPT ![c] = {}], pub = c, pub' \in {c, None},
             pub' = c \/ ToSet(c2s'[c]) = {}
      PROVE  \A d \in Conns : Socks(d)'
  <2>1. ASSUME NEW d \in Conns \ {c} PROVE Socks(d)'
    BY <1>1, <1>2, <1>4, <2>1, SocksStay DEF SocksKept, Typed
  <2>2. Socks(c)'
    BY <1>1, <1>4 DEF Socks, Typed
  <2>3. QED
    BY <2>1, <2>2
<1>5. CASE handleSetup(c)
  <2>1. PICK of \in Media, ch \in {None} \cup {<<2 * i, 2 * i + 1>> : i \in 0 .. 1} :
          /\ sloop[c] = "read" /\ ServerTakes(c, Request("SETUP", of, ch))
          /\ ssock' = IF ch = None THEN [ssock EXCEPT ![c] = @ \cup {of}] ELSE ssock
    BY <1>5 DEF handleSetup, Reads
  <2>2. pub' = pub
    BY <1>5 DEF handleSetup, Stream
  <2> DEFINE m == Request("SETUP", of, ch)
  <2>3. m \in ToSet(c2s[c]) /\ m \in Says
    BY <1>1, <2>1, ServerTook
  <2>4. m \in AskSetups
    BY <2>3, AskIs DEF AskSetups
  <2> HIDE DEF m
  <2>5. c \notin far
    BY <1>1, <2>1 DEF ConnInv, Ends
  <2>6. kind[c] = "push" => pub = c
    BY <2>3, <2>4, <2>5 DEF Socks
  <2>7. Socks(c)'
    BY <1>1, <2>2, <2>6 DEF Socks
  <2>8. ASSUME NEW d \in Conns \ {c} PROVE Socks(d)'
    BY <1>1, <1>2, <2>1, <2>2, <2>8, SocksStay DEF SocksKept, Typed
  <2>9. QED
    BY <2>7, <2>8
<1>6. CASE handleTCPConnect(c)
  <2>1. /\ \/ c = pub /\ pub' = None /\ ssock' = [ssock EXCEPT ![c] = {}]
           \/ c # pub /\ UNCHANGED <<pub, ssock>>
        /\ c2s' = [c2s EXCEPT ![c] = <<>>]
    BY <1>6 DEF handleTCPConnect
  <2>2. ToSet(c2s'[c]) = {}
    BY <1>1, <2>1, FewerNone
  <2>3. QED
    BY <1>3, <1>4, <2>1, <2>2
<1>7. CASE KickOutSession(c)
  BY <1>4, <1>7 DEF KickOutSession, DisposeOfPub, Stream
<1>8. CASE Tick(c)
  <2>1. c2s'[c] = <<>>
    BY <1>8 DEF Tick
  <2>2. ToSet(c2s'[c]) = {}
    BY <2>1, NothingSaid
  <2>3. QED
    BY <1>4, <1>8, <2>2 DEF Tick, DisposeOfPub
<1>9. CASE /\ ServerNext(c)
           /\ ~(handleSetup(c) \/ handleTCPConnect(c) \/ KickOutSession(c) \/ Tick(c))
  <2>1. ssock' = ssock /\ (pub' = pub \/ pub = None)
    BY <1>9 DEF ServerNext, Accept, ServerStep, LoopFails, handleOptions, handleAnnounce,
         handleDescribe, handlePlay, answerPlay, handleTeardown, HandleInterleavedPacket,
         onReadUDPPacket, serverVars, Sockets, Stream
  <2>2. QED
    BY <1>3, <2>1
<1>10. QED
  BY <1>5, <1>6, <1>7, <1>8, <1>9

\* A client asks for sockets only after its ANNOUNCE was taken.
LEMMA SocksAsked ==
  ASSUME Inv, \A d \in Conns : Socks(d), NEW c \in Conns, UNCHANGED serverVars,
         UNCHANGED <<kind, far, step, serverUp>>, step[c] \in 0 .. Steps - 1,
         NEW r \in {RequestAt(c), Bad}, ClientWrites(c, r)
  PROVE  \A d \in Conns : Socks(d)'
<1>1. Typed /\ Channels(c) /\ pub' = pub /\ ssock' = ssock
  BY DEF Inv, ConnInv, serverVars
<1>2. r \in Says /\ r \in Asks
  BY AskAtStep DEF Says, Asks, Bad
<1>3. /\ \A d \in Conns \ {c} : c2s'[d] = c2s[d]
      /\ ToSet(c2s'[c]) \subseteq ToSet(c2s[c]) \cup {r}
      /\ c \notin serverUp => c2s'[c] = c2s[c]
  BY <1>1, <1>2, ClientAsked
<1>4. ASSUME NEW d \in Conns \ {c} PROVE Socks(d)'
  BY <1>1, <1>3, <1>4, SocksStay DEF SocksKept
<1>5. CASE c \notin serverUp \/ r \notin AskSetups
  <2>1. ToSet(c2s'[c]) \cap AskSetups \subseteq ToSet(c2s[c])
    BY <1>3, <1>5
  <2>2. QED
    BY <1>1, <1>4, <2>1, SocksStay DEF SocksKept
<1>6. CASE c \in serverUp /\ r \in AskSetups
  <2>1. r.method = "SETUP"
    BY <1>6 DEF AskSetups, Request
  <2>2. step[c] >= 2
    <3>1. \A x : Plain(x).method = x
      BY DEF Plain, Request
    <3>2. PICK of \in Media : step[c] = At(of)
      BY <2>1, <3>1, Requests DEF Bad
    <3>3. QED
      BY <3>2, Ranges
  <2>3. kind[c] = "push" /\ c \notin far => pub = c
    BY <1>1, <1>6, <2>2 DEF Channels, Served
  <2>4. Socks(c)'
    BY <1>1, <2>3 DEF Socks
  <2>5. QED
    BY <1>4, <2>4
<1>7. QED
  BY <1>5, <1>6

\* Of the client's other steps none asks.
LEMMA SocksClient ==
  ASSUME Inv, \A d \in Conns : Socks(d), NEW c \in Conns, UNCHANGED serverVars, kind' = kind,
         \A d \in far : d \in far',
         \A d \in Conns \ {c} : c2s'[d] = c2s[d],
         c \in far \/ NoAsk(c)' \/ c2s' = c2s
  PROVE  \A d \in Conns : Socks(d)'
<1>1. Asks' = Asks /\ AskSetups \subseteq Asks
  BY DEF Asks, AskSetups, Plain, Pair, Chan, ChannelOf
<1>2. c \in far \/ ToSet(c2s'[c]) \cap AskSetups \subseteq ToSet(c2s[c])
  BY <1>1 DEF NoAsk
<1>3. \A d \in Conns : SocksKept(d)
  BY <1>2 DEF SocksKept, serverVars
<1>4. QED
  BY <1>3, SocksStay

\* A session begins with nothing.
LEMMA SocksBegin ==
  ASSUME Inv, \A d \in Conns : Socks(d), NEW c \in Conns, UNCHANGED serverVars, UNCHANGED <<far, c2s>>,
         kind[c] = None, Idle(c), NEW k, kind' = [kind EXCEPT ![c] = k]
  PROVE  \A d \in Conns : Socks(d)'
<1>1. Typed /\ ConnInv(c) /\ pub' = pub /\ ssock' = ssock
  BY DEF Inv, serverVars
<1>2. ssock[c] = {} /\ ToSet(c2s[c]) = {}
  BY <1>1, NothingYet DEF ConnInv, Ends
<1>3. Socks(c)'
  BY <1>1, <1>2 DEF Socks
<1>4. ASSUME NEW d \in Conns \ {c} PROVE Socks(d)'
  BY <1>1, <1>4, SocksStay DEF SocksKept, Typed
<1>5. QED
  BY <1>3, <1>4

LEMMA OtherWritten ==
  ASSUME Inv, NEW c \in Conns, step[c] = Steps, NEW m \in Others, ClientWrites(c, m)
  PROVE  NoAsk(c)' /\ \A d \in Conns \ {c} : c2s'[d] = c2s[d]
<1>1. m \in Says /\ m \notin Asks /\ Typed /\ NoAsk(c)
  BY Apart, NotIdle DEF Says, Inv
<1>2. /\ ToSet(c2s'[c]) \subseteq ToSet(c2s[c]) \cup {m}
      /\ \A d \in Conns \ {c} : c2s'[d] = c2s[d]
  BY <1>1, ClientAsked
<1>3. Asks' = Asks
  BY DEF Asks, Plain, Pair, Chan, ChannelOf
<1>4. QED
  BY <1>1, <1>2, <1>3 DEF NoAsk

LEMMA SocksOwn ==
  ASSUME Inv, \A d \in Conns : Socks(d), NEW c \in OwnConns, OwnNext(c)
  PROVE  \A d \in Conns : Socks(d)'
<1>1. c \in Conns /\ Typed /\ Client(c) /\ UNCHANGED serverVars
  BY DEF Conns, Inv, ConnInv, OwnNext
<1>2. CASE Do(c)
  <2>1. PICK k : kind' = [kind EXCEPT ![c] = k]
    BY <1>2 DEF Do
  <2>2. UNCHANGED <<far, c2s>> /\ kind[c] = None /\ Idle(c)
    BY <1>1, <1>2 DEF Do, wireVars, Client, Idle
  <2>3. QED
    BY <1>1, <2>1, <2>2, SocksBegin
<1>3. CASE writeCmd(c)
  <2>1. UNCHANGED <<kind, far, step, serverUp>> /\ ClientWrites(c, RequestAt(c)) /\ cloop[c] = "write"
    BY <1>3 DEF writeCmd, Dialog
  <2>2. step[c] \in 0 .. Steps - 1
    BY <1>1, <2>1, StepsSame DEF Client, Typed
  <2>3. QED
    BY <1>1, <2>1, <2>2, SocksAsked
<1>4. CASE keepAlive(c)
  <2>1. UNCHANGED <<kind, far>> /\ ClientWrites(c, Plain("GET_PARAMETER")) /\ cloop[c] = "top"
    BY <1>4 DEF keepAlive, Dialog, Plain
  <2>2. step[c] = Steps
    BY <1>1, <2>1 DEF Client
  <2>3. Plain("GET_PARAMETER") \in Others
    BY DEF Others
  <2>4. QED
    BY <1>1, <2>1, <2>2, <2>3, OtherWritten, SocksClient
<1>5. CASE WriteRTPPacket(c)
  <2>1. PICK of \in Media : Sends(c, <<<<of, "rtp">>>>)
    BY <1>5 DEF WriteRTPPacket
  <2>2. step[c] = Steps /\ UNCHANGED <<kind, far>>
    BY <1>1, <1>5 DEF WriteRTPPacket, Client, Dialog
  <2> DEFINE l == <<of, "rtp">>
             q == <<l>>
  <2>3. l \in Lines
    BY Ranges
  <2> HIDE DEF l
  <2>4. q \in Seq(Lines)
    BY <2>3
  <2>5. Sends(c, q)
    BY <2>1 DEF l
  <2> HIDE DEF q
  <2>6. NoAsk(c)' /\ \A d \in Conns \ {c} : c2s'[d] = c2s[d]
    BY <1>1, <2>2, <2>4, <2>5, SentPackets
  <2>7. QED
    BY <1>1, <2>2, <2>6, SocksClient
<1>6. CASE /\ UNCHANGED <<c2s, kind>> /\ far \subseteq far'
  BY <1>1, <1>6, SocksClient
<1>7. CASE DoReturns(c) \/ DoTimesOut(c) \/ ClientDispose(c) \/ connectFails(c) \/ connect(c)
  BY <1>6, <1>7 DEF DoReturns, DoTimesOut, ClientDispose, connectFails, connect, wireVars, Dialog
<1>8. CASE \/ readResp(c) \/ readUnauthorized(c) \/ readRespFails(c) \/ TickerFires(c)
           \/ blocksInRead(c) \/ OnInterleavedPacket(c) \/ readLoopEnds(c)
  BY <1>6, <1>8 DEF readResp, readUnauthorized, readRespFails, TickerFires, blocksInRead,
     OnInterleavedPacket, readLoopEnds, wireVars, Dialog
<1>9. QED
  BY <1>2, <1>3, <1>4, <1>5, <1>7, <1>8 DEF OwnNext, ClientStep

LEMMA SocksFar ==
  ASSUME Inv, \A d \in Conns : Socks(d), NEW c \in OwnConns, FarNext(c)
  PROVE  \A d \in Conns : Socks(d)'
<1>1. c \in Conns /\ Typed /\ c \in far
  BY DEF Conns, Inv, FarNext, FarAnswers, FarSends, FarCloses
<1>2. UNCHANGED serverVars /\ UNCHANGED <<kind, far>>
  BY DEF FarNext, FarAnswers, FarSends, FarCloses, clientVars, Dialog
<1>3. c2s' = c2s \/ c2s' = [c2s EXCEPT ![c] = Tail(@)]
  BY DEF FarNext, FarAnswers, FarSends, FarCloses
<1>4. \A d \in Conns \ {c} : c2s'[d] = c2s[d]
  BY <1>1, <1>3 DEF Typed
<1>5. QED
  BY <1>1, <1>2, <1>4, SocksClient

LEMMA SocksPeer ==
  ASSUME Inv, OneRole, \A d \in Conns : Socks(d), NEW c \in PeerConns, PeerNext(c)
  PROVE  \A d \in Conns : Socks(d)'
<1>1. c \in Conns /\ c \notin OwnConns /\ Typed /\ ConnInv(c)
  BY PeerIs
<1>2. UNCHANGED serverVars /\ far' = far
  BY DEF PeerNext, PeerConnects, PeerAsks, PeerHears, PeerSends, PeerTearsDown, PeerLeaves, Untouched,
     clientVars
<1>3. CASE PeerConnects(c)
  <2>1. PICK k : kind' = [kind EXCEPT ![c] = k]
    BY <1>3 DEF PeerConnects
  <2>2. c2s' = c2s /\ kind[c] = None
    BY <1>3 DEF PeerConnects
  <2>3. Idle(c)
    BY <1>1, <2>2, StepsSame DEF ConnInv, Ends, Idle
  <2>4. QED
    BY <1>1, <1>2, <2>1, <2>2, <2>3, SocksBegin
<1>4. CASE PeerAsks(c)
  <2>1. PICK r \in {RequestAt(c), Request("bad", None, None)} : ClientWrites(c, r)
    BY <1>4 DEF PeerAsks
  <2>2. UNCHANGED <<kind, step, serverUp>> /\ step[c] < Len(Script(kind[c]))
    BY <1>4 DEF PeerAsks
  <2>3. step[c] \in 0 .. Steps - 1
    BY <1>1, <2>2, Scripts DEF Typed
  <2>4. r \in {RequestAt(c), Bad}
    BY <2>1 DEF Bad, Plain
  <2>5. QED
    BY <1>1, <1>2, <2>1, <2>2, <2>3, <2>4, SocksAsked
<1>5. CASE PeerSends(c)
  <2>1. PICK of \in Media : Sends(c, <<<<of, "rtp">>, <<of, "rtcp">>>>)
    BY <1>5 DEF PeerSends
  <2>2. step[c] = Steps /\ kind' = kind
    BY <1>5, Scripts DEF PeerSends
  <2> DEFINE l == <<of, "rtp">>
             k == <<of, "rtcp">>
             q == <<l, k>>
  <2>3. l \in Lines /\ k \in Lines
    BY Ranges
  <2> HIDE DEF l, k
  <2>4. q \in Seq(Lines)
    BY <2>3
  <2>5. Sends(c, q)
    BY <2>1 DEF l, k
  <2> HIDE DEF q
  <2>6. NoAsk(c)' /\ \A d \in Conns \ {c} : c2s'[d] = c2s[d]
    BY <1>1, <2>2, <2>4, <2>5, SentPackets
  <2>7. QED
    BY <1>1, <1>2, <2>2, <2>6, SocksClient
<1>6. CASE PeerTearsDown(c)
  <2>1. kind' = kind /\ ClientWrites(c, Plain("TEARDOWN")) /\ step[c] = Steps
    BY <1>6, Scripts DEF PeerTearsDown, Plain
  <2>2. Plain("TEARDOWN") \in Others
    BY DEF Others
  <2>3. QED
    BY <1>1, <1>2, <2>1, <2>2, OtherWritten, SocksClient
<1>7. CASE PeerHears(c) \/ PeerLeaves(c)
  <2>1. UNCHANGED <<c2s, kind>>
    BY <1>7 DEF PeerHears, PeerLeaves, clientVars
  <2>2. QED
    BY <1>1, <1>2, <2>1, SocksClient
<1>8. QED
  BY <1>3, <1>4, <1>5, <1>6, <1>7 DEF PeerNext

LEMMA SocksNext ==
  ASSUME Inv, OneRole, QuietWhenDropped, \A d \in Conns : Socks(d), [Next]_vars
  PROVE  \A d \in Conns : Socks(d)'
<1>1. CASE DatagramLost \/ UNCHANGED vars
  <2>1. UNCHANGED <<c2s, serverVars, kind, far>>
    BY <1>1 DEF DatagramLost, vars, wireVars, clientVars
  <2>2. \A d \in Conns : SocksKept(d)
    BY <2>1 DEF SocksKept, serverVars
  <2>3. QED
    BY <2>2, SocksStay
<1>2. QED
  BY <1>1, SocksServer, SocksOwn, SocksFar, SocksPeer DEF Next

LEMMA SocksInit == Init => \A d \in Conns : Socks(d)
BY WireAssumption DEF Init, ClientInit, Socks

\* A connection that is done holds no role, for no step makes it one again; a publisher's
\* sockets are its as long as the group knows it; a session's own go with its Dispose.
LEMMA InvReleased == Inv /\ (\A d \in Conns : Socks(d)) => SessionsReleased
<1> SUFFICES ASSUME Inv, \A d \in Conns : Socks(d) PROVE SessionsReleased
  OBVIOUS
<1>1. Typed /\ \A c \in Conns : Roles(c)
  BY DEF Inv, ConnInv
<1>2. RolesReleased
  BY <1>1 DEF RolesReleased, Typed, Roles
<1>3. ASSUME NEW c \in Conns, sloop[c] = "done", kind[c] = "push" PROVE ssock[c] = {}
  BY <1>1, <1>3 DEF Socks, Roles
<1>4. ASSUME NEW c \in OwnConns, called[c] = "ok", c \notin clientUp PROVE csock[c] = {}
  BY <1>4 DEF Inv, ConnInv, Client, Conns
<1>5. QED
  BY <1>2, <1>3, <1>4 DEF SessionsReleased, SocketsReleased

\* Whatever refusals, kicks, drops and closed connections came between, a connection whose
\* goroutines are done leaves no role in the group and no open socket, for every set of
\* connections and media: given clients of one role, and publishers dropped for silence
\* with no command under way.
THEOREM NothingLeftBehind ==
  ASSUME OneRole, QuietWhenDropped
  PROVE  Spec => []SessionsReleased
<1> DEFINE J == Inv /\ Asking /\ \A d \in Conns : Socks(d)
<1>1. Init => J
  BY InvInit, SocksInit DEF Init, Asking
<1>2. J /\ [Next]_vars => J'
  BY InvNext, AskingNext, SocksNext
<1>3. J => SessionsReleased
  BY InvReleased
<1> HIDE DEF J
<1>4. QED
  BY <1>1, <1>2, <1>3, PTL DEF Spec

\* The roles alone need nothing of the ticker: the group forgets each publisher and player
\* whose connection's goroutine has ended, for every client of one role.
THEOREM RolesForgotten ==
  ASSUME OneRole
  PROVE  Spec => []RolesReleased
<1>1. Init => Inv /\ Asking
  BY InvInit DEF Init, Asking
<1>2. Inv /\ Asking /\ [Next]_vars => Inv' /\ Asking'
  BY InvNext, AskingNext
<1>3. Inv => RolesReleased
  BY DEF Inv, ConnInv, RolesReleased, Typed, Roles
<1>4. QED
  BY <1>1, <1>2, <1>3, PTL DEF Spec
=============================================================================
