------------------------- MODULE RtmpSessionProofs -------------------------
(* Proofs about RtmpSession, for every set of connections and every bound. *)
EXTENDS RtmpSession, SequenceTheorems, TLAPS

Said(q) == {q[i] : i \in DOMAIN q}

----------------------------------------------------------------------------
(* Sequences of messages.                                                  *)

\* What a single write can be, and what it says.
LEMMA One ==
  ASSUME NEW S, NEW x \in S
  PROVE  <<x>> \in Seq(S) /\ Said(<<x>>) = {x}
BY DEF Said

LEMMA Two ==
  ASSUME NEW S, NEW x \in S, NEW y \in S
  PROVE  <<x, y>> \in Seq(S) /\ Said(<<x, y>>) = {x, y}
BY DEF Said

LEMMA Three ==
  ASSUME NEW S, NEW x \in S, NEW y \in S, NEW z \in S
  PROVE  <<x, y, z>> \in Seq(S) /\ Said(<<x, y, z>>) = {x, y, z}
BY DEF Said

LEMMA SaidConcat ==
  ASSUME NEW S, NEW p \in Seq(S), NEW q \in Seq(S)
  PROVE  p \o q \in Seq(S) /\ Said(p \o q) = Said(p) \cup Said(q)
<1>1. p \o q \in Seq(S) /\ Range(p \o q) = Range(p) \cup Range(q)
  BY ConcatProperties, RangeConcatenation
<1>2. QED
  BY <1>1 DEF Said, Range

LEMMA SaidPart ==
  ASSUME NEW S, NEW q \in Seq(S), NEW m \in Nat \ {0}, NEW n \in 0 .. Len(q)
  PROVE  SubSeq(q, m, n) \in Seq(S) /\ Said(SubSeq(q, m, n)) \subseteq Said(q)
<1>1. q \in [1 .. Len(q) -> S] /\ Len(q) \in Nat /\ DOMAIN q = 1 .. Len(q)
  BY LenProperties
<1>2. \A i \in m .. n : i \in DOMAIN q /\ q[i] \in S
  BY <1>1
<1>3. /\ SubSeq(q, m, n) \in Seq(S)
      /\ Len(SubSeq(q, m, n)) = IF m <= n THEN n - m + 1 ELSE 0
      /\ \A i \in 1 .. n - m + 1 : SubSeq(q, m, n)[i] = q[m + i - 1]
  BY <1>2, SubSeqProperties
<1>4. DOMAIN SubSeq(q, m, n) = 1 .. Len(SubSeq(q, m, n))
  BY <1>3, LenProperties
<1>5. \A i \in DOMAIN SubSeq(q, m, n) : m + i - 1 \in DOMAIN q /\ SubSeq(q, m, n)[i] = q[m + i - 1]
  BY <1>1, <1>3, <1>4
<1>6. QED
  BY <1>3, <1>5 DEF Said

LEMMA SaidTail ==
  ASSUME NEW S, NEW q \in Seq(S), q # <<>>
  PROVE  /\ Tail(q) \in Seq(S) /\ Head(q) \in Said(q) /\ Said(Tail(q)) \subseteq Said(q)
         /\ Said(q) \subseteq Said(Tail(q)) \cup {Head(q)}
<1>1. /\ q \in [1 .. Len(q) -> S] /\ Len(q) \in Nat \ {0} /\ DOMAIN q = 1 .. Len(q)
      /\ Head(q) = q[1] /\ Tail(q) \in Seq(S) /\ Len(Tail(q)) = Len(q) - 1
      /\ \A i \in 1 .. Len(Tail(q)) : Tail(q)[i] = q[i + 1]
  BY LenProperties, EmptySeq, HeadTailProperties
<1>2. DOMAIN Tail(q) = 1 .. Len(q) - 1
  BY <1>1, LenProperties
<1>3. \A i \in DOMAIN Tail(q) : i + 1 \in DOMAIN q /\ Tail(q)[i] = q[i + 1]
  BY <1>1, <1>2
<1>4. \A i \in DOMAIN q : i = 1 \/ (i - 1 \in DOMAIN Tail(q) /\ Tail(q)[i - 1] = q[i])
  BY <1>1, <1>2
<1>5. QED
  BY <1>1, <1>3, <1>4 DEF Said

\* No media ahead of the first status.
Answered(q) ==
  \A i \in DOMAIN q : q[i] = "av" => \E j \in 1 .. i - 1 : q[j] = "status"

LEMMA AnsweredConcat ==
  ASSUME NEW S, NEW p \in Seq(S), NEW q \in Seq(S), Answered(p),
         "av" \notin Said(q) \/ "status" \in Said(p)
  PROVE  Answered(p \o q)
<1>1. /\ p \o q \in Seq(S) /\ Len(p) \in Nat /\ Len(q) \in Nat
      /\ DOMAIN p = 1 .. Len(p) /\ DOMAIN q = 1 .. Len(q)
  BY ConcatProperties, LenProperties
<1>2. /\ DOMAIN (p \o q) = 1 .. Len(p) + Len(q)
      /\ \A i \in 1 .. Len(p) : (p \o q)[i] = p[i]
      /\ \A i \in DOMAIN (p \o q) : i \notin 1 .. Len(p) =>
           (p \o q)[i] = q[i - Len(p)] /\ i - Len(p) \in DOMAIN q
  BY <1>1, ConcatProperties, LenProperties
<1>3. ASSUME NEW i \in DOMAIN (p \o q), (p \o q)[i] = "av"
      PROVE  \E j \in 1 .. i - 1 : (p \o q)[j] = "status"
  <2>1. CASE i \in 1 .. Len(p)
    <3>1. PICK j \in 1 .. i - 1 : p[j] = "status"
      BY <1>1, <1>2, <1>3, <2>1 DEF Answered
    <3>2. j \in 1 .. Len(p)
      BY <1>1, <2>1
    <3>3. QED
      BY <1>2, <3>1, <3>2
  <2>2. CASE i \notin 1 .. Len(p)
    <3>1. "av" \in Said(q)
      BY <1>2, <1>3, <2>2 DEF Said
    <3>2. PICK j \in 1 .. Len(p) : p[j] = "status"
      BY <1>1, <3>1 DEF Said
    <3>3. j \in 1 .. i - 1
      BY <1>1, <1>2, <2>2
    <3>4. QED
      BY <1>2, <3>2, <3>3
  <2>3. QED
    BY <2>1, <2>2
<1>4. QED
  BY <1>3 DEF Answered

LEMMA AnsweredTail ==
  ASSUME NEW S, NEW q \in Seq(S), q # <<>>, Head(q) # "status", Answered(q)
  PROVE  Answered(Tail(q))
<1>1. /\ q \in [1 .. Len(q) -> S] /\ Len(q) \in Nat \ {0} /\ DOMAIN q = 1 .. Len(q)
      /\ Head(q) = q[1] /\ Tail(q) \in Seq(S) /\ Len(Tail(q)) = Len(q) - 1
      /\ \A i \in 1 .. Len(Tail(q)) : Tail(q)[i] = q[i + 1]
  BY LenProperties, EmptySeq, HeadTailProperties
<1>2. DOMAIN Tail(q) = 1 .. Len(q) - 1
  BY <1>1, LenProperties
<1>3. ASSUME NEW i \in DOMAIN Tail(q), Tail(q)[i] = "av"
      PROVE  \E j \in 1 .. i - 1 : Tail(q)[j] = "status"
  <2>1. i + 1 \in DOMAIN q /\ q[i + 1] = "av" /\ i \in Nat
    BY <1>1, <1>2, <1>3
  <2>2. PICK j \in 1 .. (i + 1) - 1 : q[j] = "status"
    BY <2>1 DEF Answered
  <2>3. j # 1 /\ j - 1 \in 1 .. i - 1 /\ Tail(q)[j - 1] = q[j]
    BY <1>1, <1>2, <1>3, <2>1, <2>2
  <2>4. QED
    BY <2>2, <2>3
<1>4. QED
  BY <1>3 DEF Answered

----------------------------------------------------------------------------
(* The roles of connections.                                               *)

WireType ==
  /\ c2s \in [Conns -> Seq(ClientSays)]
  /\ rbuf \in [Conns -> Seq(ClientSays)]

\* What a client has said and the server has not yet served.
WireOf(c) == Said(c2s[c]) \cup Said(rbuf[c])

Asks == {Publish, Play}

\* No request to publish or play is added to any wire.
WiresKept == WireType' /\ \A d \in Conns : \A m \in Asks : m \in WireOf(d)' => m \in WireOf(d)

LEMMA KeptSame == WireType /\ UNCHANGED <<c2s, rbuf>> => WiresKept
BY DEF WireType, WiresKept, WireOf, Said

LEMMA KeptTakes ==
  ASSUME WireType, NEW c \in Conns, NEW m, ServerTakes(c, m), UNCHANGED c2s
  PROVE  WiresKept /\ m \in WireOf(c)
<1>1. rbuf[c] \in Seq(ClientSays) /\ rbuf[c] # <<>> /\ Head(rbuf[c]) = m
  BY DEF WireType, ServerTakes
<1>2. /\ Tail(rbuf[c]) \in Seq(ClientSays) /\ m \in Said(rbuf[c])
      /\ Said(Tail(rbuf[c])) \subseteq Said(rbuf[c])
  BY <1>1, SaidTail
<1>3. rbuf' = [rbuf EXCEPT ![c] = Tail(rbuf[c])]
  BY DEF ServerTakes
<1>4. WireType'
  BY <1>2, <1>3 DEF WireType
<1>5. \A d \in Conns : Said(rbuf'[d]) \subseteq Said(rbuf[d]) /\ Said(c2s'[d]) = Said(c2s[d])
  BY <1>2, <1>3 DEF WireType
<1>6. QED
  BY <1>2, <1>4, <1>5 DEF WiresKept, WireOf

LEMMA KeptFill ==
  ASSUME WireType, NEW c \in Conns, Fill(c)
  PROVE  WiresKept
<1> DEFINE q == c2s[c]
<1>1. PICK k \in 1 .. Len(q) :
        /\ rbuf' = [rbuf EXCEPT ![c] = SubSeq(q, 1, k)]
        /\ c2s' = [c2s EXCEPT ![c] = SubSeq(q, k + 1, Len(q))]
  BY DEF Fill
<1>2. q \in Seq(ClientSays) /\ Len(q) \in Nat
  BY LenProperties DEF WireType
<1>3. /\ SubSeq(q, 1, k) \in Seq(ClientSays) /\ Said(SubSeq(q, 1, k)) \subseteq Said(q)
  <2>1. k \in 0 .. Len(q) /\ 1 \in Nat \ {0}
    BY <1>2
  <2> HIDE DEF q
  <2>2. QED
    BY <1>2, <2>1, SaidPart
<1>4. SubSeq(q, k + 1, Len(q)) \in Seq(ClientSays) /\ Said(SubSeq(q, k + 1, Len(q))) \subseteq Said(q)
  <2>1. k + 1 \in Nat \ {0} /\ Len(q) \in 0 .. Len(q)
    BY <1>2
  <2> HIDE DEF q
  <2>2. QED
    BY <1>2, <2>1, SaidPart
<1>5. WireType'
  BY <1>1, <1>3, <1>4 DEF WireType
<1>6. \A d \in Conns : d # c => rbuf'[d] = rbuf[d] /\ c2s'[d] = c2s[d]
  BY <1>1 DEF WireType
<1>7. Said(rbuf'[c]) \subseteq Said(q) /\ Said(c2s'[c]) \subseteq Said(q)
  BY <1>1, <1>3, <1>4 DEF WireType
<1>8. QED
  BY <1>5, <1>6, <1>7 DEF WiresKept, WireOf

\* A client's write adds what it says, on its own connection only.
LEMMA WritesAdd ==
  ASSUME WireType, NEW c \in Conns, NEW ms \in Seq(ClientSays),
         ClientWrites(c, ms) \/ c2s' = Says(c2s, c, ms), UNCHANGED rbuf
  PROVE  /\ WireType'
         /\ \A d \in Conns : WireOf(d)' \subseteq WireOf(d) \cup (IF d = c THEN Said(ms) ELSE {})
<1>1. c2s[c] \o ms \in Seq(ClientSays) /\ Said(c2s[c] \o ms) = Said(c2s[c]) \cup Said(ms)
  BY SaidConcat DEF WireType
<1>2. c2s' = c2s \/ c2s' = [c2s EXCEPT ![c] = c2s[c] \o ms]
  BY DEF ClientWrites, Says
<1>3. WireType'
  BY <1>1, <1>2 DEF WireType
<1>4. \A d \in Conns : Said(c2s'[d]) \subseteq Said(c2s[d]) \cup (IF d = c THEN Said(ms) ELSE {})
  BY <1>1, <1>2 DEF WireType
<1>5. QED
  BY <1>3, <1>4 DEF WireOf

LEMMA KeptWrites ==
  ASSUME WireType, NEW c \in Conns, NEW ms \in Seq(ClientSays), Said(ms) \cap Asks = {},
         ClientWrites(c, ms) \/ c2s' = Says(c2s, c, ms), UNCHANGED rbuf
  PROVE  WiresKept
BY WritesAdd DEF WiresKept

RoleType ==
  /\ WireType
  /\ sloop \in [Conns -> {"none", "C0C1", "C2", "read", "publish", "play", "ended", "done"}]
  /\ stype \in [Conns -> {"unknown", "pub", "sub"}]
  /\ pub \in Conns \cup {None}
  /\ subs \subseteq Conns
  /\ role \in [PeerConns -> {"none", "asked", "on"}]

Publishes(c) == Publish \in WireOf(c) \/ stype[c] = "pub"
Plays(c) == Play \in WireOf(c) \/ stype[c] = "sub"

\* A connection publishes or plays, and what its client is decides which.
OneSide ==
  /\ \A c \in Conns : ~(Publishes(c) /\ Plays(c))
  /\ \A c \in PullConns : ~Publishes(c)
  /\ \A c \in PushConns : ~Plays(c)
  /\ \A c \in PeerConns : role[c] = "none" => ~Publishes(c) /\ ~Plays(c)

\* Whom the group knows, or is about to learn of, by the session's type.
Registered ==
  \A c \in Conns :
    /\ sloop[c] = "publish" \/ pub = c => stype[c] = "pub"
    /\ sloop[c] = "play" \/ c \in subs => stype[c] = "sub"

RoleInv == RoleType /\ OneSide /\ Registered /\ RegistrationReleased

LEMMA RoleInit == Init => RoleInv
<1> SUFFICES ASSUME Init PROVE RoleInv
  OBVIOUS
<1>1. /\ c2s = [c \in Conns |-> <<>>] /\ rbuf = [c \in Conns |-> <<>>]
      /\ sloop = [c \in Conns |-> "none"] /\ stype = [c \in Conns |-> "unknown"]
      /\ pub = None /\ subs = {} /\ role = [c \in PeerConns |-> "none"]
  BY DEF Init, WireInit, ServerInit
<1>2. WireType /\ \A c \in Conns : WireOf(c) = {}
  BY <1>1 DEF WireType, WireOf, Said
<1>3. RoleType
  BY <1>1, <1>2 DEF RoleType
<1>4. OneSide
  BY <1>1, <1>2 DEF OneSide, Publishes, Plays, Conns
<1>5. Registered /\ RegistrationReleased
  BY <1>1, ConnKinds DEF Registered, RegistrationReleased
<1>6. QED
  BY <1>3, <1>4, <1>5 DEF RoleInv

\* Steps that add no request and leave the registrations alone.
LEMMA RolesKept ==
  ASSUME RoleInv, WiresKept, UNCHANGED <<stype, pub, subs>>,
         sloop' = sloop
           \/ \E c \in Conns, l \in {"C0C1", "C2", "read", "ended"} : sloop' = [sloop EXCEPT ![c] = l],
         role' = role \/ \E c \in PeerConns : role' = [role EXCEPT ![c] = "on"]
  PROVE  RoleInv'
<1>1. \A d \in Conns : sloop'[d] = sloop[d] \/ sloop'[d] \in {"C0C1", "C2", "read", "ended"}
  BY DEF RoleInv, RoleType
<1>2. \A d \in PeerConns : role'[d] = "none" => role[d] = "none"
  BY DEF RoleInv, RoleType
<1>3. RoleType'
  BY DEF RoleInv, RoleType, WiresKept
<1>4. \A d \in Conns : (Publishes(d)' => Publishes(d)) /\ (Plays(d)' => Plays(d))
  BY DEF WiresKept, Publishes, Plays, Asks
<1>5. OneSide'
  BY <1>2, <1>4 DEF OneSide, RoleInv, Conns
<1>6. Registered'
  BY <1>1 DEF Registered, RoleInv
<1>7. RegistrationReleased'
  BY <1>1, ConnKinds DEF RegistrationReleased, RoleInv, RoleType, Registered
<1>8. QED
  BY <1>3, <1>5, <1>6, <1>7 DEF RoleInv

LEMMA RoleStutter == RoleInv /\ UNCHANGED vars => RoleInv'
BY RolesKept, KeptSame DEF RoleInv, RoleType, vars, wireVars, serverVars, peerVars

\* A request is served on the side it was asked for.
LEMMA RolePublish ==
  ASSUME RoleInv, NEW c \in Conns, doPublish(c), UNCHANGED role
  PROVE  RoleInv'
<1>1. /\ stype' = [stype EXCEPT ![c] = "pub"] /\ sloop' = [sloop EXCEPT ![c] = "publish"]
      /\ pub' = pub /\ subs' = subs /\ sloop[c] = "read"
  BY DEF doPublish, Reads, Goes, Stream
<1>2. WiresKept /\ Publish \in WireOf(c)
  BY KeptTakes DEF RoleInv, RoleType, doPublish, Reads
<1>3. RoleType'
  BY <1>1, <1>2 DEF RoleInv, RoleType, WiresKept
<1>4. \A d \in Conns : (Publishes(d)' => Publishes(d)) /\ (Plays(d)' => Plays(d))
  BY <1>1, <1>2 DEF WiresKept, Publishes, Plays, Asks, RoleInv, RoleType
<1>5. OneSide'
  BY <1>4 DEF OneSide, RoleInv, Conns
<1>6. c \notin subs
  BY <1>2 DEF RoleInv, Registered, OneSide, Publishes, Plays
<1>7. Registered' /\ RegistrationReleased'
  BY <1>1, <1>6, ConnKinds DEF Registered, RegistrationReleased, RoleInv, RoleType
<1>8. QED
  BY <1>3, <1>5, <1>7 DEF RoleInv

LEMMA RolePlay ==
  ASSUME RoleInv, NEW c \in Conns, doPlay(c), UNCHANGED role
  PROVE  RoleInv'
<1>1. /\ stype' = [stype EXCEPT ![c] = "sub"] /\ sloop' = [sloop EXCEPT ![c] = "play"]
      /\ pub' = pub /\ subs' = subs /\ sloop[c] = "read"
  BY DEF doPlay, Reads, Goes, Stream
<1>2. WiresKept /\ Play \in WireOf(c)
  BY KeptTakes DEF RoleInv, RoleType, doPlay, Reads
<1>3. RoleType'
  BY <1>1, <1>2 DEF RoleInv, RoleType, WiresKept
<1>4. \A d \in Conns : (Publishes(d)' => Publishes(d)) /\ (Plays(d)' => Plays(d))
  BY <1>1, <1>2 DEF WiresKept, Publishes, Plays, Asks, RoleInv, RoleType
<1>5. OneSide'
  BY <1>4 DEF OneSide, RoleInv, Conns
<1>6. pub # c
  BY <1>2 DEF RoleInv, Registered, OneSide, Publishes, Plays
<1>7. Registered' /\ RegistrationReleased'
  BY <1>1, <1>6, ConnKinds DEF Registered, RegistrationReleased, RoleInv, RoleType
<1>8. QED
  BY <1>3, <1>5, <1>7 DEF RoleInv

\* The group learns of a session while its goroutine runs, and forgets it at its end.
LEMMA RoleRegister ==
  ASSUME RoleInv, NEW c \in Conns, UNCHANGED role,
         OnNewRTMPPubSession(c) \/ OnNewRTMPSubSession(c) \/ handleTCPConnect(c)
  PROVE  RoleInv'
<1>1. stype' = stype /\ UNCHANGED <<c2s, rbuf>>
  BY DEF OnNewRTMPPubSession, OnNewRTMPSubSession, handleTCPConnect, wireVars, Session
<1>2. WiresKept
  BY <1>1, KeptSame DEF RoleInv, RoleType
<1>3. \A d \in Conns : (Publishes(d)' => Publishes(d)) /\ (Plays(d)' => Plays(d))
  BY <1>1, <1>2 DEF WiresKept, Publishes, Plays, Asks
<1>4. OneSide'
  BY <1>3 DEF OneSide, RoleInv, Conns
<1>5. CASE OnNewRTMPPubSession(c)
  <2>1. /\ sloop[c] = "publish" /\ sloop' = [sloop EXCEPT ![c] = "read"]
        /\ pub' = pub \/ pub' = c
        /\ subs' = subs
    BY <1>5 DEF OnNewRTMPPubSession, Goes
  <2>2. QED
    BY <1>1, <1>2, <1>4, <2>1, ConnKinds
    DEF WiresKept, Registered, RegistrationReleased, RoleInv, RoleType
<1>6. CASE OnNewRTMPSubSession(c)
  <2>1. /\ sloop[c] = "play" /\ sloop' = [sloop EXCEPT ![c] = "read"]
        /\ pub' = pub /\ subs' = subs \cup {c}
    BY <1>6 DEF OnNewRTMPSubSession, Goes
  <2>2. QED
    BY <1>1, <1>2, <1>4, <2>1, ConnKinds
    DEF WiresKept, Registered, RegistrationReleased, RoleInv, RoleType
<1>7. CASE handleTCPConnect(c)
  <2>1. /\ sloop[c] = "ended" /\ sloop' = [sloop EXCEPT ![c] = "done"]
        /\ pub' = IF stype[c] = "pub" /\ pub = c THEN None ELSE pub
        /\ subs' = IF stype[c] = "sub" THEN subs \ {c} ELSE subs
    BY <1>7 DEF handleTCPConnect, Goes
  <2>2. pub' # c /\ c \notin subs' /\ subs' \subseteq subs /\ (pub' = pub \/ pub' = None)
    BY <2>1, ConnKinds DEF RoleInv, Registered
  <2>3. QED
    BY <1>1, <1>2, <1>4, <2>1, <2>2, ConnKinds
    DEF WiresKept, Registered, RegistrationReleased, RoleInv, RoleType
<1>8. QED
  BY <1>5, <1>6, <1>7

LEMMA RoleServer ==
  ASSUME RoleInv, NEW c \in Conns, ServerStep(c) \/ Dispose(c) \/ Accept(c), UNCHANGED role
  PROVE  RoleInv'
<1>1. WireType
  BY DEF RoleInv, RoleType
<1>2. CASE ReadMore(c)
  BY <1>1, <1>2, KeptFill, RolesKept DEF ReadMore, serverVars
<1>3. CASE LoopFails(c)
  <2>1. WiresKept
    BY <1>1, <1>3, KeptSame, KeptTakes DEF LoopFails
  <2>2. QED
    BY <1>3, <2>1, RolesKept DEF LoopFails, Goes, Session, Stream
<1>4. CASE ReadC0C1(c) \/ ReadC2(c)
  <2>1. WiresKept
    BY <1>1, <1>4, KeptTakes DEF ReadC0C1, ReadC2
  <2>2. QED
    BY <1>4, <2>1, RolesKept DEF ReadC0C1, ReadC2, Goes, Session, Stream
<1>5. CASE doConnect(c) \/ doCreateStream(c) \/ doOther(c)
  <2>1. WiresKept
    BY <1>1, <1>5, KeptTakes DEF doConnect, doCreateStream, doOther, Reads
  <2>2. QED
    BY <1>5, <2>1, RolesKept DEF doConnect, doCreateStream, doOther, serverVars
<1>6. CASE OnReadRTMPAVMsg(c)
  <2>1. WiresKept
    BY <1>1, <1>6, KeptTakes DEF OnReadRTMPAVMsg, Reads
  <2>2. QED
    BY <1>6, <2>1, RolesKept DEF OnReadRTMPAVMsg, Goes, Session, Stream
<1>7. CASE Dispose(c)
  BY <1>1, <1>7, KeptSame, RolesKept DEF Dispose, serverVars
<1>8. CASE Accept(c)
  BY <1>1, <1>8, KeptSame, RolesKept DEF Accept, Goes, wireVars, Session, Stream
<1>9. QED
  BY <1>2, <1>3, <1>4, <1>5, <1>6, <1>7, <1>8, RolePublish, RolePlay, RoleRegister DEF ServerStep

\* The program's own clients ask for what they are.
LEMMA RoleOwn ==
  ASSUME RoleInv, NEW c \in OwnConns, OwnNext(c)
  PROVE  RoleInv'
<1>1. /\ WireType /\ c \in Conns
      /\ UNCHANGED <<sloop, stype, pub, subs, role>>
  BY DEF RoleInv, RoleType, OwnNext, OwnConns, Conns, serverVars, peerVars
<1>2. CASE UNCHANGED <<c2s, rbuf>>
  BY <1>1, <1>2, KeptSame, RolesKept
<1>3. ASSUME NEW ms \in Seq(ClientSays), Said(ms) \cap Asks = {},
             ClientWrites(c, ms) \/ c2s' = Says(c2s, c, ms), UNCHANGED rbuf
      PROVE  RoleInv'
  <2>1. WiresKept
    BY <1>1, <1>3, KeptWrites
  <2>2. QED
    BY <1>1, <2>1, RolesKept
<1>4. CASE SendMedia(c)
  <2>1. <<"av">> \in Seq(ClientSays) /\ Said(<<"av">>) \cap Asks = {}
    <3>1. "av" \in ClientSays /\ "av" \notin Asks
      BY DEF ClientSays, Asks, Play, Publish
    <3>2. QED
      BY <3>1, One
  <2>2. QED
    BY <1>3, <1>4, <2>1 DEF SendMedia
<1>5. CASE tcpConnect(c)
  <2>1. <<C0C1>> \in Seq(ClientSays) /\ Said(<<C0C1>>) \cap Asks = {}
    <3>1. C0C1 \in ClientSays /\ C0C1 \notin Asks
      BY DEF ClientSays, Asks, Play, Publish, C0C1
    <3>2. QED
      BY <3>1, One
  <2>2. QED
    BY <1>3, <1>5, <2>1 DEF tcpConnect
<1>6. CASE ReadS0S1S2(c)
  <2>1. C2 \in ClientSays /\ "other" \in ClientSays /\ Connect \in ClientSays
    BY DEF ClientSays
  <2>2. <<C2, "other", Connect>> \in Seq(ClientSays) /\ Said(<<C2, "other", Connect>>) \cap Asks = {}
    BY <2>1, Three DEF Asks, Play, Publish, C2, Connect
  <2>3. QED
    BY <1>3, <1>6, <2>2 DEF ReadS0S1S2
<1>7. CASE doResultMessage(c) /\ ClientWrites(c, <<CreateStream>>)
  <2>1. <<CreateStream>> \in Seq(ClientSays) /\ Said(<<CreateStream>>) \cap Asks = {}
    <3>1. CreateStream \in ClientSays /\ CreateStream \notin Asks
      BY DEF ClientSays, Asks, Play, Publish, CreateStream
    <3>2. QED
      BY <3>1, One
  <2>2. QED
    BY <1>3, <1>7, <2>1 DEF doResultMessage
<1>8. CASE c \in PullConns /\ doResultMessage(c) /\ ClientWrites(c, <<Play>>)
  <2>1. <<Play>> \in Seq(ClientSays) /\ Said(<<Play>>) = {Play} /\ rbuf' = rbuf
    BY <1>8, One DEF ClientSays, doResultMessage
  <2>2. WireType' /\ \A d \in Conns : WireOf(d)' \subseteq WireOf(d) \cup (IF d = c THEN {Play} ELSE {})
    BY <1>1, <1>8, <2>1, WritesAdd
  <2>3. \A d \in Conns : (Publishes(d)' => Publishes(d)) /\ (d # c => (Plays(d)' => Plays(d)))
    BY <1>1, <2>2 DEF Publishes, Plays, Play, Publish
  <2>4. OneSide'
    BY <1>1, <1>8, <2>3, ConnKinds DEF OneSide, RoleInv, Conns
  <2>5. QED
    BY <1>1, <2>2, <2>4 DEF RoleInv, RoleType, Registered, RegistrationReleased
<1>9. CASE c \in PushConns /\ doResultMessage(c) /\ ClientWrites(c, <<Publish>>)
  <2>1. <<Publish>> \in Seq(ClientSays) /\ Said(<<Publish>>) = {Publish} /\ rbuf' = rbuf
    BY <1>9, One DEF ClientSays, doResultMessage
  <2>2. WireType' /\ \A d \in Conns : WireOf(d)' \subseteq WireOf(d) \cup (IF d = c THEN {Publish} ELSE {})
    BY <1>1, <1>9, <2>1, WritesAdd
  <2>3. \A d \in Conns : (Plays(d)' => Plays(d)) /\ (d # c => (Publishes(d)' => Publishes(d)))
    BY <1>1, <2>2 DEF Publishes, Plays, Play, Publish
  <2>4. OneSide'
    BY <1>1, <1>9, <2>3, ConnKinds DEF OneSide, RoleInv, Conns
  <2>5. QED
    BY <1>1, <2>2, <2>4 DEF RoleInv, RoleType, Registered, RegistrationReleased
<1>10. CASE doResultMessage(c)
  <2>1. c \in PullConns \/ c \in PushConns
    BY DEF OwnConns
  <2>2. QED
    BY <1>7, <1>8, <1>9, <1>10, <2>1, ConnKinds DEF doResultMessage
<1>11. CASE Do(c) \/ DoSucceeds(c) \/ DoTimesOut(c) \/ ClientDispose(c)
  BY <1>2, <1>11 DEF Do, DoSucceeds, DoTimesOut, ClientDispose, wireVars
<1>12. CASE tcpConnectFails(c) \/ doOnStatusMessage(c) \/ doMsg(c) \/ runReadLoopEnds(c)
  BY <1>2, <1>12 DEF tcpConnectFails, doOnStatusMessage, doMsg, runReadLoopEnds, wireVars
<1>13. QED
  BY <1>4, <1>5, <1>6, <1>10, <1>11, <1>12 DEF OwnNext, ClientStep

\* Another client asks once.
LEMMA RolePeer ==
  ASSUME OneRole, RoleInv, NEW c \in PeerConns, PeerNext(c)
  PROVE  RoleInv'
<1>1. /\ WireType /\ c \in Conns
      /\ UNCHANGED <<sloop, stype, pub, subs, rbuf>>
  BY DEF RoleInv, RoleType, PeerNext, Conns, serverVars, PeerConnects, PeerSays, PeerHears, PeerLeaves
<1>2. CASE PeerConnects(c)
  <2>1. C0C1 \in ClientSays /\ C2 \in ClientSays /\ Connect \in ClientSays
    BY DEF ClientSays
  <2>2. <<C0C1, C2, Connect>> \in Seq(ClientSays) /\ Said(<<C0C1, C2, Connect>>) \cap Asks = {}
    BY <2>1, Three DEF Asks, Play, Publish, C0C1, C2, Connect
  <2>3. c2s' = [c2s EXCEPT ![c] = <<C0C1, C2, Connect>>] /\ role' = role
    BY <1>2 DEF PeerConnects, peerVars, C0C1, C2, Connect
  <2>4. WiresKept
    BY <1>1, <2>2, <2>3 DEF WireType, WiresKept, WireOf, Asks
  <2>5. QED
    BY <1>1, <2>3, <2>4, RolesKept
<1>3. CASE PeerHears(c)
  <2>1. WiresKept
    BY <1>1, <1>3, KeptSame DEF PeerHears
  <2>2. role' = role \/ role' = [role EXCEPT ![c] = "on"]
    BY <1>3 DEF PeerHears
  <2>3. QED
    BY <1>1, <2>1, <2>2, RolesKept
<1>4. CASE PeerLeaves(c)
  BY <1>1, <1>4, KeptSame, RolesKept DEF PeerLeaves, peerVars
<1>5. CASE PeerSays(c)
  <2>1. PICK m \in {"publish", "play", "av", "bad"} :
          /\ MaySay(c, m)
          /\ ClientWrites(c, <<m>>)
          /\ role' = IF m \in {"publish", "play"} THEN [role EXCEPT ![c] = "asked"] ELSE role
    BY <1>5 DEF PeerSays
  <2>2. <<m>> \in Seq(ClientSays) /\ Said(<<m>>) = {m}
    BY One DEF ClientSays, Publish, Play
  <2>3. CASE m \notin {"publish", "play"}
    <3>1. Said(<<m>>) \cap Asks = {} /\ role' = role
      BY <2>1, <2>2, <2>3 DEF Asks, Publish, Play
    <3>2. WiresKept
      BY <1>1, <2>1, <2>2, <3>1, KeptWrites
    <3>3. QED
      BY <1>1, <3>1, <3>2, RolesKept
  <2>4. CASE m \in {"publish", "play"}
    <3>1. role[c] = "none" /\ role' = [role EXCEPT ![c] = "asked"]
      BY <2>1, <2>4 DEF MaySay
    <3>2. ~Publishes(c) /\ ~Plays(c)
      BY <3>1 DEF RoleInv, OneSide
    <3>3. WireType' /\ \A d \in Conns : WireOf(d)' \subseteq WireOf(d) \cup (IF d = c THEN {m} ELSE {})
      BY <1>1, <2>1, <2>2, WritesAdd
    <3>4. /\ \A d \in Conns : d # c => (Publishes(d)' => Publishes(d)) /\ (Plays(d)' => Plays(d))
          /\ ~(Publishes(c)' /\ Plays(c)')
      BY <1>1, <3>2, <3>3 DEF Publishes, Plays, Publish, Play
    <3>5. /\ role'[c] # "none" /\ \A d \in PeerConns : d # c => role'[d] = role[d]
          /\ role' \in [PeerConns -> {"none", "asked", "on"}]
      BY <3>1 DEF RoleInv, RoleType
    <3>6. OneSide'
      BY <3>4, <3>5, ConnKinds DEF OneSide, RoleInv, Conns
    <3>7. QED
      BY <1>1, <3>3, <3>5, <3>6 DEF RoleInv, RoleType, Registered, RegistrationReleased
  <2>5. QED
    BY <2>3, <2>4
<1>6. QED
  BY <1>2, <1>3, <1>4, <1>5 DEF PeerNext

LEMMA RoleNext ==
  ASSUME OneRole
  PROVE  RoleInv /\ [Next]_vars => RoleInv'
<1> SUFFICES ASSUME RoleInv, [Next]_vars PROVE RoleInv'
  OBVIOUS
<1>1. CASE \E c \in Conns : ServerNext(c)
  <2>1. PICK c \in Conns : ServerNext(c)
    BY <1>1
  <2>2. (ServerStep(c) \/ Dispose(c) \/ Accept(c)) /\ role' = role
    BY <2>1 DEF ServerNext, Accept, peerVars
  <2>3. QED
    BY <2>2, RoleServer
<1>2. CASE \E c \in OwnConns : OwnNext(c)
  BY <1>2, RoleOwn
<1>3. CASE \E c \in PeerConns : PeerNext(c)
  BY <1>3, RolePeer
<1>4. CASE UNCHANGED vars
  BY <1>4, RoleStutter
<1>5. QED
  BY <1>1, <1>2, <1>3, <1>4 DEF Next

\* If other clients publish or play once per connection, the group knows no connection
\* whose goroutine has ended, for any connections and any number of commands.
THEOREM RegistrationsReleased ==
  ASSUME OneRole
  PROVE  Spec => []RegistrationReleased
<1>1. RoleInv /\ [Next]_vars => RoleInv'
  BY RoleNext
<1>2. RoleInv => RegistrationReleased
  BY DEF RoleInv
<1>3. QED
  BY <1>1, <1>2, RoleInit, PTL DEF Spec

----------------------------------------------------------------------------
(* The answer to play comes before the group's media.                      *)

AnswerType ==
  /\ s2c \in [Conns -> Seq(ServerSays)]
  /\ sloop \in [Conns -> {"none", "C0C1", "C2", "read", "publish", "play", "ended", "done"}]
  /\ subs \subseteq Conns
  /\ cloop \in [OwnConns -> {"none", "dial", "S0S1S2", "read", "blocked", "ended"}]
  /\ called \in [OwnConns -> {"no", "waiting", "ok", "timeout"}]
  /\ result \in [OwnConns -> 0 .. 1]
  /\ role \in [PeerConns -> {"none", "asked", "on"}]

\* The client has its answer, or waits no longer.
Heard(c) ==
  \/ c \in PeerConns /\ role[c] = "on"
  \/ c \in OwnConns /\ (result[c] = 1 \/ called[c] \in {"ok", "timeout"})

\* ... or the answer is under way, or nobody is there to read it.
Told(c) == c \notin clientUp \/ Heard(c) \/ "status" \in Said(s2c[c])

\* A session that has not connected has no server session.
Fresh ==
  \A c \in OwnConns :
    /\ called[c] = "no" => cloop[c] = "none"
    /\ cloop[c] \in {"none", "dial"} => c \notin serverUp /\ sloop[c] = "none"

\* Whoever the group writes to was told before.
PlayersTold ==
  \A c \in Conns :
    /\ sloop[c] = "play" \/ c \in subs => Told(c)
    /\ sloop[c] = "none" => c \notin subs

AnswerFirst == \A c \in Conns : Heard(c) \/ Answered(s2c[c])

AnswerInv == AnswerType /\ Fresh /\ PlayersTold /\ AnswerFirst

LEMMA AnswerInit == Init => AnswerInv
<1> SUFFICES ASSUME Init PROVE AnswerInv
  OBVIOUS
<1>1. /\ s2c = [c \in Conns |-> <<>>] /\ serverUp = {}
      /\ sloop = [c \in Conns |-> "none"] /\ subs = {}
      /\ cloop = [c \in OwnConns |-> "none"] /\ called = [c \in OwnConns |-> "no"]
      /\ result = [c \in OwnConns |-> 0] /\ role = [c \in PeerConns |-> "none"]
  BY DEF Init, WireInit, ServerInit, ClientInit
<1>2. AnswerType
  BY <1>1 DEF AnswerType
<1>3. Fresh /\ PlayersTold
  BY <1>1 DEF Fresh, PlayersTold, OwnConns, Conns
<1>4. AnswerFirst
  BY <1>1 DEF AnswerFirst, Answered
<1>5. QED
  BY <1>2, <1>3, <1>4 DEF AnswerInv

\* What is under way to the clients keeps its answers, and no media gets ahead of them.
StreamsKept ==
  /\ s2c' \in [Conns -> Seq(ServerSays)]
  /\ \A d \in Conns :
       /\ Answered(s2c[d]) => Answered(s2c'[d])
       /\ "status" \in Said(s2c[d]) => "status" \in Said(s2c'[d])

LEMMA WritesStatus ==
  ASSUME AnswerType, NEW c \in Conns, NEW ms \in Seq(ServerSays), "av" \notin Said(ms),
         ServerWrites(c, ms)
  PROVE  StreamsKept /\ (c \in clientUp => Said(ms) \subseteq Said(s2c'[c]))
<1>1. /\ s2c[c] \o ms \in Seq(ServerSays) /\ Said(s2c[c] \o ms) = Said(s2c[c]) \cup Said(ms)
      /\ Answered(s2c[c]) => Answered(s2c[c] \o ms)
  BY SaidConcat, AnsweredConcat DEF AnswerType
<1>2. CASE c \notin clientUp
  BY <1>2 DEF ServerWrites, StreamsKept, AnswerType
<1>3. CASE c \in clientUp
  <2>1. s2c' = [s2c EXCEPT ![c] = s2c[c] \o ms]
    BY <1>3 DEF ServerWrites, Says
  <2>2. s2c' \in [Conns -> Seq(ServerSays)]
    BY <1>1, <2>1 DEF AnswerType
  <2>3. s2c'[c] = s2c[c] \o ms /\ \A d \in Conns : d # c => s2c'[d] = s2c[d]
    BY <2>1 DEF AnswerType
  <2>4. QED
    BY <1>1, <2>2, <2>3 DEF StreamsKept
<1>4. QED
  BY <1>2, <1>3

LEMMA TakesOther ==
  ASSUME AnswerType, NEW c \in Conns, NEW m, ClientTakes(c, m)
  PROVE  /\ s2c' \in [Conns -> Seq(ServerSays)]
         /\ \A d \in Conns : d # c => s2c'[d] = s2c[d]
         /\ m # "status" => StreamsKept
<1>1. /\ s2c[c] \in Seq(ServerSays) /\ s2c[c] # <<>> /\ Head(s2c[c]) = m
      /\ s2c' = [s2c EXCEPT ![c] = Tail(s2c[c])]
  BY DEF AnswerType, ClientTakes
<1>2. /\ Tail(s2c[c]) \in Seq(ServerSays)
      /\ Said(s2c[c]) \subseteq Said(Tail(s2c[c])) \cup {m}
      /\ m # "status" /\ Answered(s2c[c]) => Answered(Tail(s2c[c]))
  BY <1>1, SaidTail, AnsweredTail
<1>3. s2c' \in [Conns -> Seq(ServerSays)]
  BY <1>1, <1>2 DEF AnswerType
<1>4. s2c'[c] = Tail(s2c[c]) /\ \A d \in Conns : d # c => s2c'[d] = s2c[d]
  BY <1>1 DEF AnswerType
<1>5. QED
  BY <1>2, <1>3, <1>4 DEF StreamsKept

\* Steps that make nobody a player.
LEMMA AnswersKept ==
  ASSUME AnswerInv, AnswerType', Fresh',
         \A d \in Conns : Heard(d) => Heard(d)',
         \A d \in Conns : sloop[d] # "none" /\ Told(d) => Told(d)',
         \A d \in Conns : Heard(d)' \/ (Answered(s2c[d]) => Answered(s2c'[d])),
         \A d \in Conns : sloop'[d] = "play" \/ d \in subs' => sloop[d] = "play" \/ d \in subs,
         \A d \in Conns : sloop'[d] = "none" => sloop[d] = "none"
  PROVE  AnswerInv'
<1>1. PlayersTold'
  BY DEF AnswerInv, PlayersTold
<1>2. AnswerFirst'
  BY DEF AnswerInv, AnswerFirst
<1>3. QED
  BY <1>1, <1>2 DEF AnswerInv

LEMMA AnswerStutter == AnswerInv /\ UNCHANGED vars => AnswerInv'
<1> SUFFICES ASSUME AnswerInv, UNCHANGED vars PROVE AnswerInv'
  OBVIOUS
<1>1. UNCHANGED <<s2c, clientUp, serverUp, sloop, subs, cloop, called, result, role>>
  BY DEF vars, wireVars, serverVars, clientVars, peerVars
<1>2. \A d \in Conns : Heard(d)' = Heard(d) /\ Told(d)' = Told(d)
  BY <1>1 DEF Heard, Told
<1>3. AnswerType' /\ Fresh'
  BY <1>1 DEF AnswerInv, AnswerType, Fresh
<1>4. QED
  BY <1>1, <1>2, <1>3, AnswersKept

\* A step of the server on one connection, other than the answer to play.
LEMMA AnswersServer ==
  ASSUME AnswerInv, StreamsKept, UNCHANGED <<clientUp, cloop, called, result, role>>,
         serverUp' \subseteq serverUp,
         NEW c \in Conns, sloop[c] # "none" \/ c \in serverUp,
         NEW l \in {"C0C1", "C2", "read", "publish", "ended", "done"},
         sloop' = sloop \/ sloop' = [sloop EXCEPT ![c] = l],
         subs' \subseteq subs \/ (sloop[c] = "play" /\ subs' = subs \cup {c})
  PROVE  AnswerInv'
<1>1. AnswerType'
  <2>1. sloop' \in [Conns -> {"none", "C0C1", "C2", "read", "publish", "play", "ended", "done"}]
    BY DEF AnswerInv, AnswerType
  <2>2. subs' \subseteq Conns
    BY DEF AnswerInv, AnswerType
  <2>3. QED
    BY <2>1, <2>2 DEF AnswerInv, AnswerType, StreamsKept
<1>2. \A d \in Conns : (sloop'[d] = "none" <=> sloop[d] = "none") \/ (d = c /\ c \in serverUp /\ sloop'[d] # "none")
  BY DEF AnswerInv, AnswerType
<1>3. Fresh'
  BY <1>2 DEF AnswerInv, Fresh, OwnConns, Conns
<1>4. \A d \in Conns : Heard(d)' = Heard(d)
  BY DEF Heard
<1>5. \A d \in Conns : Told(d) => Told(d)'
  BY <1>4 DEF Told, StreamsKept
<1>6. \A d \in Conns : sloop'[d] = "play" \/ d \in subs' => sloop[d] = "play" \/ d \in subs
  BY DEF AnswerInv, AnswerType
<1>7. \A d \in Conns : Answered(s2c[d]) => Answered(s2c'[d])
  BY DEF StreamsKept
<1>8. QED
  BY <1>1, <1>2, <1>3, <1>4, <1>5, <1>6, <1>7, AnswersKept

LEMMA StreamsSame == AnswerType /\ s2c' = s2c => StreamsKept
BY DEF AnswerType, StreamsKept

LEMMA AnswerPlay ==
  ASSUME AnswerInv, NEW c \in Conns, doPlay(c), UNCHANGED <<clientVars, peerVars>>
  PROVE  AnswerInv'
<1>1. /\ sloop[c] = "read" /\ sloop' = [sloop EXCEPT ![c] = "play"]
      /\ UNCHANGED <<clientUp, serverUp, subs, cloop, called, result, role>>
      /\ ServerWrites(c, <<UserControl, OnStatusPlay>>)
  BY DEF doPlay, Reads, Goes, Stream, clientVars, peerVars
<1>2. /\ <<UserControl, OnStatusPlay>> \in Seq(ServerSays)
      /\ Said(<<UserControl, OnStatusPlay>>) = {"ctrl", "status"}
  <2>1. UserControl \in ServerSays /\ OnStatusPlay \in ServerSays
    BY DEF ServerSays
  <2>2. QED
    BY <2>1, Two DEF UserControl, OnStatusPlay
<1>3. StreamsKept /\ (c \in clientUp => "status" \in Said(s2c'[c]))
  BY <1>1, <1>2, WritesStatus DEF AnswerInv
<1>4. AnswerType'
  BY <1>1, <1>3 DEF AnswerInv, AnswerType, StreamsKept
<1>5. \A d \in Conns : Heard(d)' = Heard(d)
  BY <1>1 DEF Heard
<1>6. Told(c)' /\ \A d \in Conns : Told(d) => Told(d)'
  BY <1>1, <1>3, <1>5 DEF Told, StreamsKept
<1>7. \A d \in Conns : d # c => sloop'[d] = sloop[d]
  BY <1>1 DEF AnswerInv, AnswerType
<1>8. sloop'[c] = "play"
  BY <1>1 DEF AnswerInv, AnswerType
<1>9. Fresh'
  BY <1>1, <1>7 DEF AnswerInv, Fresh, OwnConns, Conns
<1>10. PlayersTold'
  BY <1>1, <1>6, <1>7, <1>8 DEF AnswerInv, PlayersTold
<1>11. AnswerFirst'
  BY <1>3, <1>5 DEF AnswerInv, AnswerFirst, StreamsKept
<1>12. QED
  BY <1>4, <1>9, <1>10, <1>11 DEF AnswerInv

\* The group's media reaches players that were told.
LEMMA AnswerMedia ==
  ASSUME AnswerInv, NEW c \in Conns, OnReadRTMPAVMsg(c), UNCHANGED <<clientVars, peerVars>>
  PROVE  AnswerInv'
<1>1. /\ UNCHANGED <<clientUp, serverUp, subs, cloop, called, result, role>>
      /\ sloop[c] = "read" /\ (sloop' = sloop \/ sloop' = [sloop EXCEPT ![c] = "ended"])
  BY DEF OnReadRTMPAVMsg, Reads, Goes, Stream, clientVars, peerVars
<1>2. CASE s2c' = s2c
  BY <1>1, <1>2, StreamsSame, AnswersServer DEF AnswerInv
<1>3. CASE s2c' = [d \in Conns |-> IF d \in subs \cap clientUp THEN Append(s2c[d], "av") ELSE s2c[d]]
  <2>1. \A d \in Conns : Append(s2c[d], "av") = s2c[d] \o <<"av">> /\ s2c[d] \in Seq(ServerSays)
    BY DEF AnswerInv, AnswerType
  <2>2. <<"av">> \in Seq(ServerSays)
    <3>1. "av" \in ServerSays
      BY DEF ServerSays
    <3>2. QED
      BY <3>1, One
  <2>3. \A d \in Conns : s2c'[d] = s2c[d] \/ (d \in subs \cap clientUp /\ s2c'[d] = s2c[d] \o <<"av">>)
    BY <1>3, <2>1
  <2>4. \A d \in Conns : s2c[d] \o <<"av">> \in Seq(ServerSays) /\ Said(s2c[d]) \subseteq Said(s2c[d] \o <<"av">>)
    <3>1. ASSUME NEW d \in Conns
          PROVE  s2c[d] \o <<"av">> \in Seq(ServerSays) /\ Said(s2c[d] \o <<"av">>) = Said(s2c[d]) \cup Said(<<"av">>)
      BY <2>1, <2>2, SaidConcat
    <3>2. QED
      BY <3>1
  <2>5. \A d \in Conns : s2c'[d] \in Seq(ServerSays) /\ Said(s2c[d]) \subseteq Said(s2c'[d])
    BY <2>1, <2>3, <2>4
  <2>6. \A d \in Conns : Heard(d)' = Heard(d)
    BY <1>1 DEF Heard
  <2>7. \A d \in Conns : Told(d) => Told(d)'
    BY <1>1, <2>5, <2>6 DEF Told
  <2>8. ASSUME NEW d \in Conns PROVE Heard(d)' \/ (Answered(s2c[d]) => Answered(s2c'[d]))
    <3>1. CASE d \in subs \cap clientUp /\ ~Heard(d)
      <4>1. "status" \in Said(s2c[d])
        BY <3>1 DEF AnswerInv, PlayersTold, Told
      <4>2. Answered(s2c[d]) => Answered(s2c[d] \o <<"av">>)
        BY <2>1, <2>2, <4>1, AnsweredConcat
      <4>3. QED
        BY <2>3, <4>2
    <3>2. QED
      BY <2>3, <2>6, <3>1
  <2>9. \A d \in Conns : sloop'[d] = sloop[d] \/ (d = c /\ sloop'[d] = "ended")
    BY <1>1 DEF AnswerInv, AnswerType
  <2>10. AnswerType'
    <3>1. s2c' \in [Conns -> Seq(ServerSays)]
      BY <1>3, <2>5
    <3>2. QED
      BY <1>1, <3>1 DEF AnswerInv, AnswerType
  <2>11. Fresh'
    BY <1>1, <2>9 DEF AnswerInv, Fresh, OwnConns, Conns
  <2>12. QED
    BY <1>1, <2>6, <2>7, <2>8, <2>9, <2>10, <2>11, AnswersKept
<1>4. QED
  BY <1>2, <1>3 DEF OnReadRTMPAVMsg

LEMMA AnswerServer ==
  ASSUME AnswerInv, NEW c \in Conns, ServerStep(c) \/ Dispose(c) \/ Accept(c),
         UNCHANGED <<clientVars, peerVars>>
  PROVE  AnswerInv'
<1>1. AnswerType /\ UNCHANGED <<cloop, called, result, role>>
  BY DEF AnswerInv, clientVars, peerVars
<1>2. CASE ReadMore(c) \/ LoopFails(c) \/ ReadC2(c) \/ doOther(c)
  <2>1. /\ UNCHANGED <<s2c, clientUp, serverUp, subs>> /\ sloop[c] # "none"
        /\ \E l \in {"ended", "read"} : sloop' = sloop \/ sloop' = [sloop EXCEPT ![c] = l]
    BY <1>2 DEF ReadMore, Fill, LoopFails, ReadC2, doOther, Reads, Goes, serverVars, Stream
  <2>2. QED
    BY <1>1, <2>1, StreamsSame, AnswersServer
<1>3. CASE ReadC0C1(c)
  <2>1. <<S0S1S2>> \in Seq(ServerSays) /\ "av" \notin Said(<<S0S1S2>>)
    <3>1. S0S1S2 \in ServerSays
      BY DEF ServerSays
    <3>2. QED
      BY <3>1, One DEF S0S1S2
  <2>2. StreamsKept
    BY <1>1, <1>3, <2>1, WritesStatus DEF ReadC0C1
  <2>3. QED
    BY <1>1, <1>3, <2>2, AnswersServer DEF ReadC0C1, Goes, Stream
<1>4. CASE doConnect(c)
  <2>1. <<ProtocolControl, ConnectResult>> \in Seq(ServerSays) /\ "av" \notin Said(<<ProtocolControl, ConnectResult>>)
    <3>1. ProtocolControl \in ServerSays /\ ConnectResult \in ServerSays
      BY DEF ServerSays
    <3>2. QED
      BY <3>1, Two DEF ProtocolControl, ConnectResult
  <2>2. StreamsKept
    BY <1>1, <1>4, <2>1, WritesStatus DEF doConnect
  <2>3. QED
    BY <1>1, <1>4, <2>2, AnswersServer DEF doConnect, Reads, serverVars
<1>5. CASE doCreateStream(c)
  <2>1. <<CreateStreamResult>> \in Seq(ServerSays) /\ "av" \notin Said(<<CreateStreamResult>>)
    <3>1. CreateStreamResult \in ServerSays
      BY DEF ServerSays
    <3>2. QED
      BY <3>1, One DEF CreateStreamResult
  <2>2. StreamsKept
    BY <1>1, <1>5, <2>1, WritesStatus DEF doCreateStream
  <2>3. QED
    BY <1>1, <1>5, <2>2, AnswersServer DEF doCreateStream, Reads, serverVars
<1>6. CASE doPublish(c)
  <2>1. <<OnStatusPublish>> \in Seq(ServerSays) /\ "av" \notin Said(<<OnStatusPublish>>)
    <3>1. OnStatusPublish \in ServerSays
      BY DEF ServerSays
    <3>2. QED
      BY <3>1, One DEF OnStatusPublish
  <2>2. StreamsKept
    BY <1>1, <1>6, <2>1, WritesStatus DEF doPublish
  <2>3. QED
    BY <1>1, <1>6, <2>2, AnswersServer DEF doPublish, Reads, Goes, Stream
<1>7. CASE OnNewRTMPPubSession(c) \/ OnNewRTMPSubSession(c) \/ handleTCPConnect(c)
  <2>1. /\ UNCHANGED <<s2c, clientUp>> /\ serverUp' \subseteq serverUp /\ sloop[c] # "none"
        /\ \E l \in {"read", "done"} : sloop' = [sloop EXCEPT ![c] = l]
        /\ subs' \subseteq subs \/ (sloop[c] = "play" /\ subs' = subs \cup {c})
    BY <1>7 DEF OnNewRTMPPubSession, OnNewRTMPSubSession, handleTCPConnect, Goes, wireVars
  <2>2. QED
    BY <1>1, <2>1, StreamsSame, AnswersServer
<1>8. CASE Dispose(c)
  <2>1. UNCHANGED <<s2c, clientUp, sloop, subs>> /\ serverUp' \subseteq serverUp /\ c \in serverUp
    BY <1>8 DEF Dispose, serverVars
  <2>2. QED
    BY <1>1, <2>1, StreamsSame, AnswersServer
<1>9. CASE Accept(c)
  <2>1. UNCHANGED <<s2c, clientUp, serverUp, subs>> /\ c \in serverUp /\ sloop' = [sloop EXCEPT ![c] = "C0C1"]
    BY <1>9 DEF Accept, Goes, wireVars, Stream
  <2>2. QED
    BY <1>1, <2>1, StreamsSame, AnswersServer
<1>10. QED
  BY <1>2, <1>3, <1>4, <1>5, <1>6, <1>7, <1>8, <1>9, AnswerPlay, AnswerMedia DEF ServerStep

\* A step of a client on its connection: it takes an answer only by hearing it.
LEMMA AnswersClient ==
  ASSUME AnswerInv, NEW c \in Conns, UNCHANGED <<sloop, subs>>, AnswerType', Fresh',
         \A d \in Conns : Heard(d) => Heard(d)',
         \A d \in Conns : d # c => s2c'[d] = s2c[d],
         StreamsKept \/ Heard(c)',
         \A d \in Conns : d \in clientUp' => d \in clientUp \/ sloop[d] = "none"
  PROVE  AnswerInv'
<1>1. \A d \in Conns : Heard(d)' \/ (Answered(s2c[d]) => Answered(s2c'[d]))
  BY DEF StreamsKept
<1>2. \A d \in Conns : sloop[d] # "none" /\ Told(d) => Told(d)'
  BY DEF Told, StreamsKept
<1>3. QED
  BY <1>1, <1>2, AnswersKept

LEMMA AnswerOwn ==
  ASSUME AnswerInv, NEW c \in OwnConns, OwnNext(c)
  PROVE  AnswerInv'
<1>1. AnswerType /\ c \in Conns /\ UNCHANGED <<sloop, subs, role>>
  BY DEF AnswerInv, OwnNext, OwnConns, Conns, serverVars, peerVars
<1>2. \A d \in OwnConns : d \in Conns /\ d \notin PeerConns
  BY ConnKinds DEF OwnConns, Conns
<1>3. CASE Do(c)
  <2>1. /\ UNCHANGED <<s2c, clientUp, serverUp, result>> /\ called[c] = "no"
        /\ called' = [called EXCEPT ![c] = "waiting"] /\ cloop' = [cloop EXCEPT ![c] = "dial"]
    BY <1>3 DEF Do, Turns, wireVars
  <2>2. AnswerType'
    BY <1>1, <2>1 DEF AnswerType
  <2>3. Fresh'
    BY <1>1, <2>1 DEF AnswerInv, AnswerType, Fresh
  <2>4. \A d \in Conns : Heard(d) => Heard(d)'
    BY <1>1, <2>1 DEF Heard, AnswerType
  <2>5. QED
    BY <1>1, <2>1, <2>2, <2>3, <2>4, StreamsSame, AnswersClient
<1>4. CASE DoSucceeds(c) \/ DoTimesOut(c)
  <2>1. /\ UNCHANGED <<s2c, clientUp, serverUp, cloop>> /\ called[c] = "waiting"
        /\ \E a \in {"ok", "timeout"} : called' = [called EXCEPT ![c] = a]
        /\ result' = result \/ result' = [result EXCEPT ![c] = 0]
    BY <1>4 DEF DoSucceeds, DoTimesOut, wireVars
  <2>2. AnswerType'
    BY <1>1, <2>1 DEF AnswerType
  <2>3. Fresh'
    BY <1>1, <2>1 DEF AnswerInv, AnswerType, Fresh
  <2>4. \A d \in Conns : Heard(d) => Heard(d)'
    BY <1>1, <2>1 DEF Heard, AnswerType
  <2>5. QED
    BY <1>1, <2>1, <2>2, <2>3, <2>4, StreamsSame, AnswersClient
<1>5. CASE SendMedia(c) \/ ClientDispose(c)
  <2>1. UNCHANGED <<s2c, serverUp, cloop, called, result>> /\ clientUp' \subseteq clientUp
    BY <1>5 DEF SendMedia, ClientDispose, clientVars
  <2>2. AnswerType' /\ Fresh'
    BY <1>1, <2>1 DEF AnswerInv, AnswerType, Fresh
  <2>3. \A d \in Conns : Heard(d) => Heard(d)'
    BY <1>1, <2>1 DEF Heard
  <2>4. QED
    BY <1>1, <2>1, <2>2, <2>3, StreamsSame, AnswersClient
<1>6. CASE tcpConnect(c) \/ tcpConnectFails(c)
  <2>1. /\ UNCHANGED <<s2c, called, result>> /\ cloop[c] = "dial"
        /\ \E l \in {"S0S1S2", "ended"} : cloop' = [cloop EXCEPT ![c] = l]
        /\ clientUp' \subseteq clientUp \cup {c} /\ serverUp' \subseteq serverUp \cup {c}
    BY <1>6 DEF tcpConnect, tcpConnectFails, Turns, wireVars
  <2>2. AnswerType'
    BY <1>1, <2>1 DEF AnswerType
  <2>3. sloop[c] = "none" /\ called[c] # "no"
    BY <2>1 DEF AnswerInv, Fresh
  <2>4. Fresh'
    BY <1>1, <2>1, <2>3 DEF AnswerInv, AnswerType, Fresh
  <2>5. \A d \in Conns : Heard(d) => Heard(d)'
    BY <1>1, <2>1 DEF Heard
  <2>6. QED
    BY <1>1, <2>1, <2>2, <2>3, <2>4, <2>5, StreamsSame, AnswersClient
<1>7. CASE ReadS0S1S2(c) \/ doResultMessage(c) \/ doMsg(c)
  <2>1. /\ UNCHANGED <<clientUp, serverUp, called, result>> /\ cloop[c] \in {"S0S1S2", "read"}
        /\ cloop' = cloop \/ cloop' = [cloop EXCEPT ![c] = "read"]
    BY <1>7 DEF ReadS0S1S2, doResultMessage, doMsg, Hears, Turns, clientVars
  <2>2. \E m \in {"S0S1S2", "result1", "result2", "ctrl", "av"} : ClientTakes(c, m)
    BY <1>7
    DEF ReadS0S1S2, doResultMessage, doMsg, Hears, S0S1S2, ConnectResult, CreateStreamResult,
        ProtocolControl
  <2>3. StreamsKept /\ \A d \in Conns : d # c => s2c'[d] = s2c[d]
    BY <1>1, <2>2, TakesOther
  <2>4. AnswerType'
    BY <1>1, <2>1, <2>3 DEF AnswerType, StreamsKept
  <2>5. Fresh'
    BY <1>1, <2>1 DEF AnswerInv, AnswerType, Fresh
  <2>6. \A d \in Conns : Heard(d) => Heard(d)'
    BY <1>1, <2>1 DEF Heard
  <2>7. QED
    BY <1>1, <2>1, <2>3, <2>4, <2>5, <2>6, AnswersClient
<1>8. CASE doOnStatusMessage(c)
  <2>1. /\ UNCHANGED <<clientUp, serverUp, called>> /\ cloop[c] = "read"
        /\ cloop' = cloop \/ cloop' = [cloop EXCEPT ![c] = "blocked"]
        /\ \/ result' = [result EXCEPT ![c] = 1]
           \/ result[c] = 1 /\ result' = result
    BY <1>8 DEF doOnStatusMessage, Hears, Turns
  <2>2. ClientTakes(c, "status")
    BY <1>8 DEF doOnStatusMessage, Hears, OnStatusPublish, OnStatusPlay
  <2>3. s2c' \in [Conns -> Seq(ServerSays)] /\ \A d \in Conns : d # c => s2c'[d] = s2c[d]
    BY <1>1, <2>2, TakesOther
  <2>4. AnswerType'
    BY <1>1, <2>1, <2>3 DEF AnswerType
  <2>5. Fresh'
    BY <1>1, <2>1 DEF AnswerInv, AnswerType, Fresh
  <2>6. Heard(c)' /\ \A d \in Conns : Heard(d) => Heard(d)'
    BY <1>1, <2>1 DEF Heard, AnswerType
  <2>7. QED
    BY <1>1, <2>1, <2>3, <2>4, <2>5, <2>6, AnswersClient
<1>9. CASE runReadLoopEnds(c)
  <2>1. /\ UNCHANGED <<s2c, clientUp, serverUp, called, result>>
        /\ cloop[c] \in {"S0S1S2", "read"} /\ cloop' = [cloop EXCEPT ![c] = "ended"]
    BY <1>9 DEF runReadLoopEnds, Turns, wireVars
  <2>2. AnswerType' /\ Fresh'
    BY <1>1, <2>1 DEF AnswerInv, AnswerType, Fresh
  <2>3. \A d \in Conns : Heard(d) => Heard(d)'
    BY <1>1, <2>1 DEF Heard
  <2>4. QED
    BY <1>1, <2>1, <2>2, <2>3, StreamsSame, AnswersClient
<1>10. QED
  BY <1>3, <1>4, <1>5, <1>6, <1>7, <1>8, <1>9 DEF OwnNext, ClientStep

LEMMA AnswerPeer ==
  ASSUME OneRole, AnswerInv, NEW c \in PeerConns, PeerNext(c)
  PROVE  AnswerInv'
<1>1. /\ AnswerType /\ c \in Conns /\ c \notin OwnConns
      /\ UNCHANGED <<sloop, subs, cloop, called, result>>
  BY ConnKinds
  DEF AnswerInv, PeerNext, PeerConnects, PeerSays, PeerHears, PeerLeaves, OwnConns, Conns,
      serverVars, clientVars
<1>2. Fresh'
  <2>1. \A d \in OwnConns : d \in serverUp' => d \in serverUp
    BY <1>1 DEF PeerNext, PeerConnects, PeerSays, PeerHears, PeerLeaves
  <2>2. QED
    BY <1>1, <2>1 DEF AnswerInv, Fresh
<1>3. CASE PeerConnects(c) \/ PeerLeaves(c)
  <2>1. /\ UNCHANGED <<s2c, role>>
        /\ clientUp' \subseteq clientUp \/ (sloop[c] = "none" /\ clientUp' = clientUp \cup {c})
    BY <1>3 DEF PeerConnects, PeerLeaves, peerVars
  <2>2. AnswerType'
    BY <1>1, <2>1 DEF AnswerType
  <2>3. \A d \in Conns : Heard(d) => Heard(d)'
    BY <1>1, <2>1 DEF Heard
  <2>4. QED
    BY <1>1, <1>2, <2>1, <2>2, <2>3, StreamsSame, AnswersClient
<1>4. CASE PeerSays(c)
  <2>1. PICK m \in {"publish", "play", "av", "bad"} :
          /\ m \in {"publish", "play"} => role[c] = "none"
          /\ role' = IF m \in {"publish", "play"} THEN [role EXCEPT ![c] = "asked"] ELSE role
    BY <1>4 DEF PeerSays, MaySay
  <2>2. UNCHANGED <<s2c, clientUp>>
    BY <1>4 DEF PeerSays
  <2>3. AnswerType'
    BY <1>1, <2>1, <2>2 DEF AnswerType
  <2>4. \A d \in Conns : Heard(d) => Heard(d)'
    BY <1>1, <2>1 DEF Heard, AnswerType
  <2>5. QED
    BY <1>1, <1>2, <2>2, <2>3, <2>4, StreamsSame, AnswersClient
<1>5. CASE PeerHears(c)
  <2>1. PICK m \in ServerSays :
          /\ ClientTakes(c, m)
          /\ role' = IF m = "status" THEN [role EXCEPT ![c] = "on"] ELSE role
    BY <1>5 DEF PeerHears
  <2>2. /\ s2c' \in [Conns -> Seq(ServerSays)]
        /\ \A d \in Conns : d # c => s2c'[d] = s2c[d]
        /\ m # "status" => StreamsKept
    BY <1>1, <2>1, TakesOther
  <2>3. AnswerType' /\ clientUp' = clientUp
    BY <1>1, <1>5, <2>1, <2>2 DEF AnswerType, PeerHears
  <2>4. /\ \A d \in Conns : Heard(d) => Heard(d)'
        /\ m = "status" => Heard(c)'
    BY <1>1, <2>1 DEF Heard, AnswerType
  <2>5. QED
    BY <1>1, <1>2, <2>2, <2>3, <2>4, AnswersClient
<1>6. QED
  BY <1>3, <1>4, <1>5 DEF PeerNext

LEMMA AnswerNext ==
  ASSUME OneRole
  PROVE  AnswerInv /\ [Next]_vars => AnswerInv'
<1> SUFFICES ASSUME AnswerInv, [Next]_vars PROVE AnswerInv'
  OBVIOUS
<1>1. CASE \E c \in Conns : ServerNext(c)
  <2>1. PICK c \in Conns : ServerNext(c)
    BY <1>1
  <2>2. (ServerStep(c) \/ Dispose(c) \/ Accept(c)) /\ UNCHANGED <<clientVars, peerVars>>
    BY <2>1 DEF ServerNext, Accept
  <2>3. QED
    BY <2>2, AnswerServer
<1>2. CASE \E c \in OwnConns : OwnNext(c)
  BY <1>2, AnswerOwn
<1>3. CASE \E c \in PeerConns : PeerNext(c)
  BY <1>3, AnswerPeer
<1>4. CASE UNCHANGED vars
  BY <1>4, AnswerStutter
<1>5. QED
  BY <1>1, <1>2, <1>3, <1>4 DEF Next

\* A player hears the answer to its play before any media of the group, which another
\* connection's goroutine writes, for any connections and any amount of media.
THEOREM AnswersFirst ==
  ASSUME OneRole
  PROVE  Spec => []StatusBeforeMedia
<1>1. AnswerInv /\ [Next]_vars => AnswerInv'
  BY AnswerNext
<1>2. AnswerInv => StatusBeforeMedia
  BY DEF AnswerInv, AnswerFirst, Answered, Heard, StatusBeforeMedia
<1>3. QED
  BY <1>1, <1>2, AnswerInit, PTL DEF Spec

----------------------------------------------------------------------------
(* Turns: who asked waits, and sends nothing that could crash the server.  *)

\* All that is under way to the server on a connection, in the order it is served.
Line(c) == rbuf[c] \o c2s[c]

\* Of a sequence, at most one message is in T.
Lone(q, T) == \A i, j \in DOMAIN q : q[i] \in T /\ q[j] \in T => i = j

\* No media follows a request to publish.
MediaFirst(q) == \A i, j \in DOMAIN q : q[i] = Publish /\ q[j] = "av" => j < i

LEMMA TailIndices ==
  ASSUME NEW S, NEW q \in Seq(S), q # <<>>
  PROVE  /\ Tail(q) \in Seq(S) /\ DOMAIN Tail(q) = 1 .. Len(q) - 1 /\ DOMAIN q = 1 .. Len(q)
         /\ Len(q) \in Nat \ {0} /\ Head(q) = q[1]
         /\ \A i \in DOMAIN Tail(q) : i + 1 \in DOMAIN q /\ Tail(q)[i] = q[i + 1]
<1>1. /\ Len(q) \in Nat \ {0} /\ DOMAIN q = 1 .. Len(q)
      /\ Head(q) = q[1] /\ Tail(q) \in Seq(S) /\ Len(Tail(q)) = Len(q) - 1
      /\ \A i \in 1 .. Len(Tail(q)) : Tail(q)[i] = q[i + 1]
  BY LenProperties, EmptySeq, HeadTailProperties
<1>2. DOMAIN Tail(q) = 1 .. Len(q) - 1
  BY <1>1, LenProperties
<1>3. QED
  BY <1>1, <1>2

LEMMA ConcatIndices ==
  ASSUME NEW S, NEW p \in Seq(S), NEW q \in Seq(S)
  PROVE  /\ p \o q \in Seq(S) /\ Len(p) \in Nat
         /\ DOMAIN (p \o q) \subseteq Nat
         /\ \A i \in DOMAIN (p \o q) :
              \/ i \in DOMAIN p /\ i <= Len(p) /\ (p \o q)[i] = p[i]
              \/ i > Len(p) /\ i - Len(p) \in DOMAIN q /\ (p \o q)[i] = q[i - Len(p)]
<1>1. /\ p \o q \in Seq(S) /\ Len(p) \in Nat /\ Len(q) \in Nat
      /\ DOMAIN p = 1 .. Len(p) /\ DOMAIN q = 1 .. Len(q)
  BY ConcatProperties, LenProperties
<1>2. /\ DOMAIN (p \o q) = 1 .. Len(p) + Len(q)
      /\ \A i \in 1 .. Len(p) + Len(q) :
           (p \o q)[i] = IF i <= Len(p) THEN p[i] ELSE q[i - Len(p)]
  BY <1>1, ConcatProperties, LenProperties
<1>3. QED
  BY <1>1, <1>2

LEMMA LoneTail ==
  ASSUME NEW S, NEW q \in Seq(S), q # <<>>, NEW T, Lone(q, T)
  PROVE  Lone(Tail(q), T) /\ (Head(q) \in T => Said(Tail(q)) \cap T = {})
<1>1. /\ DOMAIN Tail(q) = 1 .. Len(q) - 1 /\ 1 \in DOMAIN q
      /\ Len(q) \in Nat \ {0} /\ Head(q) = q[1]
      /\ \A i \in DOMAIN Tail(q) : i + 1 \in DOMAIN q /\ Tail(q)[i] = q[i + 1]
  BY TailIndices
<1>2. Lone(Tail(q), T)
  <2> SUFFICES ASSUME NEW i \in DOMAIN Tail(q), NEW j \in DOMAIN Tail(q),
                      Tail(q)[i] \in T, Tail(q)[j] \in T
               PROVE  i = j
    BY DEF Lone
  <2>1. i + 1 = j + 1
    BY <1>1 DEF Lone
  <2>2. QED
    BY <1>1, <2>1
<1>3. ASSUME Head(q) \in T, NEW i \in DOMAIN Tail(q), Tail(q)[i] \in T PROVE FALSE
  <2>1. 1 = i + 1
    BY <1>1, <1>3 DEF Lone
  <2>2. QED
    BY <1>1, <2>1
<1>4. QED
  BY <1>2, <1>3 DEF Said

LEMMA LoneConcat ==
  ASSUME NEW S, NEW p \in Seq(S), NEW q \in Seq(S), NEW T, Lone(p, T), Lone(q, T),
         Said(p) \cap T = {} \/ Said(q) \cap T = {}
  PROVE  Lone(p \o q, T)
<1> DEFINE r == p \o q
<1>1. /\ Len(p) \in Nat /\ DOMAIN r \subseteq Nat
      /\ \A i \in DOMAIN r :
           \/ i \in DOMAIN p /\ i <= Len(p) /\ r[i] = p[i]
           \/ i > Len(p) /\ i - Len(p) \in DOMAIN q /\ r[i] = q[i - Len(p)]
  BY ConcatIndices
<1> HIDE DEF r
<1>2. ASSUME NEW i \in DOMAIN r, NEW j \in DOMAIN r, r[i] \in T, r[j] \in T PROVE i = j
  <2>1. CASE i <= Len(p) /\ j <= Len(p)
    BY <1>1, <1>2, <2>1 DEF Lone
  <2>2. CASE i > Len(p) /\ j > Len(p)
    <3>1. i - Len(p) = j - Len(p)
      BY <1>1, <1>2, <2>2 DEF Lone
    <3>2. QED
      BY <1>1, <3>1
  <2>3. CASE i <= Len(p) /\ j > Len(p)
    BY <1>1, <1>2, <2>3 DEF Said
  <2>4. CASE i > Len(p) /\ j <= Len(p)
    BY <1>1, <1>2, <2>4 DEF Said
  <2>5. QED
    BY <1>1, <2>1, <2>2, <2>3, <2>4
<1>3. QED
  BY <1>2 DEF Lone, r

LEMMA MediaTail ==
  ASSUME NEW S, NEW q \in Seq(S), q # <<>>, MediaFirst(q)
  PROVE  MediaFirst(Tail(q)) /\ (Head(q) = Publish => "av" \notin Said(Tail(q)))
<1>1. /\ DOMAIN Tail(q) = 1 .. Len(q) - 1 /\ 1 \in DOMAIN q
      /\ Len(q) \in Nat \ {0} /\ Head(q) = q[1]
      /\ \A i \in DOMAIN Tail(q) : i + 1 \in DOMAIN q /\ Tail(q)[i] = q[i + 1]
  BY TailIndices
<1>2. MediaFirst(Tail(q))
  <2> SUFFICES ASSUME NEW i \in DOMAIN Tail(q), NEW j \in DOMAIN Tail(q),
                      Tail(q)[i] = Publish, Tail(q)[j] = "av"
               PROVE  j < i
    BY DEF MediaFirst
  <2>1. j + 1 < i + 1
    BY <1>1 DEF MediaFirst
  <2>2. QED
    BY <1>1, <2>1
<1>3. ASSUME Head(q) = Publish, NEW i \in DOMAIN Tail(q), Tail(q)[i] = "av" PROVE FALSE
  <2>1. i + 1 < 1
    BY <1>1, <1>3 DEF MediaFirst
  <2>2. QED
    BY <1>1, <2>1
<1>4. QED
  BY <1>2, <1>3 DEF Said

LEMMA MediaConcat ==
  ASSUME NEW S, NEW p \in Seq(S), NEW q \in Seq(S), MediaFirst(p), MediaFirst(q),
         Publish \notin Said(p) \/ "av" \notin Said(q)
  PROVE  MediaFirst(p \o q)
<1> DEFINE r == p \o q
<1>1. /\ Len(p) \in Nat /\ DOMAIN r \subseteq Nat
      /\ \A i \in DOMAIN r :
           \/ i \in DOMAIN p /\ i <= Len(p) /\ r[i] = p[i]
           \/ i > Len(p) /\ i - Len(p) \in DOMAIN q /\ r[i] = q[i - Len(p)]
  BY ConcatIndices
<1> HIDE DEF r
<1>2. ASSUME NEW i \in DOMAIN r, NEW j \in DOMAIN r, r[i] = Publish, r[j] = "av" PROVE j < i
  <2>1. CASE i <= Len(p) /\ j <= Len(p)
    BY <1>1, <1>2, <2>1 DEF MediaFirst
  <2>2. CASE i > Len(p) /\ j > Len(p)
    <3>1. j - Len(p) < i - Len(p)
      BY <1>1, <1>2, <2>2 DEF MediaFirst
    <3>2. QED
      BY <1>1, <3>1
  <2>3. CASE i <= Len(p) /\ j > Len(p)
    BY <1>1, <1>2, <2>3 DEF Said
  <2>4. CASE i > Len(p) /\ j <= Len(p)
    BY <1>1, <2>4
  <2>5. QED
    BY <1>1, <2>1, <2>2, <2>3, <2>4
<1>3. QED
  BY <1>2 DEF MediaFirst, r

\* Taking the first message of what is buffered takes it from the whole line.
LEMMA TailOfConcat ==
  ASSUME NEW S, NEW p \in Seq(S), NEW q \in Seq(S), p # <<>>
  PROVE  p \o q # <<>> /\ Head(p \o q) = Head(p) /\ Tail(p \o q) = Tail(p) \o q
<1>1. /\ p \o q \in Seq(S) /\ Len(p \o q) = Len(p) + Len(q)
      /\ Len(p) \in Nat \ {0} /\ Len(q) \in Nat
      /\ \A i \in 1 .. Len(p) + Len(q) :
           (p \o q)[i] = IF i <= Len(p) THEN p[i] ELSE q[i - Len(p)]
  BY ConcatProperties, LenProperties, EmptySeq
<1>2. p \o q # <<>>
  BY <1>1, EmptySeq
<1>3. /\ Tail(p) \in Seq(S) /\ Len(Tail(p)) = Len(p) - 1 /\ Head(p) = p[1]
      /\ \A i \in 1 .. Len(p) - 1 : Tail(p)[i] = p[i + 1]
  BY HeadTailProperties
<1>4. /\ Tail(p \o q) \in Seq(S) /\ Len(Tail(p \o q)) = Len(p) + Len(q) - 1
      /\ Head(p \o q) = (p \o q)[1]
      /\ \A i \in 1 .. Len(p) + Len(q) - 1 : Tail(p \o q)[i] = (p \o q)[i + 1]
  BY <1>1, <1>2, HeadTailProperties
<1>5. /\ Tail(p) \o q \in Seq(S) /\ Len(Tail(p) \o q) = Len(p) - 1 + Len(q)
      /\ \A i \in 1 .. Len(p) - 1 + Len(q) :
           (Tail(p) \o q)[i] = IF i <= Len(p) - 1 THEN Tail(p)[i] ELSE q[i - (Len(p) - 1)]
  BY <1>1, <1>3, ConcatProperties
<1>6. ASSUME NEW i \in 1 .. Len(p) + Len(q) - 1
      PROVE  Tail(p \o q)[i] = (Tail(p) \o q)[i]
  <2>1. CASE i <= Len(p) - 1
    BY <1>1, <1>3, <1>4, <1>5, <2>1
  <2>2. CASE i > Len(p) - 1
    <3>1. i + 1 > Len(p) /\ i + 1 - Len(p) = i - (Len(p) - 1)
      BY <1>1, <2>2
    <3>2. QED
      BY <1>1, <1>4, <1>5, <2>2, <3>1
  <2>3. QED
    BY <1>1, <2>1, <2>2
<1>7. Tail(p \o q) = Tail(p) \o q
  BY <1>1, <1>4, <1>5, <1>6, SeqEqual
<1>8. QED
  BY <1>1, <1>2, <1>4, <1>3, <1>7

\* Every step does one of three things to the line of a connection.
LEMMA LineTyped ==
  ASSUME WireType, NEW c \in Conns
  PROVE  Line(c) \in Seq(ClientSays) /\ Said(rbuf[c]) \subseteq Said(Line(c))
<1>1. rbuf[c] \in Seq(ClientSays) /\ c2s[c] \in Seq(ClientSays)
  BY DEF WireType
<1>2. QED
  BY <1>1, SaidConcat DEF Line

LEMMA LineTakes ==
  ASSUME WireType, NEW c \in Conns, NEW m, ServerTakes(c, m), UNCHANGED c2s
  PROVE  /\ Line(c) # <<>> /\ Head(Line(c)) = m /\ Line(c)' = Tail(Line(c))
         /\ \A d \in Conns : d # c => Line(d)' = Line(d)
<1>1. /\ rbuf[c] \in Seq(ClientSays) /\ c2s[c] \in Seq(ClientSays) /\ rbuf[c] # <<>>
      /\ Head(rbuf[c]) = m /\ rbuf' = [rbuf EXCEPT ![c] = Tail(rbuf[c])]
  BY DEF WireType, ServerTakes
<1>2. rbuf'[c] = Tail(rbuf[c]) /\ \A d \in Conns : d # c => rbuf'[d] = rbuf[d]
  BY <1>1 DEF WireType
<1>3. /\ rbuf[c] \o c2s[c] # <<>> /\ Head(rbuf[c] \o c2s[c]) = m
      /\ Tail(rbuf[c] \o c2s[c]) = Tail(rbuf[c]) \o c2s[c]
  BY <1>1, TailOfConcat
<1>4. Line(c)' = Tail(rbuf[c]) \o c2s[c] /\ \A d \in Conns : d # c => Line(d)' = Line(d)
  BY <1>2 DEF Line
<1>5. QED
  BY <1>3, <1>4 DEF Line

LEMMA LineFill ==
  ASSUME WireType, NEW c \in Conns, Fill(c)
  PROVE  \A d \in Conns : Line(d)' = Line(d)
<1> DEFINE q == c2s[c]
<1>1. PICK k \in 1 .. Len(q) :
        /\ rbuf' = [rbuf EXCEPT ![c] = SubSeq(q, 1, k)]
        /\ c2s' = [c2s EXCEPT ![c] = SubSeq(q, k + 1, Len(q))]
  BY DEF Fill
<1>2. q \in Seq(ClientSays) /\ Len(q) \in Nat /\ rbuf[c] = <<>>
  BY LenProperties DEF WireType, Fill
<1>3. SubSeq(q, 1, k) \o SubSeq(q, k + 1, Len(q)) = q
  <2>1. 1 \in 1 .. Len(q) + 1 /\ k \in 1 - 1 .. Len(q) /\ Len(q) \in k .. Len(q)
    BY <1>2
  <2> HIDE DEF q
  <2>2. SubSeq(q, 1, k) \o SubSeq(q, k + 1, Len(q)) = SubSeq(q, 1, Len(q))
    BY <1>2, <2>1, ConcatAdjacentSubSeq
  <2>3. QED
    BY <1>2, <2>2, SubSeqFull
<1>4. <<>> \o q = q
  BY <1>2, ConcatEmptySeq
<1>5. /\ rbuf'[c] = SubSeq(q, 1, k) /\ c2s'[c] = SubSeq(q, k + 1, Len(q))
      /\ \A d \in Conns : d # c => rbuf'[d] = rbuf[d] /\ c2s'[d] = c2s[d]
  BY <1>1 DEF WireType
<1>6. QED
  BY <1>2, <1>3, <1>4, <1>5 DEF Line

LEMMA LineWrites ==
  ASSUME WireType, NEW c \in Conns, NEW ms \in Seq(ClientSays),
         ClientWrites(c, ms) \/ c2s' = Says(c2s, c, ms), UNCHANGED rbuf
  PROVE  /\ Line(c)' = Line(c) \/ Line(c)' = Line(c) \o ms
         /\ \A d \in Conns : d # c => Line(d)' = Line(d)
<1>1. c2s' = c2s \/ c2s' = [c2s EXCEPT ![c] = c2s[c] \o ms]
  BY DEF ClientWrites, Says
<1>2. rbuf[c] \in Seq(ClientSays) /\ c2s[c] \in Seq(ClientSays)
  BY DEF WireType
<1>3. (rbuf[c] \o c2s[c]) \o ms = rbuf[c] \o (c2s[c] \o ms)
  <2> DEFINE p == rbuf[c]
             q == c2s[c]
  <2>1. p \in Seq(ClientSays) /\ q \in Seq(ClientSays)
    BY <1>2
  <2> HIDE DEF p, q
  <2>2. (p \o q) \o ms = p \o (q \o ms)
    BY <2>1, ConcatAssociative
  <2>3. QED
    BY <2>2 DEF p, q
<1>4. c2s'[c] \in {c2s[c], c2s[c] \o ms} /\ \A d \in Conns : d # c => c2s'[d] = c2s[d]
  BY <1>1 DEF WireType
<1>5. QED
  BY <1>3, <1>4 DEF Line

\* The messages that are somebody's turn: of another client its one request and the
\* answer; of the program's own clients the whole exchange, which alternates.
Turn(c) ==
  IF c \in PeerConns THEN {Publish, Play, "status"}
  ELSE {C0C1, S0S1S2, Connect, ConnectResult, CreateStream, CreateStreamResult,
        Publish, Play, "status"}

Asking(c) == Said(Line(c)) \cap Turn(c)
Answering(c) == Said(s2c[c]) \cap Turn(c)

\* The client has not begun, or has its answer.
Before(c) ==
  IF c \in PeerConns THEN role[c] = "none" ELSE called[c] = "no" \/ cloop[c] = "dial"
After(c) ==
  IF c \in PeerConns THEN role[c] = "on" ELSE called[c] = "ok" \/ result[c] = 1

\* There is one turn at a time, on the way to the server or back.
OneTurn(c) ==
  /\ Lone(Line(c), Turn(c)) /\ Lone(s2c[c], Turn(c))
  /\ Asking(c) = {} \/ Answering(c) = {}
  /\ Before(c) \/ After(c) => Asking(c) = {} /\ Answering(c) = {}
  /\ stype[c] # "unknown" => Asking(c) = {} /\ Answering(c) \subseteq {"status"}

\* A client that publishes sends media before it asks, or after it heard.
MediaAfter(c) ==
  /\ MediaFirst(Line(c))
  /\ c \in OwnConns /\ "av" \in Said(Line(c)) => called[c] = "ok"

\* How far client and server have come on a connection fits together.
InStep(c) ==
  /\ ~(Before(c) /\ After(c))
  /\ Before(c) => stype[c] = "unknown"
  /\ sloop[c] = "none" => stype[c] = "unknown" /\ rbuf[c] = <<>>

\* A publisher that the group did not take has nothing left that could be read.
Harmless(c) ==
  stype[c] = "pub" /\ c \notin observer =>
    /\ "av" \notin Said(rbuf[c])
    /\ sloop[c] = "publish" \/ c \notin serverUp

Orderly(c) == OneTurn(c) /\ MediaAfter(c) /\ InStep(c) /\ Harmless(c)

\* The invariants proved so far give the types.
TurnType == RoleType /\ AnswerType /\ Fresh /\ observer \subseteq Conns

TurnInv == TurnType /\ \A c \in Conns : Orderly(c)

LEMMA TurnInit == Init => TurnInv
<1> SUFFICES ASSUME Init PROVE TurnInv
  OBVIOUS
<1>1. TurnType
  BY RoleInit, AnswerInit DEF RoleInv, AnswerInv, TurnType, Init, ServerInit
<1>2. ASSUME NEW c \in Conns PROVE Orderly(c)
  <2>1. /\ rbuf[c] = <<>> /\ c2s[c] = <<>> /\ s2c[c] = <<>>
        /\ stype[c] = "unknown"
        /\ c \in PeerConns => role[c] = "none"
        /\ c \in OwnConns => called[c] = "no" /\ result[c] = 0
        /\ c \in PeerConns \/ c \in OwnConns
    BY DEF Init, WireInit, ServerInit, ClientInit, Conns, OwnConns
  <2>2. Line(c) = <<>> /\ Said(<<>>) = {}
    BY <2>1, EmptySeq, ConcatEmptySeq DEF Line, Said
  <2>3. Lone(<<>>, Turn(c)) /\ MediaFirst(<<>>)
    BY DEF Lone, MediaFirst
  <2>4. QED
    BY <2>1, <2>2, <2>3
    DEF Orderly, OneTurn, MediaAfter, InStep, Harmless, Asking, Answering, Before, After
<1>3. QED
  BY <1>1, <1>2 DEF TurnInv

\* The server serves m on a connection and writes ms back, if the client is still there.
LEMMA ServerTurn ==
  ASSUME TurnType, NEW c \in Conns, OneTurn(c), MediaAfter(c),
         NEW m, NEW ms \in Seq(ServerSays),
         Line(c) # <<>>, Head(Line(c)) = m, Line(c)' = Tail(Line(c)),
         s2c'[c] = s2c[c] \/ s2c'[c] = s2c[c] \o ms,
         Lone(ms, Turn(c)), m \notin Turn(c) => Said(ms) \cap Turn(c) = {},
         UNCHANGED <<cloop, called, result, role>>,
         stype'[c] = stype[c] \/ (m \in Turn(c) /\ Said(ms) \cap Turn(c) \subseteq {"status"})
  PROVE  OneTurn(c)' /\ MediaAfter(c)'
<1> DEFINE q == Line(c)
<1>1. q \in Seq(ClientSays) /\ s2c[c] \in Seq(ServerSays)
  BY LineTyped DEF TurnType, RoleType, AnswerType
<1>2. /\ Said(Tail(q)) \subseteq Said(q) /\ m \in Said(q)
      /\ Lone(Tail(q), Turn(c)) /\ (m \in Turn(c) => Said(Tail(q)) \cap Turn(c) = {})
      /\ MediaFirst(Tail(q))
  BY <1>1, SaidTail, LoneTail, MediaTail DEF OneTurn, MediaAfter
<1>3. m \in Turn(c) => Answering(c) = {}
  BY <1>2 DEF OneTurn, Asking
<1>4. Asking(c)' \subseteq Asking(c) /\ (m \in Turn(c) => Asking(c)' = {})
  BY <1>2 DEF Asking, Turn
<1>5. Said(s2c[c] \o ms) = Said(s2c[c]) \cup Said(ms)
  BY <1>1, SaidConcat
<1>6. /\ Answering(c)' \subseteq Answering(c) \cup (Said(ms) \cap Turn(c))
      /\ m \notin Turn(c) => Answering(c)' \subseteq Answering(c)
  BY <1>5 DEF Answering, Turn
<1>7. Lone(s2c'[c], Turn(c))
  <2>1. Answering(c) = {} \/ Said(ms) \cap Turn(c) = {}
    BY <1>3
  <2>2. Lone(s2c[c] \o ms, Turn(c))
    BY <1>1, <2>1, LoneConcat DEF OneTurn, Answering
  <2>3. QED
    BY <2>2 DEF OneTurn
<1>8. Turn(c)' = Turn(c) /\ Before(c)' = Before(c) /\ After(c)' = After(c)
  BY DEF Turn, Before, After
<1>9. m \in Turn(c) => ~Before(c) /\ ~After(c) /\ stype[c] = "unknown"
  BY <1>2 DEF OneTurn, Asking
<1>10. OneTurn(c)'
  <2>1. Lone(Line(c)', Turn(c)') /\ Lone(s2c'[c], Turn(c)')
    BY <1>2, <1>7, <1>8
  <2>2. Asking(c)' = {} \/ Answering(c)' = {}
    BY <1>4, <1>6 DEF OneTurn
  <2>3. Before(c)' \/ After(c)' => Asking(c)' = {} /\ Answering(c)' = {}
    BY <1>4, <1>6, <1>8, <1>9 DEF OneTurn
  <2>4. stype'[c] # "unknown" => Asking(c)' = {} /\ Answering(c)' \subseteq {"status"}
    BY <1>3, <1>4, <1>6, <1>9 DEF OneTurn
  <2>5. QED
    BY <2>1, <2>2, <2>3, <2>4 DEF OneTurn
<1>11. MediaAfter(c)'
  BY <1>2 DEF MediaAfter
<1>12. QED
  BY <1>10, <1>11

\* A client hears n on a connection, or nothing, and says ms, if the server is still there.
LEMMA ClientTurn ==
  ASSUME TurnType, NEW c \in Conns, OneTurn(c), MediaAfter(c), InStep(c),
         NEW n, NEW heard \in BOOLEAN, NEW ms \in Seq(ClientSays),
         heard => s2c[c] # <<>> /\ Head(s2c[c]) = n /\ s2c'[c] = Tail(s2c[c]),
         ~heard => s2c'[c] = s2c[c],
         Line(c)' = Line(c) \/ Line(c)' = Line(c) \o ms,
         Lone(ms, Turn(c)), MediaFirst(ms), stype'[c] = stype[c],
         Said(ms) \cap Turn(c) # {} => Before(c) \/ (heard /\ n \in Turn(c) /\ n # "status"),
         Before(c)' => Before(c) /\ Said(ms) \cap Turn(c) = {},
         After(c)' => Said(ms) \cap Turn(c) = {} /\ (After(c) \/ (heard /\ n \in Turn(c))),
         "av" \in Said(ms) => /\ Before(c) \/ After(c)
                              /\ c \in OwnConns => called'[c] = "ok",
         c \in OwnConns /\ called[c] = "ok" => called'[c] = "ok"
  PROVE  OneTurn(c)' /\ MediaAfter(c)'
<1> DEFINE q == Line(c)
<1>1. q \in Seq(ClientSays) /\ s2c[c] \in Seq(ServerSays)
  BY LineTyped DEF TurnType, RoleType, AnswerType
<1>2. Turn(c)' = Turn(c)
  BY DEF Turn
<1>3. Said(q \o ms) = Said(q) \cup Said(ms)
  BY <1>1, SaidConcat
<1>4. Asking(c)' \subseteq Asking(c) \cup (Said(ms) \cap Turn(c))
  BY <1>2, <1>3 DEF Asking
<1>5. /\ Answering(c)' \subseteq Answering(c) /\ Lone(s2c'[c], Turn(c))
      /\ heard => n \in Said(s2c[c])
      /\ heard /\ n \in Turn(c) => Answering(c)' = {}
  <2>1. CASE heard
    <3>1. /\ Said(Tail(s2c[c])) \subseteq Said(s2c[c]) /\ n \in Said(s2c[c])
          /\ Lone(Tail(s2c[c]), Turn(c)) /\ (n \in Turn(c) => Said(Tail(s2c[c])) \cap Turn(c) = {})
      BY <1>1, <2>1, SaidTail, LoneTail DEF OneTurn
    <3>2. QED
      BY <1>2, <2>1, <3>1 DEF Answering
  <2>2. CASE ~heard
    BY <1>2, <2>2 DEF Answering, OneTurn
  <2>3. QED
    BY <2>1, <2>2
<1>6. heard /\ n \in Turn(c) => n \in Answering(c) /\ Asking(c) = {}
  BY <1>5 DEF Answering, OneTurn
<1>7. Said(ms) \cap Turn(c) # {} => Asking(c) = {} /\ Answering(c)' = {} /\ stype[c] = "unknown"
  BY <1>5, <1>6 DEF OneTurn, InStep
<1>8. Lone(Line(c)', Turn(c))
  <2>1. Lone(q \o ms, Turn(c))
    BY <1>1, <1>7, LoneConcat DEF OneTurn, Asking
  <2>2. QED
    BY <2>1 DEF OneTurn
<1>9. OneTurn(c)'
  <2>1. Asking(c)' = {} \/ Answering(c)' = {}
    BY <1>4, <1>5, <1>7 DEF OneTurn
  <2>2. Before(c)' \/ After(c)' => Asking(c)' = {} /\ Answering(c)' = {}
    BY <1>4, <1>5, <1>6 DEF OneTurn
  <2>3. stype'[c] # "unknown" => Asking(c)' = {} /\ Answering(c)' \subseteq {"status"}
    BY <1>4, <1>5, <1>7 DEF OneTurn
  <2>4. QED
    BY <1>2, <1>5, <1>8, <2>1, <2>2, <2>3 DEF OneTurn
<1>10. MediaAfter(c)'
  <2>1. "av" \in Said(ms) => Publish \notin Said(q)
    BY DEF OneTurn, Asking, Turn
  <2>2. MediaFirst(q \o ms)
    BY <1>1, <2>1, MediaConcat DEF MediaAfter
  <2>3. MediaFirst(Line(c)')
    BY <2>2 DEF MediaAfter
  <2>4. "av" \in Said(Line(c))' => "av" \in Said(q) \/ "av" \in Said(ms)
    BY <1>3
  <2>5. QED
    BY <2>3, <2>4 DEF MediaAfter
<1>11. QED
  BY <1>9, <1>10

\* A connection that a step does not touch.
LEMMA OrderlySame ==
  ASSUME NEW c \in Conns, Orderly(c), Line(c)' = Line(c), rbuf'[c] = rbuf[c],
         s2c'[c] = s2c[c] \/ (Said(s2c'[c]) \cap Turn(c) = Said(s2c[c]) \cap Turn(c)
                              /\ Lone(s2c'[c], Turn(c))),
         stype'[c] = stype[c], sloop'[c] = sloop[c],
         c \in OwnConns => called'[c] = called[c] /\ cloop'[c] = cloop[c] /\ result'[c] = result[c],
         c \in PeerConns => role'[c] = role[c],
         c \in observer => c \in observer', c \in serverUp' => c \in serverUp
  PROVE  Orderly(c)'
<1>1. c \in PeerConns \/ c \in OwnConns
  BY DEF Conns, OwnConns
<1>2. Turn(c)' = Turn(c) /\ Before(c)' = Before(c) /\ After(c)' = After(c)
  BY <1>1 DEF Turn, Before, After
<1>3. Asking(c)' = Asking(c) /\ Answering(c)' = Answering(c) /\ Lone(s2c'[c], Turn(c))
  BY <1>2 DEF Asking, Answering, Orderly, OneTurn
<1>4. OneTurn(c)'
  BY <1>2, <1>3 DEF Orderly, OneTurn
<1>5. MediaAfter(c)' /\ InStep(c)' /\ Harmless(c)'
  BY <1>2 DEF Orderly, MediaAfter, InStep, Harmless
<1>6. QED
  BY <1>4, <1>5 DEF Orderly

\* Single writes hold at most one turn.
LEMMA LoneOne == ASSUME NEW x, NEW T PROVE Lone(<<x>>, T)
BY DEF Lone

LEMMA LoneTwo == ASSUME NEW x, NEW y, NEW T, x \notin T PROVE Lone(<<x, y>>, T)
BY DEF Lone

LEMMA LoneThree == ASSUME NEW x, NEW y, NEW z, NEW T, x \notin T, y \notin T PROVE Lone(<<x, y, z>>, T)
BY DEF Lone

LEMMA NoMedia == ASSUME NEW q, Publish \notin Said(q) \/ "av" \notin Said(q) PROVE MediaFirst(q)
BY DEF Said, MediaFirst

\* The server serves m on connection c and answers ms; only doPublish and doPlay set
\* the session's type.
LEMMA Serves ==
  ASSUME TurnInv, NEW c \in Conns, NEW m, NEW ms \in Seq(ServerSays), NEW l,
         ServerTakes(c, m), UNCHANGED <<c2s, serverUp, observer, cloop, called, result, role>>,
         ServerWrites(c, ms) \/ s2c' = s2c, Lone(ms, Turn(c)), m \notin Turn(c) => Said(ms) \cap Turn(c) = {},
         sloop[c] \in {"C0C1", "C2", "read"}, l # "none", l # "publish" \/ m = Publish,
         sloop' = sloop \/ sloop' = [sloop EXCEPT ![c] = l],
         \/ stype' = stype
         \/ /\ m \in {Publish, Play} /\ Said(ms) \cap Turn(c) \subseteq {"status"}
            /\ \/ m = Publish /\ stype' = [stype EXCEPT ![c] = "pub"] /\ l = "publish"
                  /\ sloop' = [sloop EXCEPT ![c] = l]
               \/ stype' = [stype EXCEPT ![c] = "sub"]
  PROVE  \A d \in Conns : Orderly(d)'
<1>1. TurnType /\ WireType
  BY DEF TurnInv, TurnType, RoleType
<1>2. /\ Line(c) # <<>> /\ Head(Line(c)) = m /\ Line(c)' = Tail(Line(c))
      /\ \A d \in Conns : d # c => Line(d)' = Line(d)
  BY <1>1, LineTakes
<1>3. /\ rbuf[c] \in Seq(ClientSays) /\ rbuf[c] # <<>> /\ Head(rbuf[c]) = m
      /\ rbuf'[c] = Tail(rbuf[c]) /\ \A d \in Conns : d # c => rbuf'[d] = rbuf[d]
  BY <1>1 DEF WireType, ServerTakes
<1>4. /\ s2c'[c] = s2c[c] \/ s2c'[c] = s2c[c] \o ms
      /\ \A d \in Conns : d # c => s2c'[d] = s2c[d]
  BY <1>1 DEF ServerWrites, Says, TurnType, AnswerType
<1>5. /\ \A d \in Conns : d # c => stype'[d] = stype[d] /\ sloop'[d] = sloop[d]
      /\ sloop'[c] \in {sloop[c], l} /\ sloop'[c] # "none"
  BY <1>1 DEF TurnType, RoleType
<1>6. ASSUME NEW d \in Conns, d # c PROVE Orderly(d)'
  <2>1. Orderly(d)
    BY DEF TurnInv
  <2>2. QED
    BY <1>2, <1>3, <1>4, <1>5, <1>6, <2>1, OrderlySame
<1>7. Orderly(c)
  BY DEF TurnInv
<1>8. stype'[c] = stype[c] \/ (m \in Turn(c) /\ Said(ms) \cap Turn(c) \subseteq {"status"})
  BY DEF Turn
<1>9. OneTurn(c)' /\ MediaAfter(c)'
  BY <1>1, <1>2, <1>4, <1>7, <1>8, ServerTurn DEF Orderly
<1>10. InStep(c)'
  <2>1. Before(c)' = Before(c) /\ After(c)' = After(c)
    BY DEF Before, After
  <2>2. stype'[c] = stype[c] \/ ~Before(c)
    <3>1. m \in Said(Line(c))
      BY <1>1, <1>2, LineTyped, SaidTail
    <3>2. m \in Turn(c) => ~Before(c)
      BY <1>7, <3>1 DEF Orderly, OneTurn, Asking
    <3>3. QED
      BY <1>8, <3>2
  <2>3. QED
    BY <1>5, <1>7, <2>1, <2>2 DEF Orderly, InStep
<1>11. Harmless(c)'
  <2>1. Said(rbuf'[c]) \subseteq Said(rbuf[c])
    BY <1>3, SaidTail
  <2>2. CASE stype'[c] = stype[c]
    BY <1>7, <2>1, <2>2 DEF Orderly, Harmless
  <2>3. CASE m = Publish /\ stype'[c] = "pub" /\ sloop'[c] = "publish"
    <3>1. "av" \notin Said(Tail(Line(c)))
      BY <1>1, <1>2, <1>7, <2>3, LineTyped, MediaTail DEF Orderly, MediaAfter
    <3>2. Said(rbuf'[c]) \subseteq Said(Line(c)')
      <4> DEFINE p == Tail(rbuf[c])
                 q == c2s'[c]
      <4>1. p \in Seq(ClientSays) /\ q \in Seq(ClientSays)
        BY <1>1, <1>3, SaidTail DEF WireType
      <4> HIDE DEF p, q
      <4>2. Said(p \o q) = Said(p) \cup Said(q)
        BY <4>1, SaidConcat
      <4>3. QED
        BY <1>3, <4>2 DEF Line, p, q
    <3>3. QED
      BY <1>2, <2>3, <3>1, <3>2 DEF Harmless
  <2>4. CASE stype'[c] = "sub"
    BY <2>4 DEF Harmless
  <2>5. QED
    BY <1>1, <1>5, <2>2, <2>3, <2>4 DEF TurnType, RoleType
<1>12. QED
  BY <1>6, <1>9, <1>10, <1>11 DEF Orderly

\* Steps of a session's goroutine that leave its connection's messages alone.
LEMMA Loops ==
  ASSUME TurnInv, NEW c \in Conns, NEW l, l # "none",
         UNCHANGED <<rbuf, c2s, s2c, stype, cloop, called, result, role>>,
         sloop' = sloop \/ sloop' = [sloop EXCEPT ![c] = l],
         sloop[c] = "publish" => c \in observer' \/ c \notin serverUp',
         observer \subseteq observer', serverUp' \subseteq serverUp
  PROVE  \A d \in Conns : Orderly(d)'
<1>1. \A d \in Conns : Line(d)' = Line(d)
  BY DEF Line
<1>2. /\ \A d \in Conns : d # c => sloop'[d] = sloop[d]
      /\ sloop'[c] = sloop[c] \/ sloop'[c] = l
  BY DEF TurnInv, TurnType, RoleType
<1>3. ASSUME NEW d \in Conns, d # c PROVE Orderly(d)'
  <2>1. Orderly(d)
    BY DEF TurnInv
  <2>2. QED
    BY <1>1, <1>2, <1>3, <2>1, OrderlySame
<1>4. Orderly(c)
  BY DEF TurnInv
<1>5. Turn(c)' = Turn(c) /\ Before(c)' = Before(c) /\ After(c)' = After(c)
  BY DEF Turn, Before, After
<1>6. Asking(c)' = Asking(c) /\ Answering(c)' = Answering(c)
  BY <1>1, <1>5 DEF Asking, Answering
<1>7. OneTurn(c)' /\ MediaAfter(c)'
  BY <1>1, <1>4, <1>5, <1>6 DEF Orderly, OneTurn, MediaAfter
<1>8. InStep(c)' /\ Harmless(c)'
  BY <1>2, <1>4, <1>5 DEF Orderly, InStep, Harmless
<1>9. QED
  BY <1>3, <1>7, <1>8 DEF Orderly

LEMMA TurnReads ==
  ASSUME TurnInv, NEW c \in Conns, ReadMore(c), UNCHANGED <<cloop, called, result, role>>
  PROVE  \A d \in Conns : Orderly(d)'
<1>1. /\ sloop[c] \in {"C0C1", "C2", "read"} /\ c \in serverUp /\ Fill(c)
      /\ UNCHANGED <<s2c, serverUp, stype, sloop, observer>>
  BY DEF ReadMore, Fill, serverVars
<1>2. WireType
  BY DEF TurnInv, TurnType, RoleType
<1>3. \A d \in Conns : Line(d)' = Line(d)
  BY <1>1, <1>2, LineFill
<1>4. \A d \in Conns : d # c => rbuf'[d] = rbuf[d]
  BY <1>1, <1>2 DEF Fill, WireType
<1>5. ASSUME NEW d \in Conns, d # c PROVE Orderly(d)'
  <2>1. Orderly(d)
    BY DEF TurnInv
  <2>2. QED
    BY <1>1, <1>3, <1>4, <1>5, <2>1, OrderlySame
<1>6. Orderly(c)
  BY DEF TurnInv
<1>7. Turn(c)' = Turn(c) /\ Before(c)' = Before(c) /\ After(c)' = After(c)
  BY DEF Turn, Before, After
<1>8. Asking(c)' = Asking(c) /\ Answering(c)' = Answering(c)
  BY <1>1, <1>3, <1>7 DEF Asking, Answering
<1>9. OneTurn(c)' /\ MediaAfter(c)'
  BY <1>1, <1>3, <1>6, <1>7, <1>8 DEF Orderly, OneTurn, MediaAfter
<1>10. InStep(c)' /\ Harmless(c)'
  BY <1>1, <1>6, <1>7 DEF Orderly, InStep, Harmless
<1>11. QED
  BY <1>5, <1>9, <1>10 DEF Orderly

\* The group's media is nobody's turn.
LEMMA TurnMedia ==
  ASSUME TurnInv, NEW c \in Conns, OnReadRTMPAVMsg(c), UNCHANGED <<cloop, called, result, role>>
  PROVE  \A d \in Conns : Orderly(d)'
<1>1. /\ sloop[c] = "read" /\ ServerTakes(c, "av")
      /\ UNCHANGED <<c2s, serverUp, stype, observer>>
      /\ sloop' = sloop \/ sloop' = [sloop EXCEPT ![c] = "ended"]
  BY DEF OnReadRTMPAVMsg, Reads, Goes, Session
<1>2. TurnType /\ WireType
  BY DEF TurnInv, TurnType, RoleType
<1>3. /\ Line(c) # <<>> /\ Head(Line(c)) = "av" /\ Line(c)' = Tail(Line(c))
      /\ \A d \in Conns : d # c => Line(d)' = Line(d)
  BY <1>1, <1>2, LineTakes
<1>4. /\ rbuf[c] \in Seq(ClientSays) /\ rbuf[c] # <<>>
      /\ rbuf'[c] = Tail(rbuf[c]) /\ \A d \in Conns : d # c => rbuf'[d] = rbuf[d]
  BY <1>1, <1>2 DEF WireType, ServerTakes
<1>5. /\ \A d \in Conns : d # c => sloop'[d] = sloop[d]
      /\ sloop'[c] \in {"read", "ended"}
  BY <1>1, <1>2 DEF TurnType, RoleType
<1>6. <<"av">> \in Seq(ServerSays) /\ Said(<<"av">>) = {"av"}
  <2>1. "av" \in ServerSays
    BY DEF ServerSays
  <2>2. QED
    BY <2>1, One
<1>7. ASSUME NEW d \in Conns
      PROVE  s2c[d] \in Seq(ServerSays) /\ (s2c'[d] = s2c[d] \/ s2c'[d] = s2c[d] \o <<"av">>)
  <2>1. s2c[d] \in Seq(ServerSays)
    BY <1>2 DEF TurnType, AnswerType
  <2>2. s2c'[d] = s2c[d] \/ s2c'[d] = Append(s2c[d], "av")
    BY DEF OnReadRTMPAVMsg
  <2>3. Append(s2c[d], "av") = s2c[d] \o <<"av">>
    BY <2>1
  <2>4. QED
    BY <2>1, <2>2, <2>3
<1>8. \A d \in Conns : "av" \notin Turn(d)
  BY DEF Turn, Publish, Play, C0C1, S0S1S2, Connect, ConnectResult, CreateStream, CreateStreamResult
<1>9. ASSUME NEW d \in Conns, d # c PROVE Orderly(d)'
  <2>1. Orderly(d)
    BY DEF TurnInv
  <2>2. Said(<<"av">>) \cap Turn(d) = {} /\ Lone(<<"av">>, Turn(d))
    BY <1>6, <1>8, LoneOne
  <2>3. /\ Said(s2c[d] \o <<"av">>) = Said(s2c[d]) \cup Said(<<"av">>)
        /\ Lone(s2c[d] \o <<"av">>, Turn(d))
    <3> DEFINE p == s2c[d]
               q == <<"av">>
    <3>1. p \in Seq(ServerSays) /\ q \in Seq(ServerSays) /\ Lone(p, Turn(d)) /\ Lone(q, Turn(d))
          /\ Said(q) \cap Turn(d) = {}
      BY <1>6, <1>7, <2>1, <2>2 DEF Orderly, OneTurn
    <3> HIDE DEF p, q
    <3>2. Said(p \o q) = Said(p) \cup Said(q) /\ Lone(p \o q, Turn(d))
      BY <3>1, SaidConcat, LoneConcat
    <3>3. QED
      BY <3>2 DEF p, q
  <2>4. s2c'[d] = s2c[d] \/ (Said(s2c'[d]) \cap Turn(d) = Said(s2c[d]) \cap Turn(d)
                             /\ Lone(s2c'[d], Turn(d)))
    BY <1>7, <2>2, <2>3
  <2>5. QED
    BY <1>1, <1>3, <1>4, <1>5, <1>9, <2>1, <2>4, OrderlySame
<1>10. Orderly(c)
  BY DEF TurnInv
<1>11. OneTurn(c)' /\ MediaAfter(c)'
  <2>1. Said(<<"av">>) \cap Turn(c) = {} /\ Lone(<<"av">>, Turn(c))
    BY <1>6, <1>8, LoneOne
  <2>2. QED
    BY <1>1, <1>2, <1>3, <1>6, <1>7, <1>10, <2>1, ServerTurn DEF Orderly
<1>12. InStep(c)' /\ Harmless(c)'
  <2>1. Said(rbuf'[c]) \subseteq Said(rbuf[c])
    BY <1>4, SaidTail
  <2>2. Before(c)' = Before(c) /\ After(c)' = After(c)
    BY DEF Before, After
  <2>3. QED
    BY <1>1, <1>5, <1>10, <2>1, <2>2 DEF Orderly, InStep, Harmless
<1>13. QED
  BY <1>9, <1>11, <1>12 DEF Orderly

LEMMA TurnServer ==
  ASSUME TurnInv, RoleInv, NEW c \in Conns, ServerStep(c) \/ Dispose(c) \/ Accept(c),
         UNCHANGED <<clientVars, peerVars>>
  PROVE  \A d \in Conns : Orderly(d)'
<1>1. UNCHANGED <<cloop, called, result, role>>
  BY DEF clientVars, peerVars
<1>2. sloop[c] = "publish" => stype[c] = "pub"
  BY DEF RoleInv, Registered
<1>3. CASE ReadMore(c)
  BY <1>1, <1>3, TurnReads
<1>4. CASE OnReadRTMPAVMsg(c)
  BY <1>1, <1>4, TurnMedia
<1>5. ASSUME NEW m, NEW l \in {"C2", "read", "ended"}, ServerTakes(c, m), m \notin Turn(c),
             UNCHANGED <<c2s, serverUp, observer, stype, s2c>>,
             sloop[c] \in {"C0C1", "C2", "read"},
             sloop' = sloop \/ sloop' = [sloop EXCEPT ![c] = l]
      PROVE  \A d \in Conns : Orderly(d)'
  <2>1. <<>> \in Seq(ServerSays) /\ Lone(<<>>, Turn(c)) /\ Said(<<>>) \cap Turn(c) = {}
    BY EmptySeq DEF Lone, Said
  <2>2. QED
    BY <1>1, <1>5, <2>1, Serves
<1>6. CASE LoopFails(c)
  <2>1. /\ sloop[c] \in {"C0C1", "C2", "read"} /\ sloop' = [sloop EXCEPT ![c] = "ended"]
        /\ UNCHANGED <<c2s, serverUp, observer, stype, s2c>>
        /\ rbuf' = rbuf \/ ServerTakes(c, "bad")
    BY <1>6 DEF LoopFails, Goes, Session
  <2>2. CASE rbuf' = rbuf
    BY <1>1, <2>1, <2>2, Loops
  <2>3. CASE ServerTakes(c, "bad")
    <3>1. "bad" \notin Turn(c)
      BY DEF Turn, Publish, Play, C0C1, S0S1S2, Connect, ConnectResult, CreateStream,
             CreateStreamResult
    <3>2. QED
      BY <1>5, <2>1, <2>3, <3>1
  <2>4. QED
    BY <2>1, <2>2, <2>3
<1>7. CASE ReadC2(c)
  <2>1. C2 \notin Turn(c)
    BY DEF Turn, Publish, Play, C2, C0C1, S0S1S2, Connect, ConnectResult, CreateStream,
           CreateStreamResult
  <2>2. QED
    BY <1>5, <1>7, <2>1 DEF ReadC2, Goes, Session
<1>8. CASE doOther(c)
  <2>1. "other" \notin Turn(c)
    BY DEF Turn, Publish, Play, C0C1, S0S1S2, Connect, ConnectResult, CreateStream,
           CreateStreamResult
  <2>2. QED
    BY <1>5, <1>8, <2>1 DEF doOther, Reads, serverVars
<1>9. CASE ReadC0C1(c)
  <2>1. /\ <<S0S1S2>> \in Seq(ServerSays) /\ Said(<<S0S1S2>>) = {S0S1S2}
        /\ Lone(<<S0S1S2>>, Turn(c))
    <3>1. S0S1S2 \in ServerSays
      BY DEF ServerSays
    <3>2. QED
      BY <3>1, One, LoneOne
  <2>2. C0C1 \notin Turn(c) => S0S1S2 \notin Turn(c)
    BY DEF Turn, Publish, Play, S0S1S2
  <2>3. C0C1 \notin Turn(c) => Said(<<S0S1S2>>) \cap Turn(c) = {}
    BY <2>1, <2>2
  <2>4. /\ ServerTakes(c, C0C1) /\ ServerWrites(c, <<S0S1S2>>) /\ sloop[c] = "C0C1"
        /\ sloop' = [sloop EXCEPT ![c] = "C2"] /\ UNCHANGED <<c2s, serverUp, stype, observer>>
    BY <1>9 DEF ReadC0C1, Goes, Session
  <2> DEFINE l == "C2"
  <2>5. sloop' = [sloop EXCEPT ![c] = l] /\ l # "none" /\ l # "publish"
    BY <2>4
  <2> HIDE DEF l
  <2>6. QED
    BY <1>1, <2>1, <2>3, <2>4, <2>5, Serves
<1>10. CASE doConnect(c)
  <2>1. ProtocolControl \in ServerSays /\ ConnectResult \in ServerSays
    BY DEF ServerSays
  <2>2. ProtocolControl \notin Turn(c)
    BY DEF Turn, Publish, Play, C0C1, S0S1S2, Connect, ConnectResult, CreateStream,
           CreateStreamResult, ProtocolControl
  <2>3. /\ <<ProtocolControl, ConnectResult>> \in Seq(ServerSays)
        /\ Said(<<ProtocolControl, ConnectResult>>) = {ProtocolControl, ConnectResult}
        /\ Lone(<<ProtocolControl, ConnectResult>>, Turn(c))
    BY <2>1, <2>2, Two, LoneTwo
  <2>4. Connect \notin Turn(c) => ConnectResult \notin Turn(c)
    BY DEF Turn, Publish, Play, ConnectResult
  <2>5. QED
    BY <1>1, <1>10, <2>2, <2>3, <2>4, Serves DEF doConnect, Reads, serverVars
<1>11. CASE doCreateStream(c)
  <2>1. /\ <<CreateStreamResult>> \in Seq(ServerSays)
        /\ Said(<<CreateStreamResult>>) = {CreateStreamResult}
        /\ Lone(<<CreateStreamResult>>, Turn(c))
    <3>1. CreateStreamResult \in ServerSays
      BY DEF ServerSays
    <3>2. QED
      BY <3>1, One, LoneOne
  <2>2. CreateStream \notin Turn(c) => CreateStreamResult \notin Turn(c)
    BY DEF Turn, Publish, Play, CreateStreamResult
  <2>3. QED
    BY <1>1, <1>11, <2>1, <2>2, Serves DEF doCreateStream, Reads, serverVars
<1>12. CASE doPublish(c)
  <2>1. /\ <<OnStatusPublish>> \in Seq(ServerSays) /\ Said(<<OnStatusPublish>>) = {"status"}
        /\ Lone(<<OnStatusPublish>>, Turn(c))
    <3>1. OnStatusPublish \in ServerSays
      BY DEF ServerSays
    <3>2. QED
      BY <3>1, One, LoneOne DEF OnStatusPublish
  <2>2. Publish \in Turn(c)
    BY DEF Turn
  <2>3. QED
    BY <1>1, <1>12, <2>1, <2>2, Serves DEF doPublish, Reads, Goes
<1>13. CASE doPlay(c)
  <2>1. UserControl \in ServerSays /\ OnStatusPlay \in ServerSays
    BY DEF ServerSays
  <2>2. UserControl \notin Turn(c)
    BY DEF Turn, Publish, Play, C0C1, S0S1S2, Connect, ConnectResult, CreateStream,
           CreateStreamResult, UserControl
  <2>3. /\ <<UserControl, OnStatusPlay>> \in Seq(ServerSays)
        /\ Said(<<UserControl, OnStatusPlay>>) = {UserControl, "status"}
        /\ Lone(<<UserControl, OnStatusPlay>>, Turn(c))
    BY <2>1, <2>2, Two, LoneTwo DEF OnStatusPlay
  <2>4. Play \in Turn(c) /\ Said(<<UserControl, OnStatusPlay>>) \cap Turn(c) \subseteq {"status"}
    BY <2>2, <2>3 DEF Turn
  <2>5. /\ ServerTakes(c, Play) /\ ServerWrites(c, <<UserControl, OnStatusPlay>>) /\ sloop[c] = "read"
        /\ sloop' = [sloop EXCEPT ![c] = "play"] /\ stype' = [stype EXCEPT ![c] = "sub"]
        /\ UNCHANGED <<c2s, serverUp, observer>>
    BY <1>13 DEF doPlay, Reads, Goes
  <2> DEFINE l == "play"
  <2>6. sloop' = [sloop EXCEPT ![c] = l] /\ l # "none" /\ l # "publish"
    BY <2>5
  <2> HIDE DEF l
  <2>7. QED
    BY <1>1, <2>3, <2>4, <2>5, <2>6, Serves
<1>14. CASE OnNewRTMPPubSession(c)
  BY <1>1, <1>2, <1>14, Loops DEF OnNewRTMPPubSession, Goes
<1>15. CASE OnNewRTMPSubSession(c) \/ handleTCPConnect(c) \/ Accept(c)
  <2>1. /\ \E l \in {"read", "done", "C0C1"} : sloop' = [sloop EXCEPT ![c] = l]
        /\ sloop[c] # "publish"
        /\ UNCHANGED <<rbuf, c2s, s2c, serverUp, stype, observer>>
    BY <1>15 DEF OnNewRTMPSubSession, handleTCPConnect, Accept, Goes, Session, wireVars
  <2>2. QED
    BY <1>1, <2>1, Loops
<1>16. CASE Dispose(c)
  <2>1. UNCHANGED <<rbuf, c2s, s2c, stype, observer, sloop>> /\ serverUp' \subseteq serverUp /\ c \notin serverUp'
    BY <1>16 DEF Dispose, serverVars
  <2>2. QED
    BY <1>1, <2>1, Loops
<1>17. QED
  BY <1>3, <1>4, <1>6, <1>7, <1>8, <1>9, <1>10, <1>11, <1>12, <1>13, <1>14, <1>15, <1>16
  DEF ServerStep

\* A client's step on connection c, given how it leaves that connection.
LEMMA Acts ==
  ASSUME TurnInv, NEW c \in Conns,
         \A d \in Conns : d # c => Line(d)' = Line(d) /\ s2c'[d] = s2c[d],
         \A d \in Conns : d # c => rbuf'[d] = rbuf[d], UNCHANGED <<stype, sloop, observer>>,
         rbuf'[c] = rbuf[c] \/ sloop[c] = "none",
         sloop[c] = "none" => rbuf'[c] = <<>>,
         \A d \in OwnConns : d # c =>
           called'[d] = called[d] /\ cloop'[d] = cloop[d] /\ result'[d] = result[d],
         \A d \in PeerConns : d # c => role'[d] = role[d],
         serverUp' \subseteq serverUp \cup {c},
         c \in serverUp' => c \in serverUp \/ stype[c] = "unknown",
         OneTurn(c)', MediaAfter(c)', ~(Before(c)' /\ After(c)'), Before(c)' => Before(c)
  PROVE  \A d \in Conns : Orderly(d)'
<1>1. ASSUME NEW d \in Conns, d # c PROVE Orderly(d)'
  <2>1. Orderly(d)
    BY DEF TurnInv
  <2>2. QED
    BY <1>1, <2>1, OrderlySame
<1>2. Orderly(c)
  BY DEF TurnInv
<1>3. InStep(c)'
  BY <1>2 DEF Orderly, InStep
<1>4. Harmless(c)'
  BY <1>2 DEF Orderly, Harmless, InStep
<1>5. QED
  BY <1>1, <1>3, <1>4 DEF Orderly

\* Saying nothing.
LEMMA Silence ==
  <<>> \in Seq(ClientSays) /\ MediaFirst(<<>>) /\ Said(<<>>) = {} /\ \A T : Lone(<<>>, T)
BY EmptySeq DEF Lone, MediaFirst, Said

\* Who hears an answer has begun, and has not had its result.
LEMMA HearsTurn ==
  ASSUME TurnInv, NEW c \in Conns, NEW m, ClientTakes(c, m)
  PROVE  /\ s2c[c] # <<>> /\ Head(s2c[c]) = m /\ s2c'[c] = Tail(s2c[c])
         /\ \A d \in Conns : d # c => s2c'[d] = s2c[d]
         /\ m \in Turn(c) => ~Before(c) /\ ~After(c)
<1>1. /\ s2c[c] \in Seq(ServerSays) /\ s2c[c] # <<>> /\ Head(s2c[c]) = m
      /\ s2c'[c] = Tail(s2c[c]) /\ \A d \in Conns : d # c => s2c'[d] = s2c[d]
  BY DEF TurnInv, TurnType, AnswerType, ClientTakes
<1>2. m \in Said(s2c[c])
  BY <1>1, SaidTail
<1>3. OneTurn(c)
  BY DEF TurnInv, Orderly
<1>4. QED
  BY <1>1, <1>2, <1>3 DEF OneTurn, Answering

LEMMA TurnOwn ==
  ASSUME TurnInv, NEW c \in OwnConns, OwnNext(c)
  PROVE  \A d \in Conns : Orderly(d)'
<1>1. /\ c \in Conns /\ c \notin PeerConns
      /\ UNCHANGED <<sloop, stype, observer, role>>
  BY ConnKinds DEF OwnNext, OwnConns, Conns, serverVars, peerVars
<1>2. /\ TurnType /\ WireType /\ Orderly(c)
      /\ called \in [OwnConns -> {"no", "waiting", "ok", "timeout"}]
      /\ cloop \in [OwnConns -> {"none", "dial", "S0S1S2", "read", "blocked", "ended"}]
      /\ result \in [OwnConns -> 0 .. 1]
      /\ called[c] = "no" => cloop[c] = "none"
      /\ cloop[c] = "dial" => sloop[c] = "none"
  BY <1>1 DEF TurnInv, TurnType, RoleType, AnswerType, Fresh
<1>3. /\ Before(c) <=> called[c] = "no" \/ cloop[c] = "dial"
      /\ After(c) <=> called[c] = "ok" \/ result[c] = 1
      /\ Before(c)' <=> called'[c] = "no" \/ cloop'[c] = "dial"
      /\ After(c)' <=> called'[c] = "ok" \/ result'[c] = 1
      /\ ~(Before(c) /\ After(c)) /\ (Before(c) => stype[c] = "unknown")
      /\ sloop[c] = "none" => rbuf[c] = <<>>
  BY <1>1, <1>2 DEF Before, After, Orderly, InStep
<1>4. Turn(c) = {C0C1, S0S1S2, Connect, ConnectResult, CreateStream, CreateStreamResult,
                 Publish, Play, "status"}
  BY <1>1 DEF Turn
<1>5. CASE Do(c) \/ DoSucceeds(c) \/ DoTimesOut(c) \/ ClientDispose(c) \/ tcpConnectFails(c)
             \/ runReadLoopEnds(c)
  <2>1. UNCHANGED <<c2s, rbuf, s2c, serverUp>>
    BY <1>5 DEF Do, DoSucceeds, DoTimesOut, ClientDispose, tcpConnectFails, runReadLoopEnds, wireVars
  <2>2. \A d \in OwnConns : d # c =>
           called'[d] = called[d] /\ cloop'[d] = cloop[d] /\ result'[d] = result[d]
    BY <1>2, <1>5
    DEF Do, DoSucceeds, DoTimesOut, ClientDispose, tcpConnectFails, runReadLoopEnds, Turns, clientVars
  <2>3. /\ Before(c)' => Before(c)
        /\ After(c)' => After(c)
        /\ called[c] = "ok" => called'[c] = "ok"
    BY <1>2, <1>3, <1>5
    DEF Do, DoSucceeds, DoTimesOut, ClientDispose, tcpConnectFails, runReadLoopEnds, Turns, clientVars
  <2>4. \A d \in Conns : Line(d)' = Line(d)
    BY <2>1 DEF Line
  <2>5. OneTurn(c)' /\ MediaAfter(c)'
    <3> DEFINE ms == <<>>
    <3>1. /\ ms \in Seq(ClientSays) /\ MediaFirst(ms) /\ Said(ms) = {} /\ Lone(ms, Turn(c))
      BY Silence
    <3> HIDE DEF ms
    <3>2. QED
      BY <1>1, <1>2, <2>1, <2>3, <2>4, <3>1, ClientTurn DEF Orderly
  <2>6. QED
    BY <1>1, <1>3, <2>1, <2>2, <2>3, <2>4, <2>5, Acts
<1>6. CASE SendMedia(c)
  <2> DEFINE ms == <<"av">>
  <2>1. /\ ms \in Seq(ClientSays) /\ Said(ms) = {"av"} /\ Lone(ms, Turn(c))
    <3>1. "av" \in ClientSays
      BY DEF ClientSays
    <3>2. QED
      BY <3>1, One, LoneOne
  <2>2. MediaFirst(ms) /\ "av" \notin Turn(c)
    BY <1>4, <2>1, NoMedia
    DEF Publish, Play, C0C1, S0S1S2, Connect, ConnectResult, CreateStream, CreateStreamResult
  <2>3. /\ called[c] = "ok" /\ ClientWrites(c, ms)
        /\ UNCHANGED <<s2c, rbuf, serverUp, cloop, called, result>>
    BY <1>6 DEF SendMedia
  <2> HIDE DEF ms
  <2>4. /\ Line(c)' = Line(c) \/ Line(c)' = Line(c) \o ms
        /\ \A d \in Conns : d # c => Line(d)' = Line(d)
    BY <1>1, <1>2, <2>1, <2>3, LineWrites
  <2>5. OneTurn(c)' /\ MediaAfter(c)'
    BY <1>1, <1>2, <1>3, <2>1, <2>2, <2>3, <2>4, ClientTurn DEF Orderly
  <2>6. QED
    BY <1>1, <1>3, <2>3, <2>4, <2>5, Acts
<1>7. CASE tcpConnect(c)
  <2> DEFINE ms == <<C0C1>>
  <2>1. /\ ms \in Seq(ClientSays) /\ Said(ms) = {C0C1} /\ Lone(ms, Turn(c))
    <3>1. C0C1 \in ClientSays
      BY DEF ClientSays
    <3>2. QED
      BY <3>1, One, LoneOne
  <2>2. MediaFirst(ms) /\ "av" \notin Said(ms)
    BY <2>1, NoMedia DEF C0C1
  <2>3. /\ cloop[c] = "dial" /\ cloop' = [cloop EXCEPT ![c] = "S0S1S2"]
        /\ c2s' = Says(c2s, c, ms) /\ serverUp' = serverUp \cup {c}
        /\ UNCHANGED <<s2c, rbuf, called, result>>
    BY <1>7 DEF tcpConnect, Turns
  <2> HIDE DEF ms
  <2>4. /\ Line(c)' = Line(c) \/ Line(c)' = Line(c) \o ms
        /\ \A d \in Conns : d # c => Line(d)' = Line(d)
    BY <1>1, <1>2, <2>1, <2>3, LineWrites
  <2>5. Before(c) /\ ~Before(c)' /\ ~After(c)'
    BY <1>2, <1>3, <2>3
  <2>6. OneTurn(c)' /\ MediaAfter(c)'
    BY <1>1, <1>2, <2>1, <2>2, <2>3, <2>4, <2>5, ClientTurn DEF Orderly
  <2>7. \A d \in OwnConns : d # c =>
           called'[d] = called[d] /\ cloop'[d] = cloop[d] /\ result'[d] = result[d]
    BY <1>2, <2>3
  <2>8. QED
    BY <1>1, <1>3, <2>3, <2>4, <2>5, <2>6, <2>7, Acts
<1>8. ASSUME NEW n, ClientTakes(c, n), n \in Turn(c), n # "status",
             NEW ms \in Seq(ClientSays), Lone(ms, Turn(c)), "av" \notin Said(ms), ClientWrites(c, ms),
             UNCHANGED <<rbuf, serverUp, called, result>>,
             cloop[c] \in {"S0S1S2", "read"},
             cloop' = cloop \/ cloop' = [cloop EXCEPT ![c] = "read"]
      PROVE  \A d \in Conns : Orderly(d)'
  <2>1. /\ s2c[c] # <<>> /\ Head(s2c[c]) = n /\ s2c'[c] = Tail(s2c[c])
        /\ \A d \in Conns : d # c => s2c'[d] = s2c[d]
        /\ ~Before(c) /\ ~After(c)
    BY <1>1, <1>8, HearsTurn
  <2>2. /\ Line(c)' = Line(c) \/ Line(c)' = Line(c) \o ms
        /\ \A d \in Conns : d # c => Line(d)' = Line(d)
    BY <1>1, <1>2, <1>8, LineWrites
  <2>3. ~Before(c)' /\ ~After(c)'
    BY <1>2, <1>3, <1>8, <2>1
  <2>4. MediaFirst(ms)
    BY <1>8, NoMedia
  <2>5. OneTurn(c)' /\ MediaAfter(c)'
    <3> DEFINE heard == TRUE
    <3>1. heard \in BOOLEAN /\ heard
      OBVIOUS
    <3> HIDE DEF heard
    <3>2. QED
      BY <1>1, <1>2, <1>8, <2>1, <2>2, <2>3, <2>4, <3>1, ClientTurn DEF Orderly
  <2>6. \A d \in OwnConns : d # c =>
           called'[d] = called[d] /\ cloop'[d] = cloop[d] /\ result'[d] = result[d]
    BY <1>2, <1>8
  <2>7. QED
    BY <1>1, <1>3, <1>8, <2>1, <2>2, <2>3, <2>5, <2>6, Acts
<1>9. CASE ReadS0S1S2(c)
  <2> DEFINE ms == <<C2, "other", Connect>>
  <2>1. /\ ms \in Seq(ClientSays) /\ Said(ms) = {C2, "other", Connect} /\ Lone(ms, Turn(c))
    <3>1. C2 \in ClientSays /\ "other" \in ClientSays /\ Connect \in ClientSays
      BY DEF ClientSays
    <3>2. C2 \notin Turn(c) /\ "other" \notin Turn(c)
      BY <1>4
      DEF C2, Publish, Play, C0C1, S0S1S2, Connect, ConnectResult, CreateStream, CreateStreamResult
    <3>3. QED
      BY <3>1, <3>2, Three, LoneThree
  <2>2. "av" \notin Said(ms) /\ S0S1S2 \in Turn(c) /\ S0S1S2 # "status"
    BY <1>4, <2>1 DEF C2, Connect, S0S1S2
  <2>3. /\ cloop[c] = "S0S1S2" /\ cloop' = [cloop EXCEPT ![c] = "read"]
        /\ ClientTakes(c, S0S1S2) /\ ClientWrites(c, ms)
        /\ UNCHANGED <<rbuf, serverUp, called, result>>
    BY <1>9 DEF ReadS0S1S2, Turns
  <2> HIDE DEF ms
  <2>4. QED
    BY <1>8, <2>1, <2>2, <2>3
<1>10. ASSUME NEW n \in {ConnectResult, CreateStreamResult}, NEW x \in {CreateStream, Play, Publish},
              Hears(c, n), ClientWrites(c, <<x>>), UNCHANGED <<rbuf, serverUp, clientVars>>
       PROVE  \A d \in Conns : Orderly(d)'
  <2> DEFINE ms == <<x>>
  <2>1. /\ ms \in Seq(ClientSays) /\ Said(ms) = {x} /\ Lone(ms, Turn(c))
    <3>1. x \in ClientSays
      BY <1>10 DEF ClientSays
    <3>2. QED
      BY <3>1, One, LoneOne
  <2>2. "av" \notin Said(ms) /\ n \in Turn(c) /\ n # "status"
    BY <1>4, <1>10, <2>1 DEF CreateStream, Play, Publish, ConnectResult, CreateStreamResult
  <2>3. cloop[c] = "read" /\ ClientTakes(c, n) /\ ClientWrites(c, ms)
        /\ UNCHANGED <<rbuf, serverUp, cloop, called, result>>
    BY <1>10 DEF Hears, clientVars
  <2> HIDE DEF ms
  <2>4. QED
    BY <1>8, <2>1, <2>2, <2>3
<1>11. CASE doResultMessage(c)
  <2>1. /\ UNCHANGED <<rbuf, serverUp, clientVars>>
        /\ \/ Hears(c, ConnectResult) /\ ClientWrites(c, <<CreateStream>>)
           \/ Hears(c, CreateStreamResult) /\ ClientWrites(c, <<Play>>)
           \/ Hears(c, CreateStreamResult) /\ ClientWrites(c, <<Publish>>)
    BY <1>11 DEF doResultMessage
  <2>2. QED
    BY <1>10, <2>1
<1>12. CASE doOnStatusMessage(c) \/ doMsg(c)
  <2>1. PICK n \in {"status", ProtocolControl, "av"} :
          /\ ClientTakes(c, n)
          /\ n = "status" \/ result' = result
    BY <1>12 DEF doOnStatusMessage, doMsg, Hears, clientVars, OnStatusPublish, OnStatusPlay
  <2>2. /\ UNCHANGED <<c2s, rbuf, serverUp, called>> /\ cloop[c] = "read"
        /\ cloop' = cloop \/ cloop' = [cloop EXCEPT ![c] = "blocked"]
        /\ result' = result \/ result' = [result EXCEPT ![c] = 1]
    BY <1>12 DEF doOnStatusMessage, doMsg, Hears, Turns, clientVars
  <2>3. /\ s2c[c] # <<>> /\ Head(s2c[c]) = n /\ s2c'[c] = Tail(s2c[c])
        /\ \A d \in Conns : d # c => s2c'[d] = s2c[d]
        /\ n \in Turn(c) => ~Before(c) /\ ~After(c)
    BY <1>1, <2>1, HearsTurn
  <2>4. /\ Before(c)' => Before(c) /\ n # "status"
        /\ After(c)' => After(c) \/ n = "status"
        /\ ~(Before(c)' /\ After(c)')
    BY <1>2, <1>3, <1>4, <2>1, <2>2, <2>3
  <2>5. \A d \in Conns : Line(d)' = Line(d)
    BY <2>2 DEF Line
  <2>6. OneTurn(c)' /\ MediaAfter(c)'
    <3> DEFINE ms == <<>>
               heard == TRUE
    <3>1. /\ ms \in Seq(ClientSays) /\ MediaFirst(ms) /\ Said(ms) = {} /\ Lone(ms, Turn(c))
          /\ heard \in BOOLEAN /\ heard /\ "status" \in Turn(c)
      BY <1>4, Silence
    <3> HIDE DEF ms, heard
    <3>2. QED
      BY <1>1, <1>2, <2>2, <2>3, <2>4, <2>5, <3>1, ClientTurn DEF Orderly
  <2>7. \A d \in OwnConns : d # c =>
           called'[d] = called[d] /\ cloop'[d] = cloop[d] /\ result'[d] = result[d]
    BY <1>2, <2>2
  <2>8. QED
    BY <1>1, <1>3, <2>2, <2>3, <2>4, <2>5, <2>6, <2>7, Acts
<1>13. QED
  BY <1>5, <1>6, <1>7, <1>9, <1>11, <1>12 DEF OwnNext, ClientStep

\* Another client that asks once and waits for the answer.
LEMMA TurnPeer ==
  ASSUME OneRole, Waits, TurnInv, NEW c \in PeerConns, PeerNext(c)
  PROVE  \A d \in Conns : Orderly(d)'
<1>1. /\ c \in Conns /\ c \notin OwnConns
      /\ UNCHANGED <<rbuf, sloop, stype, observer, cloop, called, result>>
  BY ConnKinds
  DEF PeerNext, PeerConnects, PeerSays, PeerHears, PeerLeaves, OwnConns, Conns, serverVars, clientVars
<1>2. /\ TurnType /\ WireType /\ Orderly(c)
      /\ role \in [PeerConns -> {"none", "asked", "on"}]
  BY <1>1 DEF TurnInv, TurnType, RoleType
<1>3. /\ Before(c) <=> role[c] = "none"
      /\ After(c) <=> role[c] = "on"
      /\ Before(c)' <=> role'[c] = "none"
      /\ After(c)' <=> role'[c] = "on"
      /\ sloop[c] = "none" => rbuf[c] = <<>> /\ stype[c] = "unknown"
      /\ Turn(c) = {"publish", "play", "status"}
  BY <1>1, <1>2 DEF Before, After, Orderly, InStep, Turn, Publish, Play
<1>4. CASE PeerConnects(c)
  <2> DEFINE ms == <<C0C1, C2, Connect>>
  <2>1. /\ ms \in Seq(ClientSays) /\ Said(ms) = {C0C1, C2, Connect}
    BY Three DEF ClientSays
  <2>2. Said(ms) \cap Turn(c) = {} /\ "av" \notin Said(ms)
    BY <1>3, <2>1 DEF C0C1, C2, Connect
  <2>3. c2s' = [c2s EXCEPT ![c] = ms] /\ rbuf[c] = <<>> /\ stype[c] = "unknown"
    BY <1>3, <1>4 DEF PeerConnects, C0C1, C2, Connect
  <2> HIDE DEF ms
  <2>4. /\ UNCHANGED <<s2c, role>> /\ serverUp' = serverUp \cup {c}
    BY <1>4 DEF PeerConnects, peerVars
  <2>5. Line(c)' = ms /\ \A d \in Conns : d # c => Line(d)' = Line(d)
    <3>1. <<>> \o ms = ms
      BY <2>1, ConcatEmptySeq
    <3>2. QED
      BY <1>1, <1>2, <2>3, <3>1 DEF Line, WireType
  <2>6. Turn(c)' = Turn(c) /\ Asking(c)' = {} /\ Answering(c)' = Answering(c)
    BY <2>2, <2>4, <2>5 DEF Turn, Asking, Answering
  <2>7. Lone(ms, Turn(c)) /\ MediaFirst(ms)
    BY <2>2, NoMedia DEF Lone, Said
  <2>8. OneTurn(c)'
    BY <1>1, <1>2, <1>3, <2>3, <2>4, <2>5, <2>6, <2>7 DEF OneTurn, Orderly
  <2>9. MediaAfter(c)'
    BY <2>2, <2>5, <2>7 DEF MediaAfter
  <2>10. ~(Before(c)' /\ After(c)') /\ (Before(c)' => Before(c))
    BY <1>3, <2>4
  <2>11. QED
    BY <1>1, <2>3, <2>4, <2>5, <2>8, <2>9, <2>10, Acts
<1>5. CASE PeerSays(c)
  <2>1. PICK m \in {"publish", "play", "av", "bad"} :
          /\ MaySay(c, m)
          /\ ClientWrites(c, <<m>>)
          /\ role' = IF m \in {"publish", "play"} THEN [role EXCEPT ![c] = "asked"] ELSE role
    BY <1>5 DEF PeerSays
  <2> DEFINE ms == <<m>>
  <2>2. ms \in Seq(ClientSays) /\ Said(ms) = {m} /\ Lone(ms, Turn(c))
    <3>1. m \in ClientSays
      BY DEF ClientSays, Publish, Play
    <3>2. QED
      BY <3>1, One, LoneOne
  <2>3. ClientWrites(c, ms) /\ UNCHANGED <<s2c, serverUp>>
    BY <1>5, <2>1 DEF PeerSays
  <2> HIDE DEF ms
  <2>4. /\ Line(c)' = Line(c) \/ Line(c)' = Line(c) \o ms
        /\ \A d \in Conns : d # c => Line(d)' = Line(d)
    BY <1>1, <1>2, <2>2, <2>3, LineWrites
  <2>5. MediaFirst(ms)
    BY <2>2, NoMedia DEF Publish
  <2>6. /\ Said(ms) \cap Turn(c) # {} => Before(c)
        /\ Before(c)' => Before(c) /\ Said(ms) \cap Turn(c) = {}
        /\ After(c)' => Said(ms) \cap Turn(c) = {} /\ After(c)
        /\ "av" \in Said(ms) => Before(c) \/ After(c)
        /\ ~(Before(c)' /\ After(c)')
        /\ \A d \in PeerConns : d # c => role'[d] = role[d]
    BY <1>2, <1>3, <2>1, <2>2 DEF MaySay
  <2>7. OneTurn(c)' /\ MediaAfter(c)'
    <3> DEFINE heard == FALSE
    <3>1. heard \in BOOLEAN /\ ~heard
      OBVIOUS
    <3> HIDE DEF heard
    <3>2. QED
      BY <1>1, <1>2, <2>2, <2>3, <2>4, <2>5, <2>6, <3>1, ClientTurn DEF Orderly
  <2>8. QED
    BY <1>1, <1>3, <2>3, <2>4, <2>6, <2>7, Acts
<1>6. CASE PeerHears(c)
  <2>1. PICK n \in ServerSays :
          /\ ClientTakes(c, n)
          /\ role' = IF n = "status" THEN [role EXCEPT ![c] = "on"] ELSE role
    BY <1>6 DEF PeerHears
  <2>2. UNCHANGED <<c2s, serverUp>>
    BY <1>6 DEF PeerHears
  <2>3. /\ s2c[c] # <<>> /\ Head(s2c[c]) = n /\ s2c'[c] = Tail(s2c[c])
        /\ \A d \in Conns : d # c => s2c'[d] = s2c[d]
    BY <1>1, <2>1, HearsTurn
  <2>4. /\ Before(c)' => Before(c)
        /\ After(c)' => After(c) \/ n = "status"
        /\ ~(Before(c)' /\ After(c)')
        /\ \A d \in PeerConns : d # c => role'[d] = role[d]
    BY <1>2, <1>3, <2>1
  <2>5. \A d \in Conns : Line(d)' = Line(d)
    BY <1>1, <2>2 DEF Line
  <2>6. OneTurn(c)' /\ MediaAfter(c)'
    <3> DEFINE ms == <<>>
               heard == TRUE
    <3>1. /\ ms \in Seq(ClientSays) /\ MediaFirst(ms) /\ Said(ms) = {} /\ Lone(ms, Turn(c))
          /\ heard \in BOOLEAN /\ heard /\ "status" \in Turn(c)
      BY <1>3, Silence
    <3> HIDE DEF ms, heard
    <3>2. QED
      BY <1>1, <1>2, <2>3, <2>4, <2>5, <3>1, ClientTurn DEF Orderly
  <2>7. QED
    BY <1>1, <1>3, <2>2, <2>3, <2>4, <2>5, <2>6, Acts
<1>7. CASE PeerLeaves(c)
  <2>1. UNCHANGED <<c2s, s2c, serverUp, role>>
    BY <1>7 DEF PeerLeaves, peerVars
  <2>2. ASSUME NEW d \in Conns PROVE Orderly(d)'
    <3>1. Orderly(d) /\ Line(d)' = Line(d)
      BY <1>1, <2>1 DEF TurnInv, Line
    <3>2. QED
      BY <1>1, <2>1, <3>1, OrderlySame
  <2>3. QED
    BY <2>2
<1>8. QED
  BY <1>4, <1>5, <1>6, <1>7 DEF PeerNext

\* With the invariants of roles and of answers.
NilInv == RoleInv /\ AnswerInv /\ TurnInv /\ NoNilObserver

\* The only call on an observer is made for media that is being read.
LEMMA NilServer ==
  ASSUME NilInv, NEW c \in Conns, ServerNext(c)
  PROVE  NoNilObserver' /\ observer' \subseteq Conns
<1>1. WireType /\ Orderly(c) /\ observer \subseteq Conns /\ ~crashed
  BY DEF NilInv, TurnInv, TurnType, RoleType, NoNilObserver
<1>2. CASE OnReadRTMPAVMsg(c)
  <2>1. rbuf[c] # <<>> /\ Head(rbuf[c]) = "av" /\ sloop[c] = "read" /\ rbuf[c] \in Seq(ClientSays)
    BY <1>1, <1>2 DEF OnReadRTMPAVMsg, Reads, ServerTakes, WireType
  <2>2. "av" \in Said(rbuf[c])
    BY <2>1, SaidTail
  <2>3. stype[c] = "pub" => c \in observer
    BY <1>1, <2>2 DEF Orderly, Harmless
  <2>4. QED
    BY <1>1, <1>2, <2>3 DEF OnReadRTMPAVMsg, NoNilObserver, Session
<1>3. CASE ~OnReadRTMPAVMsg(c)
  <2>1. UNCHANGED crashed /\ (observer' = observer \/ observer' = observer \cup {c})
    BY <1>3
    DEF ServerNext, Accept, ServerStep, Dispose, ReadMore, LoopFails, ReadC0C1, ReadC2, doConnect,
        doCreateStream, doOther, doPublish, OnNewRTMPPubSession, doPlay, OnNewRTMPSubSession,
        handleTCPConnect, Session, serverVars
  <2>2. QED
    BY <1>1, <2>1 DEF NoNilObserver
<1>4. QED
  BY <1>2, <1>3

LEMMA NilNext ==
  ASSUME OneRole, Waits
  PROVE  NilInv /\ [Next]_vars => NilInv'
<1> SUFFICES ASSUME NilInv, [Next]_vars PROVE NilInv'
  OBVIOUS
<1>1. RoleInv' /\ AnswerInv'
  BY RoleNext, AnswerNext DEF NilInv
<1>2. TurnInv /\ \A c \in Conns : Orderly(c)
  BY DEF NilInv, TurnInv
<1>3. observer' \subseteq Conns => TurnType'
  BY <1>1 DEF TurnType, RoleInv, AnswerInv
<1>4. CASE \E c \in Conns : ServerNext(c)
  <2>1. PICK c \in Conns : ServerNext(c)
    BY <1>4
  <2>2. (ServerStep(c) \/ Dispose(c) \/ Accept(c)) /\ UNCHANGED <<clientVars, peerVars>>
    BY <2>1 DEF ServerNext, Accept
  <2>3. \A d \in Conns : Orderly(d)'
    BY <1>2, <2>2, TurnServer DEF NilInv
  <2>4. QED
    BY <1>1, <1>3, <2>1, <2>3, NilServer DEF NilInv, TurnInv
<1>5. CASE (\E c \in OwnConns : OwnNext(c)) \/ (\E c \in PeerConns : PeerNext(c))
  <2>1. \A d \in Conns : Orderly(d)'
    BY <1>2, <1>5, TurnOwn, TurnPeer
  <2>2. UNCHANGED <<observer, crashed>>
    BY <1>5
    DEF OwnNext, PeerNext, PeerConnects, PeerSays, PeerHears, PeerLeaves, serverVars
  <2>3. QED
    BY <1>1, <1>3, <2>1, <2>2 DEF NilInv, TurnInv, TurnType, NoNilObserver
<1>6. CASE UNCHANGED vars
  <2>1. UNCHANGED <<c2s, rbuf, s2c, serverUp, sloop, stype, observer, crashed, cloop, called, result, role>>
    BY <1>6 DEF vars, wireVars, serverVars, clientVars, peerVars
  <2>2. ASSUME NEW d \in Conns PROVE Orderly(d)'
    <3>1. Line(d)' = Line(d)
      BY <2>1 DEF Line
    <3>2. QED
      BY <1>2, <2>1, <3>1, OrderlySame
  <2>3. QED
    BY <1>1, <1>3, <2>1, <2>2 DEF NilInv, TurnInv, TurnType, NoNilObserver
<1>7. QED
  BY <1>4, <1>5, <1>6 DEF Next

\* If other clients ask once and send no media before the answer, no media is given to
\* an observer that was never set, although a refused publisher is told to start: what
\* it then sends meets a connection that was closed before the server read it again, and
\* the server's own buffer held no media when the request was served.
THEOREM RefusedPublisherHarmless ==
  ASSUME OneRole, Waits
  PROVE  Spec => []NoNilObserver
<1>1. NilInv /\ [Next]_vars => NilInv'
  BY NilNext
<1>2. Init => NilInv
  BY RoleInit, AnswerInit, TurnInit DEF NilInv, NoNilObserver, Init, ServerInit
<1>3. NilInv => NoNilObserver
  BY DEF NilInv
<1>4. QED
  BY <1>1, <1>2, <1>3, PTL DEF Spec
=============================================================================
