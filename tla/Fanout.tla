------------------------------- MODULE Fanout -------------------------------
(***************************************************************************)
(* How a group forwards its stream (broadcastRTMP in pkg/logic/group.go)   *)
(* to RTMP players, HTTP-FLV players (pkg/httpflv) and HTTP-TS players     *)
(* (pkg/httpts), with the sessions of the two HTTP servers from accept to  *)
(* end.  A player that is fresh gets what the GOP cache holds first.  The  *)
(* RTMP and the HTTP-FLV cache are fed alike: GopCache is either.          *)
(***************************************************************************)
EXTENDS GopCache, SequencesExt, FiniteSets

CONSTANTS
  RtmpSubs, FlvSubs, TsSubs,  \* players; relay pushes are treated as RTMP players are
  HeaderOrder,    \* HeaderKinds in the order they are written
  Video,          \* the messages of Msgs that are video
  VideoHeader,    \* the kind of header they need
  Locked,         \* messages come under the group's mutex (not those of an RTSP publisher)
  HeadersChange,  \* the input may send a sequence header anew
  MaxFed,         \* bound: messages in all
  MaxInputs,      \* bound: inputs, one after the other
  MaxPlayers      \* bound: players that are let in, of Subs

\* The answer to a player's request, with the FLV or MPEG-TS header behind it.
Response == <<"response">>

ASSUME FanoutConstants ==
  /\ Locked \in BOOLEAN /\ HeadersChange \in BOOLEAN
  /\ MaxFed \in Nat /\ MaxInputs \in Nat /\ MaxPlayers \in Nat
  /\ MaxGopLen >= MaxFed
  /\ Keys \subseteq Video /\ Video \subseteq Msgs
  /\ HeaderOrder \in Seq(HeaderKinds) /\ ToSet(HeaderOrder) = HeaderKinds
  /\ VideoHeader \in HeaderKinds
  /\ \A k \in HeaderKinds : Headers[k] \cap (Msgs \cup {Response}) = {}
  /\ \A k, l \in HeaderKinds : k # l => Headers[k] \cap Headers[l] = {}
  /\ Response \notin Msgs

Subs == RtmpSubs \cup FlvSubs \cup TsSubs

\* How many broadcasts may be under way: an RTSP publisher's two media have a goroutine
\* each over UDP.
Feeders == IF Locked THEN 1 ELSE 2

VARIABLES
  inputs, input,  \* inputs so far; there is one now
  conn,           \* where a player's goroutine is
  open,           \* connections the server has not closed and the player neither
  joined,         \* the group's sets of players
  fresh,          \* players with IsFresh
  got,            \* what was written to each player
  bc,             \* broadcasts under way: the message, and the players still to come
  fed             \* history: each message of the stream, with the headers of that time

fanVars == <<inputs, input, conn, open, joined, fresh, got, bc, fed>>
allVars == <<vars, fanVars>>

FanInit ==
  /\ Init
  /\ inputs = 0 /\ input = FALSE
  /\ conn = [s \in Subs |-> "none"]
  /\ open = {} /\ joined = {} /\ fresh = {}
  /\ got = [s \in Subs |-> <<>>]
  /\ bc = {} /\ fed = <<>>

\* What is written to a closed connection is lost.
Writes(s, ms) == got' = IF s \in open THEN [got EXCEPT ![s] = @ \o ms] ELSE got

\* Group.mutex: with a broadcast under it under way nobody else is let in.
MutexFree == Locked => bc = {}

----------------------------------------------------------------------------
(* The players' sessions.                                                  *)

\* RunLoop accepts, NewSubSession.
Accept(s) ==
  /\ conn[s] = "none"
  /\ Cardinality({p \in Subs : conn[p] # "none"}) < MaxPlayers
  /\ conn' = [conn EXCEPT ![s] = "request"]
  /\ open' = open \cup {s}
  /\ fresh' = fresh \cup {s}
  /\ UNCHANGED <<vars, inputs, input, joined, got, bc, fed>>

\* A request that cannot be read or parsed: the connection is closed.
ReadRequestFails(s) ==
  /\ conn[s] = "request"
  /\ conn' = [conn EXCEPT ![s] = "done"]
  /\ open' = open \ {s}
  /\ UNCHANGED <<vars, inputs, input, joined, fresh, got, bc, fed>>

\* The response goes out before the mutex is taken (an RTMP player has had the answer to
\* its play command by then).
ReadRequest(s) ==
  /\ conn[s] = "request"
  /\ conn' = [conn EXCEPT ![s] = "joining"]
  /\ Writes(s, <<Response>>)
  /\ UNCHANGED <<vars, inputs, input, open, joined, fresh, bc, fed>>

\* AddRTMPSubSession, AddHTTPFLVSubSession, AddHTTPTSSubSession, under the mutex.
AddSubSession(s) ==
  /\ conn[s] = "joining"
  /\ MutexFree
  /\ conn' = [conn EXCEPT ![s] = "reading"]
  /\ joined' = joined \cup {s}
  /\ UNCHANGED <<vars, inputs, input, open, fresh, got, bc, fed>>

\* The player closes, or the group disposes of the session (kick, drop, its own end).
Closes(s) ==
  /\ s \in open
  /\ open' = open \ {s}
  /\ UNCHANGED <<vars, inputs, input, conn, joined, fresh, got, bc, fed>>

\* RunLoop waits for the end of the connection, or any byte of the player: with either,
\* the session is deleted, and not disposed of.
DelSubSession(s) ==
  /\ conn[s] = "reading"
  /\ MutexFree
  /\ conn' = [conn EXCEPT ![s] = "done"]
  /\ joined' = joined \ {s}
  /\ UNCHANGED <<vars, inputs, input, open, fresh, got, bc, fed>>

----------------------------------------------------------------------------
(* The input.                                                              *)

addIn ==
  /\ ~input /\ inputs < MaxInputs
  /\ MutexFree
  /\ input' = TRUE
  /\ inputs' = inputs + 1
  /\ UNCHANGED <<vars, conn, open, joined, fresh, got, bc, fed>>

\* Both caches are cleared; players stay.
delIn ==
  /\ input
  /\ MutexFree
  /\ input' = FALSE
  /\ Clear
  /\ UNCHANGED <<inputs, conn, open, joined, fresh, got, bc, fed>>

\* A message of the stream, numbered: a header, a key frame or another one.  An input's
\* video begins with its header and a key frame.
KindOf(m) == CHOOSE k \in HeaderKinds : m \in Headers[k]
IsHeader(m) == \E k \in HeaderKinds : m \in Headers[k]
Sendable(m) ==
  /\ m[2] = Len(fed) + 1
  /\ IsHeader(m) /\ ~HeadersChange => header[KindOf(m)] = None
  /\ m \in Video => header[VideoHeader] # None
  /\ m \in Video \ Keys => ~isGOPRingEmpty

\* OnReadRTMPAVMsg takes the mutex, OnAVPacket (RTSP) does not.
OnMsg(m) ==
  /\ input
  /\ Cardinality(bc) < Feeders
  /\ Sendable(m)
  /\ bc' = bc \cup {[msg |-> m, todo |-> joined]}
  /\ fed' = Append(fed, [msg |-> m, header |-> header])
  /\ UNCHANGED <<vars, inputs, input, conn, open, joined, fresh, got>>

CachedHeaders ==
  FlattenSeq([i \in DOMAIN HeaderOrder |->
                IF header[HeaderOrder[i]] = None THEN <<>> ELSE <<header[HeaderOrder[i]]>>])

\* Mutants: a fresh player is not given the headers; it is not given the GOPs.
Cached_NoHeaders == FlattenSeq(Gops)
Cached_NoGops == CachedHeaders

\* What the cache holds, headers first.
Cached == CachedHeaders \o FlattenSeq(Gops)

\* What the HLS muxer makes of a message: for each way it can, whether the packets are a
\* boundary.  Headers give no packets, audio gives them now or with a later message; a key
\* frame is a boundary if audio is cached or there is none, audio if there is no video.
Packets(m) ==
  CASE IsHeader(m) -> {}
    [] m \in Keys -> BOOLEAN
    [] m \in Video \ Keys -> {FALSE}
    [] OTHER -> {header[VideoHeader] = None}

\* OnTSPackets, called from within the muxer: a fresh player waits for a boundary.
OnTSPackets(s, m) ==
  \/ \E boundary \in Packets(m) :
       LET given == s \notin fresh \/ boundary
       IN /\ Writes(s, IF given THEN <<m>> ELSE <<>>)
          /\ fresh' = IF given THEN fresh \ {s} ELSE fresh
  \/ m \notin Video /\ UNCHANGED <<got, fresh>>

\* Mutant: a player stays fresh when the cache was empty.
writeTo_StaysFresh(s, m) ==
  \/ /\ s \in TsSubs
     /\ OnTSPackets(s, m)
  \/ /\ s \notin TsSubs
     /\ Writes(s, (IF s \in fresh THEN Cached ELSE <<>>) \o <<m>>)
     /\ fresh' = IF Gops = <<>> THEN fresh ELSE fresh \ {s}

\* One player's turn: a fresh one is given the cache, then everybody the message.
writeTo(s, m) ==
  \/ /\ s \in TsSubs
     /\ OnTSPackets(s, m)
  \/ /\ s \notin TsSubs
     /\ Writes(s, (IF s \in fresh THEN Cached ELSE <<>>) \o <<m>>)
     /\ fresh' = fresh \ {s}

\* The caches' Feed: a cache without an open GOP keeps no other message.
CacheFeed(m) ==
  \/ IsHeader(m) /\ FeedHeader(KindOf(m), m)
  \/ ~IsHeader(m) /\ FeedMsg(m)
  \/ ~IsHeader(m) /\ (gopSize = 1 \/ (m \in Others /\ isGOPRingEmpty)) /\ UNCHANGED vars

\* The loops over the sets of players, in an order the maps choose.
broadcastWrites ==
  \E b \in bc :
    \E s \in b.todo :
      /\ writeTo(s, b.msg)
      /\ bc' = (bc \ {b}) \cup {[b EXCEPT !.todo = @ \ {s}]}
      /\ UNCHANGED <<vars, inputs, input, conn, open, joined, fed>>

\* The caches are fed last.
broadcastFeeds ==
  \E b \in bc :
    /\ b.todo = {}
    /\ CacheFeed(b.msg)
    /\ bc' = bc \ {b}
    /\ UNCHANGED <<inputs, input, conn, open, joined, fresh, got, fed>>

FanNext ==
  \/ \E s \in Subs :
       \/ Accept(s) \/ ReadRequestFails(s) \/ ReadRequest(s) \/ AddSubSession(s)
       \/ Closes(s) \/ DelSubSession(s)
  \/ addIn \/ delIn \/ broadcastWrites \/ broadcastFeeds
  \/ Len(fed) < MaxFed /\ \E m \in Msgs \cup UNION {Headers[k] : k \in HeaderKinds} : OnMsg(m)

FanSpec == FanInit /\ [][FanNext]_allVars

----------------------------------------------------------------------------
(* Properties.                                                             *)

\* An HTTP-TS player's audio is batched: of it, the video.
Wanted(s) == IF s \in TsSubs THEN Video ELSE Msgs

\* From where a player is let in, the cache and what is forwarded join without a seam: it
\* gets messages of the stream only, in their order and each once, with none left out
\* between two of them, across a change of the input too; and while it is there, every
\* later one but that whose broadcast has not come to it (broadcastRTMP writes the cache,
\* then the message, and feeds the cache last).
EachMessageOnce ==
  \A s \in Subs : \A i \in DOMAIN got[s] : got[s][i] \in Wanted(s) =>
    /\ got[s][i][2] \in DOMAIN fed /\ fed[got[s][i][2]].msg = got[s][i]
    /\ \A j \in DOMAIN got[s] : i < j /\ got[s][j] \in Wanted(s) =>
         /\ got[s][i][2] < got[s][j][2]
         /\ \A n \in got[s][i][2] .. got[s][j][2] :
              fed[n].msg \in Wanted(s) => \E l \in DOMAIN got[s] : got[s][l] = fed[n].msg
    /\ s \in joined \cap open => \A n \in got[s][i][2] .. Len(fed) :
         fed[n].msg \in Wanted(s) =>
           \/ \E l \in DOMAIN got[s] : got[s][l] = fed[n].msg
           \/ \E b \in bc : s \in b.todo /\ b.msg = fed[n].msg

\* What a player gets it can decode with what it got before: the response comes first, and
\* the last header of a kind ahead of a message is the one the message was sent under.
\* (True if an input does not change its headers: the cache keeps GOPs of earlier ones.)
HeadersBeforeMedia ==
  \A s \in Subs : \A i \in DOMAIN got[s] :
    /\ i = 1 <=> got[s][i] = Response
    /\ s \notin TsSubs /\ got[s][i] \in Msgs => \A k \in HeaderKinds :
         LET h == fed[got[s][i][2]].header[k]
         IN h # None => \E j \in 1 .. i - 1 :
              got[s][j] = h /\ \A l \in j + 1 .. i - 1 : got[s][l] \notin Headers[k]

\* No player gets a picture without the key frame its GOP begins with: a fresh RTMP or
\* HTTP-FLV player starts in the cache, a fresh HTTP-TS player waits for a boundary.
StartsAtKeyFrame ==
  \A s \in Subs : \A i \in DOMAIN got[s] : got[s][i] \in Video \ Keys =>
    \E j \in 1 .. i - 1 :
      /\ got[s][j] \in Keys
      /\ \A n \in got[s][j][2] + 1 .. got[s][i][2] - 1 : fed[n].msg \notin Keys

\* A set of players is not changed while it is gone through (fatal in Go).  True under the
\* mutex; OnAVPacket does not take it.
NoConcurrentMapWrite ==
  [][joined' # joined => \A b \in bc : b.todo = {}]_allVars

\* A player that is not in the group any more has its connection closed.
ClosedWhenDeleted == \A s \in Subs : conn[s] = "done" => s \notin open
=============================================================================
