---------------------------- MODULE ChunkStream ----------------------------
(***************************************************************************)
(* One direction of an RTMP connection: a sender, the wire, and the        *)
(* ChunkComposer (pkg/rtmp/chunk_composer.go, stream.go) that reads it.    *)
(*                                                                         *)
(* The sender is this code's own (Message2Chunks after a SetChunkSize), or *)
(* a peer that uses what the RTMP specification (5.3.1) allows: every fmt, *)
(* several chunk streams interleaved, a new chunk size between two chunks. *)
(* Reading does not influence the sender, so the wire only ever holds what *)
(* one write has put there.                                                *)
(***************************************************************************)
EXTENDS ChunkDivider

CONSTANTS
  Csids,            \* chunk streams of audio and video
  Control,          \* csidProtocolControl
  LocalChunkSize,   \* what this code divides by and announces
  defaultChunkSize, \* before SetChunkSize
  PeerSizes,        \* chunk sizes a peer changes to
  Lens, Timestamps, \* of the messages
  MaxMsgs           \* bound: messages

ASSUME ChunkConstants ==
  /\ LocalChunkSize \in Nat \ {0} /\ defaultChunkSize \in Nat \ {0}
  /\ PeerSizes \subseteq Nat \ {0} /\ MaxMsgs \in Nat
  /\ Lens \subseteq 0..(TsMod - 1)  \* MsgLen is as wide as a timestamp
  /\ Timestamps \subseteq 0..(TsMod - 1)
  /\ Control \notin Csids

MediaTypes == {"audio", "video"}
Types == MediaTypes \cup {"size"}
AllCsids == Csids \cup {Control}
Stamps == 0..(TsMod - 1)

Messages == [n : 1..MaxMsgs, csid : AllCsids, ts : Stamps, type : Types, len : Nat, size : Nat]
Units == (1..MaxMsgs) \X Nat
\* What a sender remembers of the last message of a chunk stream.
LastHeaders == [n : 1..MaxMsgs, ts : Stamps, len : Nat, type : Types, delta : Stamps, rest : Seq(Units)]

ASSUME NoneIsNoHeader == None \notin Messages \cup LastHeaders

VARIABLES
  wire,
  \* The sender.
  sender,       \* "divider" or "peer"
  sent,         \* the messages begun; message n is sent[n]
  chunkSize,    \* the chunk size it cuts by
  last,         \* by csid: the header of the last message, how its time was written, what is left
  \* The composer.
  peerChunkSize, stream, absTsFlag,
  received,     \* what OnCompleteMessage has been given
  lost,         \* it has read something else than the chunk that was there
  \* History.
  written,      \* the messages whose last chunk was written
  interleaved,  \* a chunk was written while another chunk stream's message was incomplete
  resized,      \* so was a new chunk size
  longGap       \* a time difference of MaxTs or more was written

sendVars == <<wire, sender, sent, chunkSize, last, written, interleaved, resized, longGap>>
readVars == <<peerChunkSize, stream, absTsFlag, received, lost>>
vars == <<sendVars, readVars>>

Init ==
  /\ wire = <<>>
  /\ sender \in {"divider", "peer"}
  /\ sent = <<>> /\ written = <<>>
  /\ chunkSize = IF sender = "divider" THEN LocalChunkSize ELSE defaultChunkSize
  /\ last = [c \in AllCsids |-> None]
  /\ peerChunkSize = defaultChunkSize
  /\ stream = [c \in AllCsids |-> [timestamp |-> 0, abs |-> 0, len |-> 0, type |-> "none", msg |-> <<>>]]
  /\ absTsFlag = FALSE /\ received = <<>> /\ lost = FALSE
  /\ interleaved = FALSE /\ resized = FALSE /\ longGap = FALSE
----------------------------------------------------------------------------
(* Senders.                                                                *)

\* A media message, or one that announces a chunk size (a body of one unit, at 0).
Media(c, ts, type, len) ==
  [n |-> Len(sent) + 1, csid |-> c, ts |-> ts, type |-> type, len |-> len, size |-> 0]
SetChunkSize(size) ==
  [n |-> Len(sent) + 1, csid |-> Control, ts |-> 0, type |-> "size", len |-> 1, size |-> size]

CanWrite == wire = <<>> /\ ~lost
CanBegin == CanWrite /\ Len(sent) < MaxMsgs

WriteWhole(m, chunks) ==
  /\ sent' = Append(sent, m)
  /\ wire' = chunks
  /\ written' = IF chunks = <<>> THEN written ELSE Append(written, m)

\* A session tells its chunk size first.
WriteChunkSize ==
  /\ CanBegin /\ sender = "divider" /\ sent = <<>>
  /\ LET m == SetChunkSize(LocalChunkSize) IN WriteWhole(m, message2Chunks(m, LocalChunkSize))
  /\ UNCHANGED <<sender, chunkSize, last, interleaved, resized, longGap, readVars>>

Divide(m) ==
  /\ CanBegin /\ sender = "divider" /\ sent # <<>>
  /\ WriteWhole(m, message2Chunks(m, LocalChunkSize))
  /\ UNCHANGED <<sender, chunkSize, last, interleaved, resized, longGap, readVars>>

Partial(c) == last[c] # None /\ last[c].rest # <<>>

\* The formats a peer may use for a new message: those that say enough.
Formats(m) ==
  LET p == last[m.csid] IN
  {0} \cup (IF p = None THEN {}
            ELSE {f \in 1..3 : /\ m.ts >= p.ts
                               /\ f >= 2 => m.len = p.len /\ m.type = p.type
                               /\ f = 3 => m.ts - p.ts = p.delta})

\* A chunk of a peer; fmt 3 repeats the extended timestamp of the chunk before it.
PeerChunk(m, fmt, time, ext, body) ==
  [header |-> [csid |-> m.csid, fmt |-> fmt,
               field |-> IF fmt <= 2 THEN Smaller(time, MaxTs) ELSE 0,
               len |-> IF fmt <= 1 THEN m.len ELSE 0,
               type |-> IF fmt <= 1 THEN m.type ELSE "none", ext |-> ext],
   body |-> body]

\* The next chunk of m, of which body is left.
PeerWrites(m, fmt, time, body) ==
  LET k == Smaller(chunkSize, Len(body))
      ext == IF time >= MaxTs THEN <<time>> ELSE <<>>
      others == \E c \in AllCsids \ {m.csid} : Partial(c)
  IN /\ wire' = <<PeerChunk(m, fmt, time, ext, SubSeq(body, 1, k))>>
     /\ last' = [last EXCEPT ![m.csid] =
          [n |-> m.n, ts |-> m.ts, len |-> m.len, type |-> m.type, delta |-> time,
           rest |-> SubSeq(body, k + 1, Len(body))]]
     /\ written' = IF k = Len(body) THEN Append(written, m) ELSE written
     /\ interleaved' = (interleaved \/ others)
     /\ resized' = (resized \/ (others /\ m.type = "size"))
     /\ longGap' = (longGap \/ (fmt \in 1..2 /\ time >= MaxTs))
     /\ chunkSize' = IF m.type = "size" THEN m.size ELSE chunkSize
     /\ UNCHANGED <<sender, readVars>>

PeerBegins(m) ==
  /\ CanBegin /\ sender = "peer" /\ ~Partial(m.csid)
  /\ sent' = Append(sent, m)
  /\ \E fmt \in Formats(m) :
       PeerWrites(m, fmt, IF fmt = 0 THEN m.ts ELSE m.ts - last[m.csid].ts, Body(m))

PeerContinues(c) ==
  /\ CanWrite /\ sender = "peer" /\ Partial(c)
  /\ PeerWrites(sent[last[c].n], 3, last[c].delta, last[c].rest)
  /\ UNCHANGED sent
----------------------------------------------------------------------------
(* The composer.                                                           *)

readHeader_KeepsType(s, h) ==  \* mutant
  CASE h.fmt = 0 -> [s EXCEPT !.timestamp = h.field, !.abs = h.field, !.len = h.len, !.type = h.type]
    [] h.fmt = 1 -> [s EXCEPT !.timestamp = h.field, !.len = h.len]
    [] h.fmt = 2 -> [s EXCEPT !.timestamp = h.field]
    [] h.fmt = 3 -> s

\* The chunk's message header into the stream's fields.
readHeader(s, h) ==
  CASE h.fmt = 0 -> [s EXCEPT !.timestamp = h.field, !.abs = h.field, !.len = h.len, !.type = h.type]
    [] h.fmt = 1 -> [s EXCEPT !.timestamp = h.field, !.len = h.len, !.type = h.type]
    [] h.fmt = 2 -> [s EXCEPT !.timestamp = h.field]
    [] h.fmt = 3 -> s

ExtExpected_Above(s) == s.timestamp > MaxTs  \* mutant
ExtExpected(s) == s.timestamp >= MaxTs

\* The extended timestamp, if one is expected: for fmt 1 and 2 it is added to abs here.
readExt(s, h) ==
  IF ~ExtExpected(s) THEN s
  ELSE [s EXCEPT !.timestamp = h.ext[1],
                 !.abs = CASE h.fmt = 0 -> h.ext[1]
                           [] h.fmt \in 1..2 -> (@ - MaxTs + h.ext[1]) % TsMod
                           [] h.fmt = 3 -> @]

\* A message no longer than the chunk size is expected in one chunk.
neededSize(s) ==
  IF s.len <= peerChunkSize THEN s.len
  ELSE Smaller((s.len - Len(s.msg)) % TsMod, peerChunkSize)

\* A complete message's timestamp: what its last header said is added to the stream's,
\* unless some chunk since the last complete message was of fmt 0.
absAfter(s, absFlag) == IF absFlag THEN s.abs ELSE (s.abs + s.timestamp) % TsMod

Complete(s) == Len(s.msg) = s.len

\* One turn of RunLoop.  What it reads is the chunk only if the chunk has an
\* extended timestamp and a body of the size that is expected.
ReadChunk ==
  /\ wire # <<>> /\ ~lost
  /\ LET h == Head(wire).header
         s == readHeader(stream[h.csid], h)
         t == readExt(s, h)
         u == [t EXCEPT !.msg = @ \o Head(wire).body]
         absFlag == absTsFlag \/ h.fmt = 0
         abs == absAfter(u, absFlag)
     IN
     \/ /\ \/ ExtExpected(s) # (h.ext # <<>>)
           \/ neededSize(s) # Len(Head(wire).body)
        /\ lost' = TRUE
        /\ UNCHANGED <<wire, peerChunkSize, stream, absTsFlag, received>>
     \/ /\ ExtExpected(s) = (h.ext # <<>>)
        /\ neededSize(s) = Len(Head(wire).body)
        /\ wire' = Tail(wire)
        /\ IF Complete(u)
           THEN /\ peerChunkSize' = IF u.type = "size" THEN sent[u.msg[1][1]].size ELSE peerChunkSize
                /\ stream' = [stream EXCEPT ![h.csid] = [u EXCEPT !.abs = abs, !.msg = <<>>]]
                /\ absTsFlag' = FALSE
                /\ received' = Append(received, [csid |-> h.csid, ts |-> abs, type |-> u.type, msg |-> u.msg])
           ELSE /\ stream' = [stream EXCEPT ![h.csid] = u]
                /\ absTsFlag' = absFlag
                /\ UNCHANGED <<peerChunkSize, received>>
        /\ UNCHANGED lost
  /\ UNCHANGED <<sender, sent, chunkSize, last, written, interleaved, resized, longGap>>

Next ==
  \/ WriteChunkSize
  \/ \E c \in Csids, ts \in Timestamps, type \in MediaTypes, len \in Lens :
       Divide(Media(c, ts, type, len))
  \/ \E c \in Csids, ts \in Timestamps, type \in MediaTypes, len \in Lens :
       PeerBegins(Media(c, ts, type, len))
  \/ \E size \in PeerSizes : PeerBegins(SetChunkSize(size))
  \/ \E c \in AllCsids : PeerContinues(c)
  \/ ReadChunk

Spec == Init /\ [][Next]_vars
----------------------------------------------------------------------------
Headers == [csid : AllCsids, fmt : 0..3, field : 0..MaxTs, len : Nat, type : Types \cup {"none"},
            ext : {<<>>} \cup {<<t>> : t \in Stamps}]
Streams == [timestamp : Stamps, abs : Stamps, len : Nat, type : Types \cup {"none"}, msg : Seq(Units)]

TypeOK ==
  /\ \A i \in DOMAIN wire : wire[i].header \in Headers
  /\ chunkSize \in Nat \ {0} /\ peerChunkSize \in Nat \ {0}
  /\ stream \in [AllCsids -> Streams]
  /\ \A c \in AllCsids : Len(stream[c].msg) <= stream[c].len
  /\ {absTsFlag, lost, interleaved, resized, longGap} \subseteq BOOLEAN

\* RunLoop always reads the chunk that is there.  It loses its place for good when the
\* chunk size changes within a message (neededSize asks for the whole of it), or with
\* a timestamp of exactly MaxTs of this code's own, which calcHeader does not extend.
InSync == lost => resized \/ (sender = "divider" /\ \E i \in DOMAIN sent : sent[i].ts = MaxTs)

\* The composer's callback is given every message once, whole, with its type, in the
\* order in which they were completed, whatever the formats, chunk sizes and
\* interleaving: the connection implements MessageChannel.
Content(m) == [csid |-> m.csid, type |-> m.type, msg |-> Body(m)]
Unstamped(r) == [csid |-> r.csid, type |-> r.type, msg |-> r.msg]
Channel == INSTANCE MessageChannel WITH
  written <- [i \in DOMAIN written |-> Content(written[i])],
  received <- [i \in DOMAIN received |-> Unstamped(received[i])]
ImplementsChannel == Channel!Spec

\* A message keeps its timestamp, absolute or relative, extended or not, as long as
\* chunk streams are not interleaved and no relative timestamp is extended.
TimestampsKept ==
  ~interleaved /\ ~longGap => \A i \in DOMAIN received : received[i].ts = written[i].ts

\* The same of every stream: "this takes the difference of the last chunk of a
\* message, other stacks the first one's; normally both will do".
TimestampsKeptAlways ==
  ~longGap => \A i \in DOMAIN received : received[i].ts = written[i].ts
=============================================================================
