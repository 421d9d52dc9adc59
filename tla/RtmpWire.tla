------------------------------ MODULE RtmpWire ------------------------------
(***************************************************************************)
(* The TCP connections between RTMP clients and this server, as the two    *)
(* session modules see them: a stream of whole messages each way, two ends *)
(* that are closed independently, and the server's read buffer (bufio),    *)
(* whose content is still served after the connection has been closed.     *)
(* How messages travel in chunks is the matter of ChunkStream.             *)
(***************************************************************************)
EXTENDS Naturals, Sequences

CONSTANTS
  PullConns, PushConns,  \* connections of this program's own client sessions
  PeerConns,             \* connections of other clients (OBS, ffmpeg, players)
  None

Conns == PullConns \cup PushConns \cup PeerConns

ASSUME ConnKinds ==
  /\ PullConns \cap PushConns = {}
  /\ (PullConns \cup PushConns) \cap PeerConns = {}
  /\ None \notin Conns

VARIABLES
  c2s, s2c,            \* messages under way
  rbuf,                \* messages in the server's read buffer
  clientUp, serverUp   \* the ends of the connection that are open

wireVars == <<c2s, s2c, rbuf, clientUp, serverUp>>

\* The handshake, simple or complex alike: the peer's bytes are not looked into, but for
\* a digest the server answers when it finds one.
C0C1 == "C0C1"
S0S1S2 == "S0S1S2"
C2 == "C2"

\* The messages, named for the functions that write them.  The results carry the
\* transaction ids of connect and createStream; a status is NetStream.Publish.Start or
\* NetStream.Play.Start; the control messages need no answer.
Connect == "connect"
ConnectResult == "result1"
CreateStream == "createStream"
CreateStreamResult == "result2"
Publish == "publish"
OnStatusPublish == "status"
Play == "play"
OnStatusPlay == "status"
ProtocolControl == "ctrl"
UserControl == "ctrl"

\* What a client may say; "bad" does not parse, "other" is any message that the
\* server answers with nothing (Ack, SetChunkSize, releaseStream, unknown ones).
ClientSays == {C0C1, C2, Connect, CreateStream, Publish, Play, "av", "bad", "other"}

\* What the server says.
ServerSays ==
  {S0S1S2, ProtocolControl, UserControl, ConnectResult, CreateStreamResult,
   OnStatusPublish, OnStatusPlay, "av"}

WireTypeOK ==
  /\ c2s \in [Conns -> Seq(ClientSays)]
  /\ s2c \in [Conns -> Seq(ServerSays)]
  /\ rbuf \in [Conns -> Seq(ClientSays)]
  /\ clientUp \subseteq Conns
  /\ serverUp \subseteq Conns

WireInit ==
  /\ c2s = [c \in Conns |-> <<>>]
  /\ s2c = [c \in Conns |-> <<>>]
  /\ rbuf = [c \in Conns |-> <<>>]
  /\ clientUp = {}
  /\ serverUp = {}

\* Written to a connection whose other end is gone, bytes are lost.
Says(chan, c, msgs) == [chan EXCEPT ![c] = @ \o msgs]
ServerWrites(c, msgs) == s2c' = IF c \in clientUp THEN Says(s2c, c, msgs) ELSE s2c
ClientWrites(c, msgs) == c2s' = IF c \in serverUp THEN Says(c2s, c, msgs) ELSE c2s

\* A read of the socket brings in whatever has arrived, at least one message.
Fill(c) ==
  /\ c \in serverUp
  /\ rbuf[c] = <<>>
  /\ \E k \in 1 .. Len(c2s[c]) :
       /\ rbuf' = [rbuf EXCEPT ![c] = SubSeq(c2s[c], 1, k)]
       /\ c2s' = [c2s EXCEPT ![c] = SubSeq(@, k + 1, Len(@))]
  /\ UNCHANGED <<s2c, clientUp, serverUp>>

ServerTakes(c, m) ==
  /\ rbuf[c] # <<>>
  /\ Head(rbuf[c]) = m
  /\ rbuf' = [rbuf EXCEPT ![c] = Tail(@)]

ServerReadFails(c) == rbuf[c] = <<>> /\ (c \notin serverUp \/ (c \notin clientUp /\ c2s[c] = <<>>))

ClientTakes(c, m) ==
  /\ c \in clientUp
  /\ s2c[c] # <<>>
  /\ Head(s2c[c]) = m
  /\ s2c' = [s2c EXCEPT ![c] = Tail(@)]

ClientReadFails(c) == c \notin clientUp \/ (c \notin serverUp /\ s2c[c] = <<>>)
=============================================================================
