------------------------------ MODULE RtspWire ------------------------------
(***************************************************************************)
(* RTSP connections between clients and this server: requests, responses   *)
(* and interleaved packets share one TCP connection; with RTP over UDP the *)
(* packets travel beside it as datagrams, which may be lost or overtake.   *)
(***************************************************************************)
EXTENDS Integers, Sequences, SequencesExt, FiniteSets

CONSTANTS
  OwnConns,   \* connections of this program's own client sessions
  PeerConns,  \* connections of other clients (ffmpeg, players)
  Media,      \* the media of the stream's SDP
  None

Conns == OwnConns \cup PeerConns

ASSUME WireAssumption ==
  /\ OwnConns \cap PeerConns = {}
  /\ None \notin Conns \cup Media \cup {"pull", "push", "ok", "error"} \cup Int \cup (Int \X Int)
  /\ Media \subseteq {"video", "audio"}
  /\ Media # {}

\* The lines of a session: RTP and RTCP of each medium.
Lines == Media \X {"rtp", "rtcp"}

VARIABLES
  c2s, s2c,            \* messages under way on the command connection
  udp,                 \* datagrams under way to the server: <<connection, line>>
  clientUp, serverUp   \* the open ends of the command connection

wireVars == <<c2s, s2c, udp, clientUp, serverUp>>

\* A request; a SETUP names a medium, over TCP with a pair of channels.
Request(m, of, chans) == [is |-> "request", method |-> m, of |-> of, chans |-> chans]
Response(code) == [is |-> "response", code |-> code]
Interleaved(ch, line) == [is |-> "packet", ch |-> ch, line |-> line]

WireInit ==
  /\ c2s = [c \in Conns |-> <<>>]
  /\ s2c = [c \in Conns |-> <<>>]
  /\ udp = {}
  /\ clientUp = {}
  /\ serverUp = {}

\* Written to a connection whose other end is gone, messages are lost.
ServerWrites(c, m) ==
  s2c' = IF c \in clientUp THEN [s2c EXCEPT ![c] = Append(@, m)] ELSE s2c
ClientWritesAll(c, ms) ==
  c2s' = IF c \in serverUp THEN [c2s EXCEPT ![c] = @ \o ms] ELSE c2s
ClientWrites(c, m) == ClientWritesAll(c, <<m>>)

\* What was read into the buffer before a close is still served, any prefix of
\* what was under way.
ServerTakes(c, m) ==
  /\ c2s[c] # <<>>
  /\ Head(c2s[c]) = m
  /\ c2s' = [c2s EXCEPT ![c] = Tail(@)]
ServerReadFails(c) == c \notin serverUp \/ (c \notin clientUp /\ c2s[c] = <<>>)

ClientTakes(c, m) ==
  /\ c \in clientUp
  /\ s2c[c] # <<>>
  /\ Head(s2c[c]) = m
  /\ s2c' = [s2c EXCEPT ![c] = Tail(@)]
ClientReadFails(c) == c \notin clientUp \/ (c \notin serverUp /\ s2c[c] = <<>>)

\* What an end has not read goes with its socket.
ClientCloses(c) == clientUp' = clientUp \ {c} /\ s2c' = [s2c EXCEPT ![c] = <<>>]
=============================================================================
