------------------------- MODULE RtspServerSession -------------------------
(***************************************************************************)
(* The server's side of RTSP connections: pkg/rtsp/server.go,              *)
(* server_command_session.go, and the pub and sub sessions over the base   *)
(* in and out sessions.  One goroutine per connection serves commands and  *)
(* interleaved packets, one more per UDP socket reads datagrams.  Of the   *)
(* group, one stream is kept: its RTSP publisher, its RTSP players and the *)
(* forwarding of RTP packets.                                              *)
(***************************************************************************)
EXTENDS RtspWire

CONSTANTS
  QuietWhenDropped  \* a publisher the ticker drops has no command under way

VARIABLES
  sloop,          \* where the connection's goroutine is
  pubS, subS,     \* connections with a pubSession, with a subSession
  inCh, outCh,    \* channels of the pub's base in session, the sub's base out session
  ssock,          \* media whose pair of UDP sockets is open on the server
  ssrc,           \* media whose SSRC the base in session has seen
  pub, subs       \* the group: rtspPubSession, rtspSubSessionSet

serverVars == <<sloop, pubS, subS, inCh, outCh, ssock, ssrc, pub, subs>>

\* Channels before any SETUP: a base in session's are zero values.
NoInCh == [l \in Lines |-> 0]
NoOutCh == [l \in Lines |-> IF l[2] = "rtp" THEN -1 ELSE 0]

ServerInit ==
  /\ sloop = [c \in Conns |-> "none"]
  /\ pubS = {}
  /\ subS = {}
  /\ inCh = [c \in Conns |-> NoInCh]
  /\ outCh = [c \in Conns |-> NoOutCh]
  /\ ssock = [c \in Conns |-> {}]
  /\ ssrc = [c \in Conns |-> {}]
  /\ pub = None
  /\ subs = {}

Goes(c, l) == sloop' = [sloop EXCEPT ![c] = l]
Sessions == <<pubS, subS, inCh, outCh>>
Sockets == <<ssock, ssrc>>
Stream == <<pub, subs>>

----------------------------------------------------------------------------
(* The command loop.                                                       *)

\* An error or TEARDOWN breaks the loop, which closes the connection.
Breaks(c) == Goes(c, "ended") /\ serverUp' = serverUp \ {c}
Answers(c) == ServerWrites(c, Response("200")) /\ UNCHANGED serverUp

LoopFails(c) ==
  /\ sloop[c] = "read"
  /\ \/ ServerReadFails(c) /\ UNCHANGED c2s
     \/ ServerTakes(c, Request("bad", None, None))
  /\ Breaks(c)
  /\ UNCHANGED <<s2c, udp, clientUp, Sessions, Sockets, Stream>>

Reads(c, m) == sloop[c] = "read" /\ ServerTakes(c, m)
ReadsPlain(c, m) == Reads(c, Request(m, None, None))

\* OPTIONS and RECORD are answered whatever came before.
handleOptions(c) ==
  /\ ReadsPlain(c, "OPTIONS") \/ ReadsPlain(c, "RECORD")
  /\ Answers(c)
  /\ UNCHANGED <<udp, clientUp, serverVars>>

\* Mutant: a refusal is logged and not returned.
handleAnnounce_Ignores(c) ==
  /\ ReadsPlain(c, "ANNOUNCE")
  /\ pubS' = pubS \cup {c}
  /\ inCh' = [inCh EXCEPT ![c] = NoInCh]
  /\ ssrc' = [ssrc EXCEPT ![c] = {}]
  /\ \/ pub = None /\ pub' = c /\ Answers(c) /\ UNCHANGED sloop
     \/ pub # None /\ UNCHANGED <<s2c, serverUp, sloop, pub>>
  /\ UNCHANGED <<udp, clientUp, subS, outCh, ssock, subs>>

\* The session is linked before the group is asked; a refusal breaks the loop.
handleAnnounce(c) ==
  /\ ReadsPlain(c, "ANNOUNCE")
  /\ pubS' = pubS \cup {c}
  /\ inCh' = [inCh EXCEPT ![c] = NoInCh]
  /\ ssrc' = [ssrc EXCEPT ![c] = {}]
  /\ \/ pub = None /\ pub' = c /\ Answers(c) /\ UNCHANGED sloop
     \/ pub # None /\ Breaks(c) /\ UNCHANGED <<s2c, pub>>
  /\ UNCHANGED <<udp, clientUp, subS, outCh, ssock, subs>>

\* Without a publisher there is no SDP to answer with.
handleDescribe(c) ==
  /\ ReadsPlain(c, "DESCRIBE")
  /\ subS' = subS \cup {c}
  /\ outCh' = [outCh EXCEPT ![c] = NoOutCh]
  /\ \/ pub # None /\ Answers(c) /\ UNCHANGED sloop
     \/ pub = None /\ Breaks(c) /\ UNCHANGED s2c
  /\ UNCHANGED <<udp, clientUp, pubS, inCh, Sockets, Stream>>

\* Mutant: the RTCP channel is the RTP channel.
SetupWithChannel_OneChannel(table, c, of, chans) ==
  [table EXCEPT ![c] = [@ EXCEPT ![<<of, "rtp">>] = chans[1], ![<<of, "rtcp">>] = chans[1]]]

SetupWithChannel(table, c, of, chans) ==
  [table EXCEPT ![c] = [@ EXCEPT ![<<of, "rtp">>] = chans[1], ![<<of, "rtcp">>] = chans[2]]]

\* Over TCP the channels go into the session, the pub's first; over UDP a pair of
\* sockets is bound first of all, and each gets a goroutine that reads.
handleSetup(c) ==
  /\ \E of \in Media, chans \in {None} \cup {<<2 * i, 2 * i + 1>> : i \in 0 .. 1} :
       /\ Reads(c, Request("SETUP", of, chans))
       /\ ssock' = IF chans = None THEN [ssock EXCEPT ![c] = @ \cup {of}] ELSE ssock
       /\ inCh' = IF chans # None /\ c \in pubS
                  THEN SetupWithChannel(inCh, c, of, chans) ELSE inCh
       /\ outCh' = IF chans # None /\ c \in subS \ pubS
                   THEN SetupWithChannel(outCh, c, of, chans) ELSE outCh
  /\ \/ c \in pubS \cup subS /\ Answers(c) /\ UNCHANGED sloop
     \/ c \notin pubS \cup subS /\ Breaks(c) /\ UNCHANGED s2c
  /\ UNCHANGED <<udp, clientUp, pubS, subS, ssrc, Stream>>

\* The group gets the player first, the player its answer then.
handlePlay(c) ==
  /\ ReadsPlain(c, "PLAY")
  /\ c \in subS
  /\ subs' = subs \cup {c}
  /\ Goes(c, "play")
  /\ UNCHANGED <<s2c, udp, clientUp, serverUp, Sessions, Sockets, pub>>

answerPlay(c) ==
  /\ sloop[c] = "play"
  /\ Answers(c)
  /\ Goes(c, "read")
  /\ UNCHANGED <<c2s, udp, clientUp, Sessions, Sockets, Stream>>

handleTeardown(c) ==
  /\ ReadsPlain(c, "TEARDOWN")
  /\ ServerWrites(c, Response("200"))
  /\ Breaks(c)
  /\ UNCHANGED <<udp, clientUp, Sessions, Sockets, Stream>>

----------------------------------------------------------------------------
(* Media.                                                                  *)

\* A player gets RTP of a medium on the channel it set up; over UDP it leaves as a
\* datagram, which is not followed further.
\* The write never blocks here; the code's is synchronous, without a time-out, under
\* group.mutex (base_out_session.go:164, 176).
OnRTPPacket(of) ==
  s2c' = [d \in Conns |-> IF d \in subs \cap clientUp /\ outCh[d][<<of, "rtp">>] # -1
                          THEN Append(s2c[d], Interleaved(outCh[d][<<of, "rtp">>], <<of, "rtp">>))
                          ELSE s2c[d]]

\* RTP goes to the group's players; its SSRC is kept.
handleRTPPacket(c, of) ==
  /\ ssrc' = [ssrc EXCEPT ![c] = @ \cup {of}]
  /\ OnRTPPacket(of)

\* A sender report of a medium whose SSRC is known is answered, over TCP on the
\* medium's RTCP channel.
handleRTCPPacket(c, of, overTCP) ==
  /\ IF of \in ssrc[c] /\ overTCP
     THEN ServerWrites(c, Interleaved(inCh[c][<<of, "rtcp">>], <<of, "rtcp">>))
     ELSE UNCHANGED s2c
  /\ UNCHANGED ssrc

\* By its channel a packet is taken for RTP or RTCP, RTP first; what medium it is of
\* its content tells.  A sub's are logged, and without a session the loop breaks.
HandleInterleavedPacket(c) ==
  /\ \E ch \in 0 .. 3, l \in Lines :
       /\ Reads(c, Interleaved(ch, l))
       /\ \/ /\ c \in pubS
             /\ \E of \in Media : ch = inCh[c][<<of, "rtp">>]
             /\ handleRTPPacket(c, l[1])
             /\ UNCHANGED <<sloop, serverUp>>
          \/ /\ c \in pubS
             /\ \A of \in Media : ch # inCh[c][<<of, "rtp">>]
             /\ \E of \in Media : ch = inCh[c][<<of, "rtcp">>]
             /\ handleRTCPPacket(c, l[1], TRUE)
             /\ UNCHANGED <<sloop, serverUp>>
          \/ /\ c \in pubS => \A k \in Lines : ch # inCh[c][k]
             /\ IF c \in pubS \cup subS THEN UNCHANGED <<sloop, serverUp>> ELSE Breaks(c)
             /\ UNCHANGED <<s2c, ssrc>>
  /\ UNCHANGED <<udp, clientUp, Sessions, ssock, Stream>>

\* A socket's goroutine reads a datagram of a publisher.
onReadUDPPacket(c) ==
  /\ \E l \in Lines :
       /\ <<c, l>> \in udp
       /\ udp' = udp \ {<<c, l>>}
       /\ l[1] \in ssock[c] /\ c \in pubS
       /\ IF l[2] = "rtp" THEN handleRTPPacket(c, l[1]) ELSE handleRTCPPacket(c, l[1], FALSE)
  /\ UNCHANGED <<c2s, clientUp, serverUp, sloop, Sessions, ssock, Stream>>

----------------------------------------------------------------------------
(* Ends.                                                                   *)

\* PubSession.Dispose: the connection and the sockets it has by now.
DisposeOfPub(c) ==
  /\ serverUp' = serverUp \ {c}
  /\ ssock' = [ssock EXCEPT ![c] = {}]

\* The HTTP API kicks the publisher, which the group keeps until its loop has ended.
KickOutSession(c) ==
  /\ c = pub
  /\ c \in serverUp
  /\ DisposeOfPub(c)
  /\ UNCHANGED <<c2s, s2c, udp, clientUp, sloop, Sessions, ssrc, Stream>>

\* The ticker drops a publisher that sent no media, and the group forgets it at once.
Tick(c) ==
  /\ c = pub
  /\ QuietWhenDropped => c2s[c] = <<>>
  /\ DisposeOfPub(c)
  /\ pub' = None
  /\ UNCHANGED <<c2s, s2c, udp, clientUp, sloop, Sessions, ssrc, subs>>

\* Mutant: the publisher the group knows is deleted and not disposed of.
handleTCPConnect_NoDispose(c) ==
  /\ sloop[c] = "ended"
  /\ Goes(c, "done")
  /\ \/ c = pub /\ pub' = None /\ UNCHANGED ssock
     \/ c # pub /\ UNCHANGED <<pub, ssock>>
  /\ subs' = IF c \in subS \ pubS THEN subs \ {c} ELSE subs
  /\ c2s' = [c2s EXCEPT ![c] = <<>>]
  /\ UNCHANGED <<s2c, udp, clientUp, serverUp, Sessions, ssrc>>

\* Mutant: players are not reported.
handleTCPConnect_PubOnly(c) ==
  /\ sloop[c] = "ended"
  /\ Goes(c, "done")
  /\ \/ c = pub /\ pub' = None /\ ssock' = [ssock EXCEPT ![c] = {}]
     \/ c # pub /\ UNCHANGED <<pub, ssock>>
  /\ c2s' = [c2s EXCEPT ![c] = <<>>]
  /\ UNCHANGED <<s2c, udp, clientUp, serverUp, Sessions, ssrc, subs>>

\* After the loop: a pub is reported, else a sub.  The group disposes of a publisher
\* it still knows; of a player it only forgets the name.
handleTCPConnect(c) ==
  /\ sloop[c] = "ended"
  /\ Goes(c, "done")
  /\ \/ c = pub /\ pub' = None /\ ssock' = [ssock EXCEPT ![c] = {}]
     \/ c # pub /\ UNCHANGED <<pub, ssock>>
  /\ subs' = IF c \in subS \ pubS THEN subs \ {c} ELSE subs
  /\ c2s' = [c2s EXCEPT ![c] = <<>>]
  /\ UNCHANGED <<s2c, udp, clientUp, serverUp, Sessions, ssrc>>

ServerStep(c) ==
  \/ LoopFails(c) \/ handleOptions(c) \/ handleAnnounce(c) \/ handleDescribe(c)
  \/ handleSetup(c) \/ handlePlay(c) \/ answerPlay(c) \/ handleTeardown(c)
  \/ HandleInterleavedPacket(c) \/ onReadUDPPacket(c) \/ handleTCPConnect(c)
=============================================================================
