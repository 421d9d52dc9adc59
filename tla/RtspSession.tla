---------------------------- MODULE RtspSession ----------------------------
(***************************************************************************)
(* RTSP connections with both their ends: the program's own pull and push  *)
(* sessions, against this server or a server of somebody else, and other   *)
(* clients, which ask in the order of RTSP's methods, against this server. *)
(***************************************************************************)
EXTENDS RtspServerSession, RtspClientSession

CONSTANTS OneRole  \* a foreign client publishes or plays on a connection, not one after the other

VARIABLES asked  \* foreign clients that wait for an answer

vars == <<wireVars, serverVars, clientVars, asked>>

TypeOK ==
  /\ clientUp \cup serverUp \subseteq Conns
  /\ udp \subseteq Conns \X Lines
  /\ sloop \in [Conns -> {"none", "read", "play", "ended", "done"}]
  /\ cloop \in [OwnConns -> {"none", "dial", "write", "await", "done", "top", "reading", "ended"}]
  /\ called \in [OwnConns -> {"no", "waiting", "ok", "error", "timeout"}]
  /\ errc \in [OwnConns -> {None, "ok", "error"}]
  /\ kind \in [Conns -> {None, "pull", "push"}]
  /\ subs \subseteq Conns /\ pub \in Conns \cup {None}
  /\ ssock \in [Conns -> SUBSET Media]
  /\ ssrc \in [Conns -> SUBSET Media]
  /\ csetup \in [OwnConns -> SUBSET Media] /\ csock \in [OwnConns -> SUBSET Media]

Init == WireInit /\ ServerInit /\ ClientInit /\ asked = {}

----------------------------------------------------------------------------
(* Accepting, and datagrams that never arrive.                             *)

Accept(c) ==
  /\ sloop[c] = "none"
  /\ c \in serverUp \ far
  /\ Goes(c, "read")
  /\ UNCHANGED <<wireVars, Sessions, Sockets, Stream, clientVars, asked>>

DatagramLost ==
  /\ \E d \in udp : udp' = udp \ {d}
  /\ UNCHANGED <<c2s, s2c, clientUp, serverUp, serverVars, clientVars, asked>>

----------------------------------------------------------------------------
(* Another client.                                                         *)

Untouched == <<serverVars, cloop, called, errc, told, far, tries, csock, csetup, tick>>

PeerConnects(c) ==
  /\ kind[c] = None
  /\ far = {}
  /\ clientUp' = clientUp \cup {c}
  /\ serverUp' = serverUp \cup {c}
  /\ \E k \in {"pull", "push"} : kind' = [kind EXCEPT ![c] = k]
  /\ UNCHANGED <<c2s, s2c, udp, Untouched, tcp, step, cch, sent, asked>>

\* A client with more than one role turns from player to publisher.
PeerAsks(c) ==
  /\ c \in clientUp \ asked
  /\ \/ /\ step[c] < Len(Script(kind[c]))
        /\ \E r \in {RequestAt(c), Request("bad", None, None)} : ClientWrites(c, r)
        /\ asked' = asked \cup {c}
        /\ UNCHANGED <<kind, step>>
     \/ /\ ~OneRole
        /\ step[c] = Len(Script("pull")) /\ kind[c] = "pull"
        /\ kind' = [kind EXCEPT ![c] = "push"]
        /\ step' = [step EXCEPT ![c] = 0]
        /\ UNCHANGED <<c2s, asked>>
  /\ UNCHANGED <<s2c, udp, clientUp, serverUp, Untouched, tcp, cch, sent>>

PeerHears(c) ==
  /\ \/ /\ ClientTakes(c, Response("200"))
        /\ \/ /\ c \in asked
              /\ asked' = asked \ {c}
              /\ Answered(c)
              /\ OnSetupWithChannel(c, RequestAt(c))
           \/ c \notin asked /\ UNCHANGED <<asked, step, cch>>
     \/ /\ \E ch \in 0 .. 3, l \in Lines : ClientTakes(c, Interleaved(ch, l))
        /\ UNCHANGED <<asked, step, cch>>
  /\ UNCHANGED <<c2s, udp, clientUp, serverUp, Untouched, kind, tcp, sent>>

\* RTP of a medium, and a sender report.
PeerSends(c) ==
  /\ c \in clientUp
  /\ kind[c] = "push"
  /\ step[c] = Len(Script("push"))
  /\ \E of \in Media : Sends(c, <<<<of, "rtp">>, <<of, "rtcp">>>>)
  /\ UNCHANGED <<s2c, clientUp, serverUp, Untouched, kind, tcp, step, cch, asked>>

PeerTearsDown(c) ==
  /\ c \in clientUp \ asked
  /\ step[c] = Len(Script(kind[c]))
  /\ Request("TEARDOWN", None, None) \notin ToSet(c2s[c])
  /\ ClientWrites(c, Request("TEARDOWN", None, None))
  /\ UNCHANGED <<s2c, udp, clientUp, serverUp, Untouched, kind, tcp, step, cch, sent, asked>>

PeerLeaves(c) ==
  /\ c \in clientUp
  /\ ClientCloses(c)
  /\ UNCHANGED <<c2s, udp, serverUp, serverVars, clientVars, asked>>

----------------------------------------------------------------------------
(* Another server.                                                         *)

FarAnswers(c) ==
  /\ c \in far \cap serverUp
  /\ c2s[c] # <<>>
  /\ c2s' = [c2s EXCEPT ![c] = Tail(@)]
  /\ \E code \in {"200", "401", "refused"} :
       /\ Head(c2s[c]).method = "GET_PARAMETER" => code = "200"
       /\ ServerWrites(c, Response(code))
  /\ UNCHANGED <<udp, clientUp, serverUp, serverVars, clientVars, asked>>

FarSends(c) ==
  /\ c \in far \cap serverUp \cap tcp
  /\ kind[c] = "pull"
  /\ step[c] = Len(Script("pull"))
  /\ \E of \in Media :
       /\ sent[c] < MaxMedia
       /\ sent' = [sent EXCEPT ![c] = @ + 1]
       /\ cch[c][<<of, "rtp">>] # None
       /\ ServerWrites(c, Interleaved(cch[c][<<of, "rtp">>], <<of, "rtp">>))
  /\ UNCHANGED <<c2s, udp, clientUp, serverUp, serverVars, cloop, called, errc, told, Dialog,
                 step, tries, cch, csock, csetup, tick, asked>>

FarCloses(c) ==
  /\ c \in far \cap serverUp
  /\ serverUp' = serverUp \ {c}
  /\ UNCHANGED <<c2s, s2c, udp, clientUp, serverVars, clientVars, asked>>

----------------------------------------------------------------------------

ServerNext(c) ==
  \/ Accept(c)
  \/ (ServerStep(c) \/ KickOutSession(c) \/ Tick(c)) /\ UNCHANGED <<clientVars, asked>>

OwnNext(c) ==
  /\ \/ Do(c) \/ DoReturns(c) \/ DoTimesOut(c) \/ WriteRTPPacket(c) \/ ClientDispose(c)
     \/ ClientStep(c)
  /\ UNCHANGED <<serverVars, asked>>

PeerNext(c) ==
  PeerConnects(c) \/ PeerAsks(c) \/ PeerHears(c) \/ PeerSends(c)
  \/ PeerTearsDown(c) \/ PeerLeaves(c)

FarNext(c) == FarAnswers(c) \/ FarSends(c) \/ FarCloses(c)

Next ==
  \/ DatagramLost
  \/ \E c \in Conns : ServerNext(c)
  \/ \E c \in OwnConns : OwnNext(c) \/ FarNext(c)
  \/ \E c \in PeerConns : PeerNext(c)

Spec == Init /\ [][Next]_vars

\* The goroutines of both ends of a session go on when they can, and timers fire; nothing
\* is assumed of other clients and servers and of the callers of Dispose.
Fairness ==
  \A c \in OwnConns :
    /\ WF_vars(Accept(c) \/ (ServerStep(c) /\ UNCHANGED <<clientVars, asked>>))
    /\ WF_vars(/\ ClientStep(c) \/ DoReturns(c) \/ DoTimesOut(c)
               /\ UNCHANGED <<serverVars, asked>>)

FairSpec == Spec /\ Fairness

----------------------------------------------------------------------------
(* Properties.                                                             *)

\* The group knows no publisher and no player whose connection's goroutine has ended,
\* whatever refusals, kicks, drops and closed connections came between; handleTCPConnect
\* reports one role only.  (True of clients with one role per connection.)
RolesReleased == \A c \in subs \cup ({pub} \ {None}) : sloop[c] # "done"

\* Every UDP socket is closed in the end: a publisher's on the server, although sockets
\* are set up and disposed of in different goroutines, and a client session's by its
\* Dispose if Do succeeded.  (True if a publisher is dropped for silence with no command
\* under way; not of players, see PlayerSocketsReleased.)
SocketsReleased ==
  /\ \A c \in Conns : sloop[c] = "done" /\ kind[c] = "push" => ssock[c] = {}
  /\ \A c \in OwnConns : called[c] = "ok" /\ c \notin clientUp => csock[c] = {}

\* What a connection leaves behind when its goroutines are done: no role and no socket.
SessionsReleased == RolesReleased /\ SocketsReleased

\* Both ends of a connection agree what travels on an interleaved channel: the reader's
\* table, made from the SETUPs, has each packet's line at its channel, and no RTP channel
\* is also an RTCP channel.
ChannelsAgree ==
  \A c \in Conns :
    /\ \A p \in ToSet(s2c[c]) : p.is = "packet" => p.ch = cch[c][p.line]
    /\ \A p \in ToSet(c2s[c]) : p.is = "packet" =>
         /\ p.ch = inCh[c][p.line]
         /\ p.line[2] = "rtcp" => \A of \in Media : p.ch # inCh[c][<<of, "rtp">>]

\* Against this server Do ends even without a timeout: every request is answered, or its
\* connection is closed, and the goroutine's error reaches the caller.
DoEnds ==
  \A c \in OwnConns :
    called[c] = "waiting" /\ c \notin far ~> called[c] # "waiting" \/ c \in far

\* The end of a session's connection, from either side, reaches the one who waits for it,
\* over TCP and UDP, with and without GET_PARAMETER.
EndTold ==
  \A c \in OwnConns :
    called[c] = "ok" /\ ~(c \in clientUp /\ c \in serverUp) ~> c \in told

\* "Blocks until the step before data is received, the response to PLAY": no packet of the
\* group is ahead of the answer a pull session waits for.
PlayAnswerFirst ==
  \A c \in OwnConns : cloop[c] = "await" =>
    \A i \in DOMAIN s2c[c] : s2c[c][i].is = "packet" =>
      \E j \in 1 .. i - 1 : s2c[c][j].is = "response"

\* "A peer that has GET_PARAMETER is sent it regularly to keep alive."
KeepAliveSent ==
  \A c \in OwnConns : c \in tick ~> c \notin tick \/ c \in told

\* A refused request is reported by Do.
RefusalReported ==
  [][\A c \in OwnConns :
       /\ cloop[c] = "await"
       /\ s2c[c] # <<>> /\ Head(s2c[c]) = Response("refused") /\ s2c'[c] = Tail(s2c[c])
       => cloop'[c] = "ended"]_vars

\* A player's sockets on the server are closed when it has gone.
PlayerSocketsReleased ==
  \A c \in Conns : sloop[c] = "done" /\ kind[c] = "pull" => ssock[c] = {}
=============================================================================
