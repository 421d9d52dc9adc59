------------------------- MODULE RtmpServerSession -------------------------
(***************************************************************************)
(* The server's side of RTMP connections: pkg/rtmp/server.go and           *)
(* server_session.go.  One goroutine per connection reads and answers      *)
(* commands.  Of the ServerManager and the group, one stream is kept: its  *)
(* publisher, its players and the broadcast to them.                       *)
(***************************************************************************)
EXTENDS RtmpWire

VARIABLES
  sloop,      \* where the connection's goroutine is
  stype,      \* ServerSession.t
  observer,   \* sessions whose avObserver is set
  timeouts,   \* sessions for which ModReadTimeoutMS or ModWriteTimeoutMS was called
  pub, subs,  \* the group: rtmpPubSession, rtmpSubSessionSet
  crashed     \* TRUE after a call on a nil avObserver

serverVars == <<sloop, stype, observer, timeouts, pub, subs, crashed>>

ServerTypeOK ==
  /\ sloop \in [Conns -> {"none", "C0C1", "C2", "read", "publish", "play", "ended", "done"}]
  /\ stype \in [Conns -> {"unknown", "pub", "sub"}]
  /\ observer \subseteq Conns
  /\ timeouts \subseteq Conns
  /\ pub \in Conns \cup {None}
  /\ subs \subseteq Conns
  /\ crashed \in BOOLEAN

ServerInit ==
  /\ sloop = [c \in Conns |-> "none"]
  /\ stype = [c \in Conns |-> "unknown"]
  /\ observer = {}
  /\ timeouts = {}
  /\ pub = None
  /\ subs = {}
  /\ crashed = FALSE

Goes(c, l) == sloop' = [sloop EXCEPT ![c] = l]
Session == <<stype, observer, timeouts>>
Stream == <<pub, subs>>

----------------------------------------------------------------------------

ReadMore(c) ==
  /\ sloop[c] \in {"C0C1", "C2", "read"}
  /\ Fill(c)
  /\ UNCHANGED serverVars

\* An error of a read, or of a command that does not parse, ends the loop.
LoopFails(c) ==
  /\ sloop[c] \in {"C0C1", "C2", "read"}
  /\ \/ /\ ServerReadFails(c)
        /\ UNCHANGED rbuf
     \/ ServerTakes(c, "bad")
  /\ Goes(c, "ended")
  /\ UNCHANGED <<c2s, s2c, clientUp, serverUp, Session, Stream, crashed>>

ReadC0C1(c) ==
  /\ sloop[c] = "C0C1"
  /\ ServerTakes(c, C0C1)
  /\ ServerWrites(c, <<S0S1S2>>)
  /\ Goes(c, "C2")
  /\ UNCHANGED <<c2s, clientUp, serverUp, Session, Stream, crashed>>

ReadC2(c) ==
  /\ sloop[c] = "C2"
  /\ ServerTakes(c, C2)
  /\ Goes(c, "read")
  /\ UNCHANGED <<c2s, s2c, clientUp, serverUp, Session, Stream, crashed>>

Reads(c, m) == sloop[c] = "read" /\ ServerTakes(c, m)

doConnect(c) ==
  /\ Reads(c, Connect)
  /\ ServerWrites(c, <<ProtocolControl, ConnectResult>>)
  /\ UNCHANGED <<c2s, clientUp, serverUp, serverVars>>

doCreateStream(c) ==
  /\ Reads(c, CreateStream)
  /\ ServerWrites(c, <<CreateStreamResult>>)
  /\ UNCHANGED <<c2s, clientUp, serverUp, serverVars>>

doOther(c) ==
  /\ Reads(c, "other")
  /\ UNCHANGED <<c2s, s2c, clientUp, serverUp, serverVars>>

\* modConnProps reads the type that is set only after it: a first publish or play
\* sets no timeout.
modConnProps(c) ==
  timeouts' = IF stype[c] # "unknown" THEN timeouts \cup {c} ELSE timeouts

\* Mutant: the publish of a stream that is taken ends the session without an answer.
doPublish_RefusesSilently(c) ==
  /\ Reads(c, Publish)
  /\ IF pub # None
     THEN Goes(c, "ended") /\ UNCHANGED <<s2c, stype, timeouts>>
     ELSE /\ ServerWrites(c, <<OnStatusPublish>>)
          /\ modConnProps(c)
          /\ stype' = [stype EXCEPT ![c] = "pub"]
          /\ Goes(c, "publish")
  /\ UNCHANGED <<c2s, clientUp, serverUp, observer, Stream, crashed>>

\* The answer is sent before anybody was asked whether the stream is free.
doPublish(c) ==
  /\ Reads(c, Publish)
  /\ ServerWrites(c, <<OnStatusPublish>>)
  /\ modConnProps(c)
  /\ stype' = [stype EXCEPT ![c] = "pub"]
  /\ Goes(c, "publish")
  /\ UNCHANGED <<c2s, clientUp, serverUp, observer, Stream, crashed>>

\* Mutant: a refused publisher's connection stays open.
OnNewRTMPPubSession_KeepsRefused(c) ==
  /\ sloop[c] = "publish"
  /\ Goes(c, "read")
  /\ pub' = IF pub = None THEN c ELSE pub
  /\ observer' = IF pub = None THEN observer \cup {c} ELSE observer
  /\ UNCHANGED <<wireVars, stype, timeouts, subs, crashed>>

\* The observer is set when the group takes the session; otherwise Server disposes
\* of it, and the loop goes on until its next read.
OnNewRTMPPubSession(c) ==
  /\ sloop[c] = "publish"
  /\ Goes(c, "read")
  /\ \/ /\ pub = None
        /\ pub' = c
        /\ observer' = observer \cup {c}
        /\ UNCHANGED serverUp
     \/ /\ pub # None
        /\ serverUp' = serverUp \ {c}
        /\ UNCHANGED <<pub, observer>>
  /\ UNCHANGED <<c2s, s2c, rbuf, clientUp, stype, timeouts, subs, crashed>>

\* Mutant: the group learns of the player before the player got its answer.
doPlay_RegistersFirst(c) ==
  /\ Reads(c, Play)
  /\ modConnProps(c)
  /\ stype' = [stype EXCEPT ![c] = "sub"]
  /\ subs' = subs \cup {c}
  /\ Goes(c, "play")
  /\ UNCHANGED <<c2s, s2c, clientUp, serverUp, observer, pub, crashed>>

doPlay(c) ==
  /\ Reads(c, Play)
  /\ ServerWrites(c, <<UserControl, OnStatusPlay>>)
  /\ modConnProps(c)
  /\ stype' = [stype EXCEPT ![c] = "sub"]
  /\ Goes(c, "play")
  /\ UNCHANGED <<c2s, clientUp, serverUp, observer, Stream, crashed>>

OnNewRTMPSubSession(c) ==
  /\ sloop[c] = "play"
  /\ Goes(c, "read")
  /\ subs' = subs \cup {c}
  /\ UNCHANGED <<wireVars, Session, pub, crashed>>

\* Audio, video and metadata: an error unless the session publishes; the group
\* writes them to every player.
OnReadRTMPAVMsg(c) ==
  /\ Reads(c, "av")
  /\ \/ /\ stype[c] # "pub"
        /\ Goes(c, "ended")
        /\ UNCHANGED <<s2c, crashed>>
     \/ /\ stype[c] = "pub"
        /\ c \in observer
        /\ s2c' = [d \in Conns |-> IF d \in subs \cap clientUp
                                   THEN Append(s2c[d], "av") ELSE s2c[d]]
        /\ UNCHANGED <<sloop, crashed>>
     \/ /\ stype[c] = "pub"
        /\ c \notin observer
        /\ crashed' = TRUE
        /\ UNCHANGED <<s2c, sloop>>
  /\ UNCHANGED <<c2s, clientUp, serverUp, Session, Stream>>

\* The ticker or the HTTP API closes a session it knows.
Dispose(c) ==
  /\ c \in subs \cup {pub}
  /\ c \in serverUp
  /\ serverUp' = serverUp \ {c}
  /\ UNCHANGED <<c2s, s2c, rbuf, clientUp, serverVars>>

\* Mutant: only publishers are reported.
handleTCPConnect_PubOnly(c) ==
  /\ sloop[c] = "ended"
  /\ Goes(c, "done")
  /\ pub' = IF stype[c] = "pub" /\ pub = c THEN None ELSE pub
  /\ UNCHANGED <<wireVars, Session, subs, crashed>>

\* After RunLoop the session is deleted as what it was last; its connection is not
\* closed here.
handleTCPConnect(c) ==
  /\ sloop[c] = "ended"
  /\ Goes(c, "done")
  /\ pub' = IF stype[c] = "pub" /\ pub = c THEN None ELSE pub
  /\ subs' = IF stype[c] = "sub" THEN subs \ {c} ELSE subs
  /\ UNCHANGED <<wireVars, Session, crashed>>

ServerStep(c) ==
  \/ ReadMore(c) \/ LoopFails(c) \/ ReadC0C1(c) \/ ReadC2(c)
  \/ doConnect(c) \/ doCreateStream(c) \/ doOther(c)
  \/ doPublish(c) \/ OnNewRTMPPubSession(c) \/ doPlay(c) \/ OnNewRTMPSubSession(c)
  \/ OnReadRTMPAVMsg(c) \/ handleTCPConnect(c)
=============================================================================
