------------------------- MODULE RtspClientSession -------------------------
(***************************************************************************)
(* The client's side: pkg/rtsp/client_command_session.go behind            *)
(* PullSession and PushSession.  Do starts a goroutine that connects and   *)
(* goes through the requests, one answer at a time, and waits for its      *)
(* result or for the timeout; after a success a read loop serves the       *)
(* connection and tells its end through waitErrChan.                       *)
(***************************************************************************)
EXTENDS RtspWire

CONSTANTS
  DoTimeout,  \* DoTimeoutMS # 0
  Transports, \* bound: the possible sets of connections over TCP
  MaxMedia    \* bound: packets a publisher sends

ASSUME ClientAssumption ==
  /\ DoTimeout \in BOOLEAN
  /\ MaxMedia \in Nat
  /\ Transports \subseteq SUBSET Conns

VARIABLES
  cloop,      \* where the session's goroutine is
  called,     \* how the call of Do stands
  errc,       \* errChan: the goroutine's result
  told,       \* waitErrChan has got its error
  kind,       \* pull or push
  tcp,        \* connections with OverTCP
  far,        \* connections to a server of somebody else, with GET_PARAMETER
  step,       \* requests answered so far
  tries,      \* writings of the current request
  cch,        \* the session's channels
  csock,      \* media whose pair of UDP sockets is open on the client
  csetup,     \* media whose sockets the base session has
  tick,       \* the ticker's channel holds a tick
  sent        \* packets sent

clientVars == <<cloop, called, errc, told, kind, tcp, far, step, tries, cch, csock,
                csetup, tick, sent>>

ClientInit ==
  /\ cloop = [c \in OwnConns |-> "none"]
  /\ called = [c \in OwnConns |-> "no"]
  /\ errc = [c \in OwnConns |-> None]
  /\ told = {}
  /\ kind = [c \in Conns |-> None]
  /\ tcp \in Transports
  /\ far = {}
  /\ step = [c \in Conns |-> 0]
  /\ tries = [c \in OwnConns |-> 0]
  /\ cch = [c \in Conns |-> [l \in Lines |-> None]]
  /\ csock = [c \in OwnConns |-> {}]
  /\ csetup = [c \in OwnConns |-> {}]
  /\ tick = {}
  /\ sent = [c \in Conns |-> 0]

Turns(c, l) == cloop' = [cloop EXCEPT ![c] = l]
Dialog == <<kind, tcp, far>>

\* writeSetup: video first.
Setups ==
  (IF "video" \in Media THEN <<"video">> ELSE <<>>)
  \o (IF "audio" \in Media THEN <<"audio">> ELSE <<>>)

\* The requests of a session: a method, or the medium of a SETUP.
Script(k) ==
  <<"OPTIONS", IF k = "pull" THEN "DESCRIBE" ELSE "ANNOUNCE">> \o Setups
  \o <<IF k = "pull" THEN "PLAY" ELSE "RECORD">>

\* session.channel: a pair for each SETUP before.
channel(i) == <<2 * i, 2 * i + 1>>

\* A request names the channels its session writes and reads from then on; over UDP
\* it follows the binding of a pair of sockets.
RequestAt(c) ==
  LET what == Script(kind[c])[step[c] + 1]
  IN IF what \notin Media THEN Request(what, None, None)
     ELSE Request("SETUP", what, IF c \in tcp THEN channel(step[c] - 2) ELSE None)

Answered(c) == step' = [step EXCEPT ![c] = @ + 1]

\* OnSetupWithChannel, when a SETUP is answered.
OnSetupWithChannel(c, r) ==
  cch' = IF r.of # None /\ r.chans # None
         THEN [cch EXCEPT ![c] = [@ EXCEPT ![<<r.of, "rtp">>] = r.chans[1],
                                           ![<<r.of, "rtcp">>] = r.chans[2]]]
         ELSE cch

\* Over UDP a pair of sockets is bound before the request is written first.
OverUDP(r) == r.of # None /\ r.chans = None
Acquire2(c, r) ==
  csock' = IF OverUDP(r) /\ tries[c] = 0 THEN [csock EXCEPT ![c] = @ \cup {r.of}] ELSE csock

\* OnSetupWithConn, when the answer has the server's ports.
OnSetupWithConn(c, r) ==
  csetup' = IF OverUDP(r) THEN [csetup EXCEPT ![c] = @ \cup {r.of}] ELSE csetup

\* A DESCRIBE's answer must hold an SDP, that of a SETUP over UDP the server's ports; the
\* other answers are not looked into.
LookedInto(r) == r.method = "DESCRIBE" \/ OverUDP(r)

----------------------------------------------------------------------------
(* The caller.                                                             *)

Do(c) ==
  /\ called[c] = "no"
  /\ called' = [called EXCEPT ![c] = "waiting"]
  /\ Turns(c, "dial")
  /\ \E k \in {"pull", "push"} : kind' = [kind EXCEPT ![c] = k]
  /\ UNCHANGED <<wireVars, errc, told, tcp, far, step, tries, cch, csock, csetup, tick, sent>>

\* A result of nil starts the read loop.
DoReturns(c) ==
  /\ called[c] = "waiting"
  /\ errc[c] # None
  /\ errc' = [errc EXCEPT ![c] = None]
  /\ called' = [called EXCEPT ![c] = errc[c]]
  /\ Turns(c, IF errc[c] = "ok" THEN "top" ELSE "ended")
  /\ UNCHANGED <<wireVars, told, Dialog, step, tries, cch, csock, csetup, tick, sent>>

\* The goroutine is not told.
DoTimesOut(c) ==
  /\ DoTimeout
  /\ called[c] = "waiting"
  /\ called' = [called EXCEPT ![c] = "timeout"]
  /\ UNCHANGED <<wireVars, cloop, errc, told, Dialog, step, tries, cch, csock, csetup, tick, sent>>

\* The command connection and the sockets the base session has.
ClientDispose(c) ==
  /\ called[c] \notin {"no", "waiting"}
  /\ c \in clientUp
  /\ ClientCloses(c)
  /\ csock' = [csock EXCEPT ![c] = @ \ csetup[c]]
  /\ UNCHANGED <<c2s, udp, serverUp, cloop, called, errc, told, Dialog, step, tries,
                 cch, csetup, tick, sent>>

\* Packets of some lines, on the channels or through the sockets set up for them.
Sends(c, ls) ==
  /\ sent[c] < MaxMedia
  /\ sent' = [sent EXCEPT ![c] = @ + 1]
  /\ \/ /\ c \in tcp
        /\ ClientWritesAll(c, [i \in DOMAIN ls |-> Interleaved(cch[c][ls[i]], ls[i])])
        /\ UNCHANGED udp
     \/ /\ c \notin tcp
        /\ udp' = udp \cup {<<c, l>> : l \in ToSet(ls)}
        /\ UNCHANGED c2s

WriteRTPPacket(c) ==
  /\ kind[c] = "push"
  /\ called[c] = "ok"
  /\ c \in clientUp \ far
  /\ \E of \in Media : Sends(c, <<<<of, "rtp">>>>)
  /\ UNCHANGED <<s2c, clientUp, serverUp, cloop, called, errc, told, Dialog, step, tries, cch,
                 csock, csetup, tick>>

----------------------------------------------------------------------------
(* The goroutine of Do.                                                    *)

Errs(c) == errc' = [errc EXCEPT ![c] = "error"] /\ Turns(c, "ended")

connectFails(c) ==
  /\ cloop[c] = "dial"
  /\ Errs(c)
  /\ UNCHANGED <<wireVars, called, told, Dialog, step, tries, cch, csock, csetup, tick, sent>>

\* A session with another server shares nothing with connections to this one: the two are
\* not explored together.
NothingHere == \A c \in PeerConns : kind[c] = None

connect(c) ==
  /\ cloop[c] = "dial"
  /\ Turns(c, "write")
  /\ clientUp' = clientUp \cup {c}
  /\ serverUp' = serverUp \cup {c}
  /\ far' \in {far} \cup (IF NothingHere THEN {far \cup {c}} ELSE {})
  /\ UNCHANGED <<c2s, s2c, udp, called, errc, told, kind, tcp, step, tries, cch, csock,
                 csetup, tick, sent>>

writeCmd(c) ==
  /\ cloop[c] = "write"
  /\ Turns(c, "await")
  /\ tries' = [tries EXCEPT ![c] = @ + 1]
  /\ LET r == RequestAt(c) IN
       /\ Acquire2(c, r)
       /\ ClientWrites(c, r)
  /\ UNCHANGED <<s2c, udp, clientUp, serverUp, called, errc, told, Dialog, step, cch, csetup,
                 tick, sent>>

\* An answer of any code but 401 goes for a success, unless it is looked into.
readResp(c) ==
  /\ cloop[c] = "await"
  /\ LET r == RequestAt(c) IN
     \E code \in {"200", "refused"} :
       /\ ClientTakes(c, Response(code))
       /\ \/ /\ code = "refused"
             /\ LookedInto(r)
             /\ Errs(c)
             /\ UNCHANGED <<step, tries, cch, csetup>>
          \/ /\ code = "200" \/ ~LookedInto(r)
             /\ Answered(c)
             /\ tries' = [tries EXCEPT ![c] = 0]
             /\ OnSetupWithChannel(c, r)
             /\ OnSetupWithConn(c, r)
             /\ IF step[c] + 1 = Len(Script(kind[c]))
                THEN errc' = [errc EXCEPT ![c] = "ok"] /\ Turns(c, "done")
                ELSE UNCHANGED errc /\ Turns(c, "write")
  /\ UNCHANGED <<c2s, udp, clientUp, serverUp, called, told, Dialog, csock, tick, sent>>

\* After a 401 the request is written again with credentials, once.
readUnauthorized(c) ==
  /\ cloop[c] = "await"
  /\ ClientTakes(c, Response("401"))
  /\ \/ tries[c] = 1 /\ Turns(c, "write") /\ UNCHANGED errc
     \/ tries[c] = 2 /\ Errs(c)
  /\ UNCHANGED <<c2s, udp, clientUp, serverUp, called, told, Dialog, step, tries, cch, csock,
                 csetup, tick, sent>>

\* No answer: the connection ended, or an interleaved packet is where it should be.
readRespFails(c) ==
  /\ cloop[c] = "await"
  /\ \/ ClientReadFails(c) /\ UNCHANGED s2c
     \/ \E ch \in 0 .. 3, l \in Lines : ClientTakes(c, Interleaved(ch, l))
  /\ Errs(c)
  /\ UNCHANGED <<c2s, udp, clientUp, serverUp, called, told, Dialog, step, tries, cch, csock,
                 csetup, tick, sent>>

----------------------------------------------------------------------------
(* The read loop.  Its top looks for a tick if the server has              *)
(* GET_PARAMETER; over TCP it then blocks in a read, over UDP it spins.    *)

TickerFires(c) ==
  /\ cloop[c] \in {"top", "reading"}
  /\ c \in far \ tick
  /\ tick' = tick \cup {c}
  /\ UNCHANGED <<wireVars, cloop, called, errc, told, Dialog, step, tries, cch, csock, csetup,
                 sent>>

\* writeCmd of GET_PARAMETER; over UDP its answer is read at once.
keepAlive(c) ==
  /\ cloop[c] = "top"
  /\ c \in tick
  /\ tick' = tick \ {c}
  /\ ClientWrites(c, Request("GET_PARAMETER", None, None))
  /\ Turns(c, "reading")
  /\ UNCHANGED <<s2c, udp, clientUp, serverUp, called, errc, told, Dialog, step, tries, cch,
                 csock, csetup, sent>>

blocksInRead(c) ==
  /\ cloop[c] = "top"
  /\ c \notin tick
  /\ c \in tcp \/ c \notin far
  /\ Turns(c, "reading")
  /\ UNCHANGED <<wireVars, called, errc, told, Dialog, step, tries, cch, csock, csetup, tick, sent>>

\* A packet goes to the base session, an answer to GET_PARAMETER nowhere.
OnInterleavedPacket(c) ==
  /\ cloop[c] = "reading"
  /\ \/ \E ch \in 0 .. 3, l \in Lines : ClientTakes(c, Interleaved(ch, l))
     \/ ClientTakes(c, Response("200"))
  /\ Turns(c, "top")
  /\ UNCHANGED <<c2s, udp, clientUp, serverUp, called, errc, told, Dialog, step, tries, cch,
                 csock, csetup, tick, sent>>

\* Mutant: over UDP nobody reads the command connection.
readLoopEnds_TCPOnly(c) ==
  /\ cloop[c] = "reading"
  /\ c \in tcp
  /\ ClientReadFails(c)
  /\ told' = told \cup {c}
  /\ Turns(c, "ended")
  /\ UNCHANGED <<wireVars, called, errc, Dialog, step, tries, cch, csock, csetup, tick, sent>>

readLoopEnds(c) ==
  /\ cloop[c] = "reading"
  /\ ClientReadFails(c)
  /\ told' = told \cup {c}
  /\ Turns(c, "ended")
  /\ UNCHANGED <<wireVars, called, errc, Dialog, step, tries, cch, csock, csetup, tick, sent>>

ClientStep(c) ==
  \/ connectFails(c) \/ connect(c) \/ writeCmd(c) \/ readResp(c) \/ readUnauthorized(c)
  \/ readRespFails(c) \/ TickerFires(c) \/ keepAlive(c) \/ blocksInRead(c)
  \/ OnInterleavedPacket(c) \/ readLoopEnds(c)
=============================================================================
