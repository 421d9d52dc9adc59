---------------------------- MODULE RtmpSession ----------------------------
(***************************************************************************)
(* RTMP connections with both their ends: the program's own client         *)
(* sessions (relay pull and push) and other clients against the server     *)
(* sessions of one stream.                                                 *)
(***************************************************************************)
EXTENDS RtmpServerSession, RtmpClientSession

CONSTANTS
  MaxSays,   \* bound: commands of another client
  OneRole,   \* it sends publish or play once ...
  Waits      \* ... and no media before the answer

VARIABLES
  said,      \* commands it has sent
  role       \* what it knows of its own publish or play

peerVars == <<said, role>>
vars == <<wireVars, serverVars, clientVars, peerVars>>

TypeOK ==
  /\ WireTypeOK /\ ServerTypeOK /\ ClientTypeOK
  /\ said \in [PeerConns -> 0 .. MaxSays]
  /\ role \in [PeerConns -> {"none", "asked", "on"}]

Init ==
  /\ WireInit /\ ServerInit /\ ClientInit
  /\ said = [c \in PeerConns |-> 0]
  /\ role = [c \in PeerConns |-> "none"]

----------------------------------------------------------------------------
(* Another client, and the server's accept.                                *)

\* RunLoop accepts and starts the connection's goroutine.
Accept(c) ==
  /\ sloop[c] = "none"
  /\ c \in serverUp
  /\ Goes(c, "C0C1")
  /\ UNCHANGED <<wireVars, Session, Stream, crashed, clientVars, peerVars>>

PeerConnects(c) ==
  /\ sloop[c] = "none"
  /\ c \notin clientUp \cup serverUp
  /\ clientUp' = clientUp \cup {c}
  /\ serverUp' = serverUp \cup {c}
  /\ c2s' = [c2s EXCEPT ![c] = <<"C0C1", "C2", "connect">>]
  /\ UNCHANGED <<s2c, rbuf, serverVars, clientVars, peerVars>>

MaySay(c, m) ==
  /\ m \in {"publish", "play"} => ~OneRole \/ role[c] = "none"
  /\ m = "av" => ~Waits \/ role[c] # "asked"

PeerSays(c) ==
  /\ c \in clientUp
  /\ said[c] < MaxSays
  /\ \E m \in {"publish", "play", "av", "bad"} :
       /\ MaySay(c, m)
       /\ ClientWrites(c, <<m>>)
       /\ role' = IF m \in {"publish", "play"} THEN [role EXCEPT ![c] = "asked"] ELSE role
  /\ said' = [said EXCEPT ![c] = @ + 1]
  /\ UNCHANGED <<s2c, rbuf, clientUp, serverUp, serverVars, clientVars>>

PeerHears(c) ==
  /\ \E m \in ServerSays :
       /\ ClientTakes(c, m)
       /\ role' = IF m = "status" THEN [role EXCEPT ![c] = "on"] ELSE role
  /\ UNCHANGED <<c2s, rbuf, clientUp, serverUp, serverVars, clientVars, said>>

PeerLeaves(c) ==
  /\ c \in clientUp
  /\ clientUp' = clientUp \ {c}
  /\ UNCHANGED <<c2s, s2c, rbuf, serverUp, serverVars, clientVars, peerVars>>

----------------------------------------------------------------------------

ServerNext(c) ==
  \/ Accept(c)
  \/ (ServerStep(c) \/ Dispose(c)) /\ UNCHANGED <<clientVars, peerVars>>

OwnNext(c) ==
  /\ \/ Do(c) \/ DoSucceeds(c) \/ DoTimesOut(c) \/ SendMedia(c) \/ ClientDispose(c)
     \/ ClientStep(c)
  /\ UNCHANGED <<serverVars, peerVars>>

PeerNext(c) == PeerConnects(c) \/ PeerSays(c) \/ PeerHears(c) \/ PeerLeaves(c)

Next ==
  \/ \E c \in Conns : ServerNext(c)
  \/ \E c \in OwnConns : OwnNext(c)
  \/ \E c \in PeerConns : PeerNext(c)

Spec == Init /\ [][Next]_vars

\* Goroutines that can go on do: the one of each connection the server accepted, the
\* one of each client session, and the caller of its Do.  The timer of Do may never
\* fire (DoTimeoutMS is 0 by default); what other clients do, and when sessions are
\* disposed of, is left open.
Fairness ==
  /\ \A c \in Conns :
       WF_vars(Accept(c) \/ (ServerStep(c) /\ UNCHANGED <<clientVars, peerVars>>))
  /\ \A c \in OwnConns :
       /\ WF_vars(ClientStep(c) /\ UNCHANGED <<serverVars, peerVars>>)
       /\ WF_vars(DoSucceeds(c) /\ UNCHANGED <<serverVars, peerVars>>)

FairSpec == Spec /\ Fairness

----------------------------------------------------------------------------
(* Properties.                                                             *)

\* The group knows no connection whose goroutine has ended: what doPublish or doPlay
\* registered, handleTCPConnect takes back, also for refused and disposed sessions.
\* (True of clients that publish or play once per connection: the session remembers
\* only its last role.)
RegistrationReleased == \A c \in subs \cup ({pub} \ {None}) : sloop[c] # "done"

\* What a player gets first is the answer to its play: no media of the group, which
\* another connection's goroutine writes, is ahead of it.
StatusBeforeMedia ==
  \A c \in Conns : \A i \in DOMAIN s2c[c] :
    s2c[c][i] = "av" =>
      \/ \E j \in 1 .. i - 1 : s2c[c][j] = "status"
      \/ c \in PeerConns /\ role[c] = "on"
      \/ c \in OwnConns /\ (result[c] = 1 \/ called[c] \in {"ok", "timeout"})

\* No media of a publisher that was refused is given to the observer it was never
\* given, although it was told to start and its connection may still have data.
\* (True of clients that wait for the answer before they send.)
NoNilObserver == ~crashed

\* A Do that reached the server gets its result without the help of the timer, also
\* when the stream is taken or the session is disposed of: every request is answered,
\* and nothing closes the connection ahead of the answer that Do waits for.
ConnectedDoReturns ==
  \A c \in OwnConns : called[c] = "waiting" /\ c \in clientUp ~> called[c] # "waiting"

\* "Blocks until the result of publish or play, or an error": a Do whose goroutine
\* ended in an error does not wait on.
DoReportsErrors ==
  \A c \in OwnConns : cloop[c] = "ended" /\ called[c] = "waiting" ~> called[c] # "waiting"

\* "After the answer the properties of the connection are set": a session that
\* publishes or plays has its timeout.
AVTimeoutSet ==
  \A c \in Conns : sloop[c] = "read" /\ stype[c] # "unknown" => c \in timeouts

\* A session whose Do failed does nothing any more.
NothingAfterTimeout == [][\A c \in OwnConns : called[c] = "timeout" => cloop'[c] = cloop[c]]_vars

\* A connection whose goroutine is over is closed.
EndedIsClosed == \A c \in Conns : sloop[c] = "done" => c \notin serverUp
=============================================================================
