------------------------- MODULE RtmpClientSession -------------------------
(***************************************************************************)
(* The client's side: pkg/rtmp/client_session.go behind PullSession and    *)
(* PushSession.  Do starts a goroutine that connects, shakes hands and     *)
(* reads, and waits for the result of play or publish or for the timeout;  *)
(* the two meet in doResultChan, which holds one result.                   *)
(***************************************************************************)
EXTENDS RtmpWire

CONSTANTS
  DoTimeout,  \* DoTimeoutMS # 0
  MaxMedia    \* bound: messages a pushing client sends

ASSUME ClientConstantsOK == DoTimeout \in BOOLEAN /\ MaxMedia \in Nat

VARIABLES
  cloop,     \* where the session's goroutine is
  called,    \* how the call of Do stands
  result,    \* results in doResultChan
  sent       \* media messages sent

clientVars == <<cloop, called, result, sent>>
OwnConns == PullConns \cup PushConns

ClientTypeOK ==
  /\ cloop \in [OwnConns -> {"none", "dial", "S0S1S2", "read", "blocked", "ended"}]
  /\ called \in [OwnConns -> {"no", "waiting", "ok", "timeout"}]
  /\ result \in [OwnConns -> 0 .. 1]
  /\ sent \in [OwnConns -> 0 .. MaxMedia]

ClientInit ==
  /\ cloop = [c \in OwnConns |-> "none"]
  /\ called = [c \in OwnConns |-> "no"]
  /\ result = [c \in OwnConns |-> 0]
  /\ sent = [c \in OwnConns |-> 0]

Turns(c, l) == cloop' = [cloop EXCEPT ![c] = l]

----------------------------------------------------------------------------
(* The caller.                                                             *)

Do(c) ==
  /\ called[c] = "no"
  /\ called' = [called EXCEPT ![c] = "waiting"]
  /\ Turns(c, "dial")
  /\ UNCHANGED <<wireVars, result, sent>>

DoSucceeds(c) ==
  /\ called[c] = "waiting"
  /\ result[c] = 1
  /\ called' = [called EXCEPT ![c] = "ok"]
  /\ result' = [result EXCEPT ![c] = 0]
  /\ UNCHANGED <<wireVars, cloop, sent>>

\* The time ends the wait, and nothing else: errChan has no reader, and the
\* goroutine and its connection go on.
DoTimesOut(c) ==
  /\ DoTimeout
  /\ called[c] = "waiting"
  /\ called' = [called EXCEPT ![c] = "timeout"]
  /\ UNCHANGED <<wireVars, cloop, result, sent>>

SendMedia(c) ==
  /\ c \in PushConns
  /\ called[c] = "ok"
  /\ c \in clientUp
  /\ sent[c] < MaxMedia
  /\ sent' = [sent EXCEPT ![c] = @ + 1]
  /\ ClientWrites(c, <<"av">>)
  /\ UNCHANGED <<s2c, rbuf, clientUp, serverUp, cloop, called, result>>

\* The owner closes a session whose Do succeeded.
ClientDispose(c) ==
  /\ called[c] = "ok"
  /\ c \in clientUp
  /\ clientUp' = clientUp \ {c}
  /\ UNCHANGED <<c2s, s2c, rbuf, serverUp, clientVars>>

----------------------------------------------------------------------------
(* The goroutine.                                                          *)

\* Refused: the error goes into errChan.
tcpConnectFails(c) ==
  /\ cloop[c] = "dial"
  /\ Turns(c, "ended")
  /\ UNCHANGED <<wireVars, called, result, sent>>

\* Connected: both ends are open, and C0 and C1 are written.
tcpConnect(c) ==
  /\ cloop[c] = "dial"
  /\ Turns(c, "S0S1S2")
  /\ clientUp' = clientUp \cup {c}
  /\ serverUp' = serverUp \cup {c}
  /\ c2s' = Says(c2s, c, <<C0C1>>)
  /\ UNCHANGED <<s2c, rbuf, called, result, sent>>

ReadS0S1S2(c) ==
  /\ cloop[c] = "S0S1S2"
  /\ ClientTakes(c, S0S1S2)
  /\ ClientWrites(c, <<C2, "other", Connect>>)
  /\ Turns(c, "read")
  /\ UNCHANGED <<rbuf, clientUp, serverUp, called, result, sent>>

Hears(c, m) == cloop[c] = "read" /\ ClientTakes(c, m)

doResultMessage(c) ==
  /\ \/ /\ Hears(c, ConnectResult)
        /\ ClientWrites(c, <<CreateStream>>)
     \/ /\ Hears(c, CreateStreamResult)
        /\ ClientWrites(c, IF c \in PullConns THEN <<Play>> ELSE <<Publish>>)
  /\ UNCHANGED <<rbuf, clientUp, serverUp, clientVars>>

\* notifyDoResultSucc sends into the channel: a result nobody takes blocks the loop.
doOnStatusMessage(c) ==
  /\ Hears(c, OnStatusPublish) \/ Hears(c, OnStatusPlay)
  /\ \/ /\ result[c] = 0
        /\ result' = [result EXCEPT ![c] = 1]
        /\ UNCHANGED cloop
     \/ /\ result[c] = 1
        /\ Turns(c, "blocked")
        /\ UNCHANGED result
  /\ UNCHANGED <<c2s, rbuf, clientUp, serverUp, called, sent>>

\* Control messages are logged; audio and video go to the callback.
doMsg(c) ==
  /\ Hears(c, ProtocolControl) \/ Hears(c, "av")
  /\ UNCHANGED <<c2s, rbuf, clientUp, serverUp, clientVars>>

\* The read loop ends on an error; it does not close the connection.
runReadLoopEnds(c) ==
  /\ cloop[c] \in {"S0S1S2", "read"}
  /\ ClientReadFails(c)
  /\ Turns(c, "ended")
  /\ UNCHANGED <<wireVars, called, result, sent>>

ClientStep(c) ==
  \/ tcpConnect(c) \/ tcpConnectFails(c) \/ ReadS0S1S2(c) \/ doResultMessage(c)
  \/ doOnStatusMessage(c) \/ doMsg(c) \/ runReadLoopEnds(c)
=============================================================================
