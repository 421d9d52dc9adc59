------------------------------- MODULE Group -------------------------------
(***************************************************************************)
(* One stream's Group (pkg/logic/group.go) as the ServerManager drives it. *)
(*                                                                         *)
(* A group connects one input (an RTMP or RTSP publisher, or a relay pull  *)
(* from an origin) to any number of subscribers and to relay pushes.  The  *)
(* actors are: one goroutine per server connection, the manager's one      *)
(* second ticker, the HTTP API, and the goroutines that pullIfNeeded and   *)
(* pushIfNeeded start.  Every handler runs under sm.mutex and group.mutex, *)
(* so a handler is one action; the goroutines take the group's mutex       *)
(* between network operations, so each of their critical sections is one.  *)
(*                                                                         *)
(* Data is abstracted to who fed it: gopCache holds the sessions whose     *)
(* messages the GOP caches contain.  A session is stalled when no byte     *)
(* has moved on it for a whole check interval (IsAlive answers false).     *)
(***************************************************************************)
EXTENDS Naturals, FiniteSets

CONSTANTS
  RtmpPubs,        \* RTMP connections that publish
  RtspPubs,        \* RTSP connections that ANNOUNCE
  RtmpSubs,        \* RTMP connections that play
  HttpSubs,        \* HTTP-FLV and HTTP-TS players
  RtspSubs,        \* RTSP connections that DESCRIBE and PLAY
  Pulls,           \* pool of relay-pull goroutines (bounds how many coexist)
  Pushers,         \* pool of relay-push goroutines (bounds how many coexist)
  Urls,            \* relay-push targets; {} when relay push is off
  HlsEnable,       \* HLSConfig.Enable
  RelayPullEnable, \* RelayPullConfig.Enable
  CheckInterval,   \* checkSessionAliveIntervalSec, in ticks
  None             \* the nil session

Pubs == RtmpPubs \cup RtspPubs
Subs == RtmpSubs \cup HttpSubs \cup RtspSubs
ServerSessions == Pubs \cup Subs
Inputs == Pubs \cup Pulls

ASSUME ConstantsOK ==
  /\ HlsEnable \in BOOLEAN
  /\ RelayPullEnable \in BOOLEAN
  /\ CheckInterval \in Nat \ {0}

\* Sessions of different kinds are different objects, and none of them is nil.
ASSUME KindsDisjoint ==
  /\ RtmpPubs \cap RtspPubs = {}
  /\ Pubs \cap Subs = {}
  /\ RtmpSubs \cap HttpSubs = {}
  /\ (RtmpSubs \cup HttpSubs) \cap RtspSubs = {}
  /\ Pulls \cap ServerSessions = {}
  /\ Pushers \cap (Pulls \cup ServerSessions) = {}
  /\ None \notin ServerSessions \cup Pulls \cup Pushers \cup Urls

VARIABLES
  life,         \* "live", "erased" by iterateGroup, or "shutdown" with the server
  hung,         \* TRUE once a handler waits for a mutex it already holds
  rtmpPub, rtspPub,          \* rtmpPubSession, rtspPubSession
  outs,                      \* the four sub session sets, as one
  pullEnable,
  isPulling, pullSession,    \* pullProxy
  isPushing, pushSession,    \* url2PushProxy
  hlsMuxer,                  \* hlsMuxer # nil
  gopCache,                  \* whose data gopCache and httpflvGopCache hold
  tickCount,                 \* tickCount modulo CheckInterval
  conn,         \* state of each server connection's goroutine
  closed,       \* sessions whose connection has been closed
  stalled,      \* sessions on which bytes have stopped moving
  pullPc, link, \* relay-pull goroutine, and the read loop of its session
  pushPc, pushUrl

inputVars == <<rtmpPub, rtspPub, pullSession>>
groupVars == <<life, hung, rtmpPub, rtspPub, outs, pullEnable, isPulling,
               pullSession, isPushing, pushSession, hlsMuxer, gopCache, tickCount>>
connVars  == <<conn, closed, stalled>>
pullVars  == <<pullPc, link>>
pushVars  == <<pushPc, pushUrl>>
vars      == <<groupVars, connVars, pullVars, pushVars>>

TypeOK ==
  /\ life \in {"live", "erased", "shutdown"}
  /\ hung \in BOOLEAN
  /\ rtmpPub \in RtmpPubs \cup {None}
  /\ rtspPub \in RtspPubs \cup {None}
  /\ outs \subseteq Subs
  /\ pullEnable \in BOOLEAN
  /\ isPulling \in BOOLEAN
  /\ pullSession \in Pulls \cup {None}
  /\ isPushing \in [Urls -> BOOLEAN]
  /\ pushSession \in [Urls -> Pushers \cup {None}]
  /\ hlsMuxer \in BOOLEAN
  /\ gopCache \subseteq Inputs
  /\ tickCount \in 0 .. CheckInterval - 1
  /\ conn \in [ServerSessions -> {"idle", "accepted", "refused", "described", "up"}]
  /\ closed \subseteq ServerSessions \cup Pulls \cup Pushers
  /\ stalled \subseteq ServerSessions \cup Pulls
  /\ pullPc \in [Pulls -> {"free", "pulling", "ready", "waiting", "exiting"}]
  /\ link \in [Pulls -> {"off", "dial", "play"}]
  /\ pushPc \in [Pushers -> {"free", "pushing", "ready", "waiting", "exiting"}]
  /\ pushUrl \in [Pushers -> Urls \cup {None}]

Init ==
  /\ life = "live"
  /\ hung = FALSE
  /\ rtmpPub = None
  /\ rtspPub = None
  /\ outs = {}
  /\ pullEnable = RelayPullEnable
  /\ isPulling = FALSE
  /\ pullSession = None
  /\ isPushing = [u \in Urls |-> FALSE]
  /\ pushSession = [u \in Urls |-> None]
  /\ hlsMuxer = FALSE
  /\ gopCache = {}
  /\ tickCount = 0
  /\ conn = [s \in ServerSessions |-> "idle"]
  /\ closed = {}
  /\ stalled = {}
  /\ pullPc = [p \in Pulls |-> "free"]
  /\ link = [p \in Pulls |-> "off"]
  /\ pushPc = [g \in Pushers |-> "free"]
  /\ pushUrl = [g \in Pushers |-> None]

----------------------------------------------------------------------------
(* Predicates and fragments shared by the handlers.                        *)

HasPub == rtmpPub # None \/ rtspPub # None
HasInSession_NoPull == HasPub  \* mutant
HasInSession == HasPub \/ pullSession # None
HasPushSession == \E u \in Urls : isPushing[u] \/ pushSession[u] # None
PushSessions == {pushSession[u] : u \in Urls} \ {None}

IsTotalEmpty ==
  /\ ~HasInSession
  /\ outs = {}
  /\ ~hlsMuxer
  /\ ~HasPushSession

\* The group is in groupMap, and the mutexes can be taken.
Serving == life = "live" /\ ~hung

FreePulls == {p \in Pulls : pullPc[p] = "free" /\ link[p] = "off"}
FreePushers == {g \in Pushers : pushPc[g] = "free"}

PullWanted(enable, subs) ==
  enable /\ subs # {} /\ ~HasInSession /\ ~isPulling

\* pullIfNeeded: starts the goroutine and marks the proxy, or does nothing.
PullIfNeeded(enable, subs) ==
  \/ /\ PullWanted(enable, subs)
     /\ \E p \in FreePulls :
          /\ pullPc' = [pullPc EXCEPT ![p] = "pulling"]
          /\ link' = [link EXCEPT ![p] = "dial"]
     /\ isPulling' = TRUE
  \/ /\ ~PullWanted(enable, subs) \/ FreePulls = {}  \* the pool is a bound of the model
     /\ UNCHANGED <<isPulling, pullPc, link>>

\* The targets for which pushIfNeeded starts a goroutine.
PushTargets_All(hasPub) == {u \in Urls : hasPub}  \* mutant: isPushing not looked at
PushTargets_Once(hasPub) ==                       \* mutant: only addIn starts a push
  {u \in Urls : hasPub /\ ~isPushing[u] /\ ~HasPub}
PushTargets(hasPub) == {u \in Urls : hasPub /\ ~isPushing[u]}

\* pushIfNeeded: one goroutine for every target that has none.
PushIfNeeded(hasPub) ==
  LET targets == PushTargets(hasPub)
  IN \E worker \in [targets -> FreePushers] :
       /\ \A u, v \in targets : worker[u] = worker[v] => u = v
       /\ isPushing' = [u \in Urls |-> isPushing[u] \/ u \in targets]
       /\ pushPc' = [g \in Pushers |->
            IF \E u \in targets : worker[u] = g THEN "pushing" ELSE pushPc[g]]
       /\ pushUrl' = [g \in Pushers |->
            IF \E u \in targets : worker[u] = g
            THEN CHOOSE u \in targets : worker[u] = g ELSE pushUrl[g]]

\* addIn: a new muxer replaces whatever was there, then relay push starts.
AddIn(hasPub) ==
  /\ hlsMuxer' = (HlsEnable \/ hlsMuxer)
  /\ PushIfNeeded(hasPub)

\* Mutant: a delIn that keeps the GOP caches.
DelIn_KeepsCache ==
  /\ hlsMuxer' = (hlsMuxer /\ ~HlsEnable)
  /\ pushSession' = [u \in Urls |-> None]
  /\ UNCHANGED gopCache

\* delIn, but for closing the push sessions (closed' is set by its callers):
\* the muxer goes, the proxies drop their sessions, the GOP caches are cleared.
DelIn ==
  /\ hlsMuxer' = (hlsMuxer /\ ~HlsEnable)
  /\ pushSession' = [u \in Urls |-> None]
  /\ gopCache' = {}

----------------------------------------------------------------------------
(* Publishers: OnNew/OnDel of the RTMP and RTSP servers.                   *)

RefusePub(s) ==
  /\ HasInSession
  /\ conn' = [conn EXCEPT ![s] = "refused"]
  /\ closed' = closed \cup {s}
  /\ UNCHANGED <<groupVars, stalled, pullVars, pushVars>>

AcceptPub(s) ==
  /\ ~HasInSession
  /\ conn' = [conn EXCEPT ![s] = "accepted"]
  /\ AddIn(TRUE)
  /\ UNCHANGED <<life, hung, outs, pullEnable, isPulling, pullSession,
                 pushSession, tickCount, closed, stalled, pullVars>>

OnNewRTMPPubSession(s) ==
  /\ Serving
  /\ conn[s] = "idle"
  /\ \/ RefusePub(s)
     \/ /\ AcceptPub(s)
        /\ rtmpPub' = s
        /\ UNCHANGED <<rtspPub, gopCache>>

\* SetObserver calls OnAVConfig back at once when the SDP carried the codec
\* configuration: the headers are broadcast and cached inside AddRTSPPubSession.
OnNewRTSPPubSession(s) ==
  /\ Serving
  /\ conn[s] = "idle"
  /\ \/ RefusePub(s)
     \/ /\ AcceptPub(s)
        /\ rtspPub' = s
        /\ gopCache' \in {gopCache, gopCache \cup {s}}
        /\ UNCHANGED rtmpPub

\* The connection's goroutine is over: no group object changes once the group
\* is erased (getGroup finds none) or disposed (the identity check fails).
PubGone(s) ==
  /\ ~hung
  /\ conn[s] \in {"accepted", "refused"}
  /\ conn' = [conn EXCEPT ![s] = "idle"]
  /\ stalled' = stalled \ {s}

\* Mutants: the session is never removed; it is removed whoever the owner is.
DelPub_Nothing(s) ==
  /\ closed' = closed \ {s}
  /\ UNCHANGED <<rtmpPub, rtspPub, hlsMuxer, pushSession, gopCache>>
DelPub_NoIdentityCheck(s) ==
  /\ rtmpPub' = None
  /\ rtspPub' = None
  /\ closed' = (closed \cup PushSessions) \ {s}
  /\ DelIn

\* delRTMPPubSession and delRTSPPubSession: only the session itself may go.
DelPub(s) ==
  \/ /\ s \in {rtmpPub, rtspPub}
     /\ rtmpPub' = IF s = rtmpPub THEN None ELSE rtmpPub
     /\ rtspPub' = IF s = rtspPub THEN None ELSE rtspPub
     /\ closed' = (closed \cup PushSessions) \ {s}
     /\ DelIn
  \/ /\ s \notin {rtmpPub, rtspPub}
     /\ closed' = closed \ {s}
     /\ UNCHANGED <<rtmpPub, rtspPub, hlsMuxer, pushSession, gopCache>>

OnDelPubSession(s) ==
  /\ PubGone(s)
  /\ DelPub(s)
  /\ UNCHANGED <<life, hung, outs, pullEnable, isPulling, pullSession,
                 isPushing, tickCount, pullVars, pushVars>>

----------------------------------------------------------------------------
(* Subscribers.                                                            *)

OnNewSubSession(s) ==
  /\ Serving
  /\ conn[s] = "idle"
  /\ conn' = [conn EXCEPT ![s] = "up"]
  /\ outs' = outs \cup {s}
  /\ PullIfNeeded(pullEnable, outs')
  /\ UNCHANGED <<life, hung, rtmpPub, rtspPub, pullEnable, pullSession, isPushing,
                 pushSession, hlsMuxer, gopCache, tickCount, closed, stalled, pushVars>>

OnRTSPDescribe(s) ==
  /\ Serving
  /\ conn[s] = "idle"
  /\ rtspPub # None
  /\ conn' = [conn EXCEPT ![s] = "described"]
  /\ UNCHANGED <<groupVars, closed, stalled, pullVars, pushVars>>

\* HandleNewRTSPSubSessionPlay does not try to pull.
OnRTSPPlay(s) ==
  /\ Serving
  /\ conn[s] = "described"
  /\ conn' = [conn EXCEPT ![s] = "up"]
  /\ outs' = outs \cup {s}
  /\ UNCHANGED <<life, hung, rtmpPub, rtspPub, pullEnable, isPulling, pullSession,
                 isPushing, pushSession, hlsMuxer, gopCache, tickCount, closed,
                 stalled, pullVars, pushVars>>

OnDelSubSession(s) ==
  /\ ~hung
  /\ conn[s] \in {"described", "up"}
  /\ conn' = [conn EXCEPT ![s] = "idle"]
  /\ outs' = outs \ {s}
  /\ closed' = closed \ {s}
  /\ stalled' = stalled \ {s}
  /\ UNCHANGED <<life, hung, rtmpPub, rtspPub, pullEnable, isPulling, pullSession,
                 isPushing, pushSession, hlsMuxer, gopCache, tickCount, pullVars,
                 pushVars>>

----------------------------------------------------------------------------
(* Data.  OnReadRTMPAVMsg takes the mutex; OnAVPacket (RTSP) does not.     *)

FeedPub(s) ==
  /\ conn[s] = "accepted"
  /\ s \notin stalled
  /\ ~hung \/ s \in RtspPubs
  /\ gopCache' = gopCache \cup {s}
  /\ UNCHANGED <<life, hung, inputVars, outs, pullEnable, isPulling, isPushing,
                 pushSession, hlsMuxer, tickCount, connVars, pullVars, pushVars>>

FeedPull(p) ==
  /\ link[p] = "play"
  /\ p \notin stalled
  /\ ~hung
  /\ gopCache' = gopCache \cup {p}
  /\ UNCHANGED <<life, hung, inputVars, outs, pullEnable, isPulling, isPushing,
                 pushSession, hlsMuxer, tickCount, connVars, pullVars, pushVars>>

Stall(s) ==
  /\ s \notin stalled
  /\ \/ s \in ServerSessions /\ conn[s] \in {"accepted", "up"}
     \/ s \in Pulls /\ link[s] = "play"
  /\ stalled' = stalled \cup {s}
  /\ UNCHANGED <<groupVars, conn, closed, pullVars, pushVars>>

----------------------------------------------------------------------------
(* The manager's ticker: iterateGroup erases an empty group or ticks it.   *)

IdlePull_Never == {}  \* mutant: stopPullIfNeeded is not called
IdlePull == IF pullSession # None /\ outs = {} THEN {pullSession} ELSE {}
Overdue_Never == {}   \* mutants: no session, or only publishers, time out
Overdue_PubsOnly == IF tickCount = 0 THEN stalled \cap Pubs ELSE {}
Overdue == IF tickCount = 0 THEN stalled ELSE {}

\* What Tick does but for the subscribers it drops (dropped) and how it ends.
TickBody(dropped, kicked) ==
  LET deadPull == pullSession \in Overdue
  IN /\ Serving
     /\ ~IsTotalEmpty
     /\ PushIfNeeded(HasPub)
     /\ rtspPub' = IF rtspPub \in Overdue THEN None ELSE rtspPub
     /\ \/ /\ deadPull
           /\ pullSession' = None
           /\ isPulling' = FALSE
           /\ DelIn
           /\ UNCHANGED <<pullPc, link>>
        \/ /\ ~deadPull
           /\ PullIfNeeded(pullEnable, outs)
           /\ UNCHANGED <<pullSession, hlsMuxer, pushSession, gopCache>>
     /\ outs' = outs \ dropped
     /\ closed' = closed \cup IdlePull \cup dropped \cup kicked
                    \cup (Overdue \cap {rtmpPub, rtspPub, pullSession})
                    \cup (IF deadPull THEN PushSessions ELSE {})
     /\ UNCHANGED <<life, rtmpPub, pullEnable, conn, stalled>>

Tick ==
  /\ Overdue \cap outs \cap RtspSubs = {}
  /\ TickBody(Overdue \cap outs, {})
  /\ tickCount' = (tickCount + 1) % CheckInterval
  /\ UNCHANGED hung

\* For an overdue RTSP subscriber Tick calls the exported DelRTSPSubSession,
\* which locks group.mutex again: Tick never returns, sm.mutex stays held.
TickHangs ==
  \E s \in Overdue \cap outs \cap RtspSubs :
    /\ TickBody((Overdue \cap outs) \ RtspSubs, {s})
    /\ hung' = TRUE
    /\ UNCHANGED tickCount

\* Group.Dispose on an empty group only drops its (empty) tables.
Erase ==
  /\ Serving
  /\ IsTotalEmpty
  /\ life' = "erased"
  /\ UNCHANGED <<hung, rtmpPub, rtspPub, outs, pullEnable, isPulling, pullSession,
                 isPushing, pushSession, hlsMuxer, gopCache, tickCount, connVars,
                 pullVars, pushVars>>

\* ServerManager.Dispose: Group.Dispose whatever the group holds.  RTSP
\* subscribers and the pull session are neither closed nor dropped.
Shutdown ==
  /\ Serving
  /\ life' = "shutdown"
  /\ rtmpPub' = None
  /\ rtspPub' = None
  /\ outs' = outs \cap RtspSubs
  /\ hlsMuxer' = FALSE
  /\ isPushing' = [u \in Urls |-> FALSE]
  /\ pushSession' = [u \in Urls |-> None]
  /\ closed' = closed \cup ({rtmpPub, rtspPub} \ {None})
                 \cup (outs \ RtspSubs) \cup PushSessions
  /\ UNCHANGED <<hung, pullEnable, isPulling, pullSession, gopCache, tickCount,
                 conn, stalled, pullVars, pushVars>>

----------------------------------------------------------------------------
(* HTTP API.                                                               *)

OnCtrlStartPull ==
  /\ Serving
  /\ pullEnable' = TRUE
  /\ PullIfNeeded(TRUE, outs)
  /\ UNCHANGED <<life, hung, inputVars, outs, isPushing, pushSession, hlsMuxer,
                 gopCache, tickCount, connVars, pushVars>>

\* Any RTMP id closes the RTMP publisher, any RTSP publisher id the RTSP one;
\* only an HTTP player is looked up by the id itself.
KickOutSession(s) ==
  /\ Serving
  /\ \/ /\ s \in RtmpPubs \cup RtmpSubs
        /\ rtmpPub # None
        /\ closed' = closed \cup {rtmpPub}
     \/ /\ s \in RtspPubs
        /\ rtspPub # None
        /\ closed' = closed \cup {rtspPub}
     \/ /\ s \in HttpSubs \cap outs
        /\ closed' = closed \cup {s}
  /\ UNCHANGED <<groupVars, conn, stalled, pullVars, pushVars>>

----------------------------------------------------------------------------
(* The relay-pull goroutine of pullIfNeeded, and its session's read loop.  *)

\* The origin answers: Pull returns, unless it had timed out already.
PullStarted(p) ==
  /\ link[p] = "dial"
  /\ link' = [link EXCEPT ![p] = "play"]
  /\ pullPc' = [pullPc EXCEPT ![p] = IF @ = "pulling" THEN "ready" ELSE @]
  /\ UNCHANGED <<groupVars, connVars, pushVars>>

\* Pull returns an error: only its timeout does that.
PullFails(p) ==
  /\ pullPc[p] = "pulling"
  /\ pullPc' = [pullPc EXCEPT ![p] = "exiting"]
  /\ UNCHANGED <<groupVars, connVars, link, pushVars>>

\* Nobody refers to the session any more once its goroutine and its read loop
\* are both over.
Retired(p, pc, lk) == IF pc = "free" /\ lk = "off" THEN {p} ELSE {}

\* The read loop ends: the connection failed or was closed, or the peer broke
\* the protocol, which leaves the connection open but silent.
LinkEnds(p) ==
  /\ link[p] # "off"
  /\ link' = [link EXCEPT ![p] = "off"]
  /\ \/ /\ closed' = (closed \cup {p}) \ Retired(p, pullPc[p], "off")
        /\ stalled' = stalled \ Retired(p, pullPc[p], "off")
     \/ /\ closed' = closed \ Retired(p, pullPc[p], "off")
        /\ stalled' = (stalled \cup {p}) \ Retired(p, pullPc[p], "off")
  /\ UNCHANGED <<groupVars, conn, pullPc, pushVars>>

AddRTMPPullSession(p) ==
  /\ ~hung
  /\ pullPc[p] = "ready"
  /\ \/ /\ ~HasInSession
        /\ pullSession' = p
        /\ AddIn(FALSE)
        /\ pullPc' = [pullPc EXCEPT ![p] = "waiting"]
        /\ UNCHANGED <<closed, stalled>>
     \/ /\ HasInSession
        /\ pullPc' = [pullPc EXCEPT ![p] = "free"]
        /\ closed' = (closed \cup {p}) \ Retired(p, "free", link[p])
        /\ stalled' = stalled \ Retired(p, "free", link[p])
        /\ UNCHANGED <<pullSession, hlsMuxer, isPushing, pushVars>>
  /\ UNCHANGED <<life, hung, rtmpPub, rtspPub, outs, pullEnable, isPulling,
                 pushSession, gopCache, tickCount, conn, link>>

PullDone(p) ==
  /\ pullPc[p] = "waiting"
  /\ p \in closed
  /\ pullPc' = [pullPc EXCEPT ![p] = "exiting"]
  /\ UNCHANGED <<groupVars, connVars, link, pushVars>>

\* delRTMPPullSession does not look at which session it is given.
DelRTMPPullSession(p) ==
  /\ ~hung
  /\ pullPc[p] = "exiting"
  /\ pullPc' = [pullPc EXCEPT ![p] = "free"]
  /\ pullSession' = None
  /\ isPulling' = FALSE
  /\ DelIn
  /\ closed' = (closed \cup PushSessions) \ Retired(p, "free", link[p])
  /\ stalled' = stalled \ Retired(p, "free", link[p])
  /\ UNCHANGED <<life, hung, rtmpPub, rtspPub, outs, pullEnable, isPushing,
                 tickCount, conn, link, pushVars>>

----------------------------------------------------------------------------
(* The relay-push goroutines of pushIfNeeded.                              *)

PushReturns(g) ==
  /\ pushPc[g] = "pushing"
  /\ \E next \in {"ready", "exiting"} : pushPc' = [pushPc EXCEPT ![g] = next]
  /\ UNCHANGED <<groupVars, connVars, pullVars, pushUrl>>

\* Nothing is stored once Dispose has dropped url2PushProxy.
AddRTMPPushSession(g) ==
  /\ ~hung
  /\ pushPc[g] = "ready"
  /\ pushPc' = [pushPc EXCEPT ![g] = "waiting"]
  /\ pushSession' = IF life = "live"
                    THEN [pushSession EXCEPT ![pushUrl[g]] = g] ELSE pushSession
  /\ UNCHANGED <<life, hung, inputVars, outs, pullEnable, isPulling, isPushing,
                 hlsMuxer, gopCache, tickCount, connVars, pullVars, pushUrl>>

PushDone(g) ==
  /\ pushPc[g] = "waiting"
  /\ pushPc' = [pushPc EXCEPT ![g] = "exiting"]
  /\ UNCHANGED <<groupVars, connVars, pullVars, pushUrl>>

\* Mutant: the target stays marked as being pushed to.
DelRTMPPushSession_KeepsFlag(g) ==
  /\ ~hung
  /\ pushPc[g] = "exiting"
  /\ pushPc' = [pushPc EXCEPT ![g] = "free"]
  /\ pushUrl' = [pushUrl EXCEPT ![g] = None]
  /\ pushSession' = [pushSession EXCEPT ![pushUrl[g]] = None]
  /\ closed' = closed \ {g}
  /\ UNCHANGED <<life, hung, inputVars, outs, pullEnable, isPulling, isPushing, hlsMuxer,
                 gopCache, tickCount, conn, stalled, pullVars>>

DelRTMPPushSession(g) ==
  /\ ~hung
  /\ pushPc[g] = "exiting"
  /\ pushPc' = [pushPc EXCEPT ![g] = "free"]
  /\ pushUrl' = [pushUrl EXCEPT ![g] = None]
  /\ closed' = closed \ {g}
  /\ \/ /\ life = "live"
        /\ pushSession' = [pushSession EXCEPT ![pushUrl[g]] = None]
        /\ isPushing' = [isPushing EXCEPT ![pushUrl[g]] = FALSE]
     \/ /\ life # "live"
        /\ UNCHANGED <<pushSession, isPushing>>
  /\ UNCHANGED <<life, hung, inputVars, outs, pullEnable, isPulling, hlsMuxer,
                 gopCache, tickCount, conn, stalled, pullVars>>

----------------------------------------------------------------------------

PubNext(s) ==
  \/ s \in RtmpPubs /\ OnNewRTMPPubSession(s)
  \/ s \in RtspPubs /\ OnNewRTSPPubSession(s)
  \/ OnDelPubSession(s)
  \/ FeedPub(s)

SubNext(s) ==
  \/ s \in RtmpSubs \cup HttpSubs /\ OnNewSubSession(s)
  \/ s \in RtspSubs /\ OnRTSPDescribe(s)
  \/ s \in RtspSubs /\ OnRTSPPlay(s)
  \/ OnDelSubSession(s)

ManagerNext ==
  \/ Tick \/ TickHangs \/ Erase \/ Shutdown \/ OnCtrlStartPull
  \/ \E s \in ServerSessions : KickOutSession(s)

PullNext(p) ==
  \/ PullStarted(p) \/ PullFails(p) \/ LinkEnds(p) \/ AddRTMPPullSession(p)
  \/ PullDone(p) \/ DelRTMPPullSession(p) \/ FeedPull(p)

PushNext(g) ==
  \/ PushReturns(g) \/ AddRTMPPushSession(g) \/ PushDone(g) \/ DelRTMPPushSession(g)

Next ==
  \/ \E s \in Pubs : PubNext(s)
  \/ \E s \in Subs : SubNext(s)
  \/ \E s \in ServerSessions \cup Pulls : Stall(s)
  \/ ManagerNext
  \/ \E p \in Pulls : PullNext(p)
  \/ \E g \in Pushers : PushNext(g)

Spec == Init /\ [][Next]_vars

\* The ticker fires for ever; a goroutine blocked on a read of a closed
\* connection returns; a relay attempt returns within its timeout; a goroutine
\* that wants the mutex gets it (sync.Mutex does not starve a waiter).
Fairness ==
  /\ WF_vars(Tick \/ TickHangs \/ Erase)
  /\ \A s \in Pubs : WF_vars(s \in closed /\ OnDelPubSession(s))
  /\ \A s \in Subs : WF_vars(s \in closed /\ OnDelSubSession(s))
  /\ \A p \in Pulls :
       /\ WF_vars(PullStarted(p) \/ PullFails(p))
       /\ WF_vars(AddRTMPPullSession(p))
       /\ WF_vars(PullDone(p))
       /\ WF_vars(DelRTMPPullSession(p))
       /\ WF_vars(p \in closed /\ LinkEnds(p))
  /\ \A g \in Pushers :
       /\ WF_vars(PushReturns(g))
       /\ WF_vars(AddRTMPPushSession(g))
       /\ WF_vars(g \in closed /\ PushDone(g))
       /\ WF_vars(DelRTMPPushSession(g))

FairSpec == Spec /\ Fairness
----------------------------------------------------------------------------
(* Safety.                                                                 *)

\* A stream has at most one input: whoever wins, the other publishers and the
\* relay pull are refused (AddRTMPPubSession, AddRTSPPubSession,
\* AddRTMPPullSession), whatever the order their handlers run in.
AtMostOneInput ==
  /\ rtmpPub = None \/ rtspPub = None
  /\ pullSession = None \/ ~HasPub

\* The stream's input as one slot.
CurrentInput ==
  IF rtmpPub # None THEN rtmpPub ELSE IF rtspPub # None THEN rtspPub ELSE pullSession

\* The group implements StreamInput: addIn only ever runs on a free slot, and an
\* input is never replaced by another without being deleted first.
Slot == INSTANCE StreamInput WITH Sources <- Inputs, input <- CurrentInput
InputSlot == Slot!Spec

\* A push goroutine owns its target's proxy from start to end: while the group
\* lives, isPushing says exactly that one is running for that target, there
\* are never two, and a stored push session is that goroutine's own.
PushOwned ==
  life = "live" =>
    /\ \A u \in Urls : isPushing[u] <=> \E g \in Pushers : pushUrl[g] = u
    /\ \A g, h \in Pushers : pushUrl[g] = pushUrl[h] /\ pushUrl[g] # None => g = h
    /\ \A u \in Urls : pushSession[u] # None => pushUrl[pushSession[u]] = u

\* The tables hold no session whose goroutine has already finished with the
\* group (OnDel has run): nothing is ever written to a dead session object.
NoGhostSession ==
  /\ rtmpPub # None => conn[rtmpPub] = "accepted"
  /\ rtspPub # None => conn[rtspPub] = "accepted"
  /\ \A s \in outs : conn[s] = "up"
  /\ pullSession # None => pullPc[pullSession] \in {"waiting", "exiting"}
  /\ life = "live" => \A u \in Urls :
       pushSession[u] # None => pushPc[pushSession[u]] \in {"waiting", "exiting"}

\* A connection that was accepted and is still open is known to the group: a
\* refused rival, a kick or a timeout of another session never makes the group
\* forget it (delRTMPPubSession and delRTSPPubSession check the identity).
NoLostSession ==
  /\ \A s \in Pubs : conn[s] = "accepted" /\ s \notin closed => s \in {rtmpPub, rtspPub}
  /\ \A s \in Subs : conn[s] = "up" /\ s \notin closed => s \in outs

\* The HLS muxer lives exactly as long as an input does: addIn starts it,
\* delIn and Dispose end it.
MuxerFollowsInput == life = "live" => (hlsMuxer <=> HlsEnable /\ HasInSession)

\* addIn logs an error when it finds a muxer: no muxer outlives its input.
NoMuxerWithoutInput == hlsMuxer => HasInSession

\* Of all RTMP publishers' messages the GOP caches hold those of the current one only,
\* so a fresh subscriber never gets the headers of an earlier publisher (delIn).  An RTSP
\* publisher's come without the mutex, and may come after delIn.
CacheOfInput == life = "live" => gopCache \cap RtmpPubs \subseteq {rtmpPub}

\* A message that a read loop calls back with is broadcast only for the
\* session that is the group's input at that moment.
BroadcastOnlyInput ==
  [][\A s \in Inputs : life' = "live" /\ s \notin gopCache /\ s \in gopCache'
       => s \in {rtmpPub', rtspPub', pullSession'}]_vars

\* "After Dispose this object must not be used any more": no step of a
\* goroutine that outlived the group makes one of its sessions an input again.
NoInputAfterDispose == [][life # "live" => inputVars' = inputVars]_vars

\* Dispose releases everything the group holds: every session it knew is closed.
DisposeReleasesAll ==
  life = "shutdown" =>
    /\ outs \subseteq closed
    /\ pullSession # None => pullSession \in closed

----------------------------------------------------------------------------
(* Liveness, under Fairness.                                               *)

\* A publisher whose bytes stopped moving frees the stream for the next one.
StalledPubReleased ==
  \A s \in Pubs : s \in stalled \cap {rtmpPub, rtspPub} ~> s \notin {rtmpPub, rtspPub}

\* A subscriber to which no byte can be written any more is dropped.
StalledSubReleased ==
  \A s \in Subs : s \in stalled \cap outs ~> s \notin outs \/ life # "live"

\* Once every session and goroutine is gone the manager erases the group,
\* unless somebody comes back first.
Quiet ==
  /\ \A s \in ServerSessions : conn[s] = "idle"
  /\ \A p \in Pulls : pullPc[p] = "free"
  /\ \A g \in Pushers : pushPc[g] = "free"
QuietErased == Quiet /\ life = "live" ~> life # "live" \/ ~Quiet

\* A push target that lost its session is tried again while a publisher is in.
PushRetried ==
  \A u \in Urls : HasPub ~> isPushing[u] \/ ~HasPub

\* The relay pull stops once nobody watches.
UnwatchedPullStops ==
  pullSession # None /\ outs = {} ~> pullSession = None \/ outs # {} \/ life # "live"

\* While somebody watches a stream without input, a relay pull is tried.
WatchedStreamPulled ==
  pullEnable /\ outs # {} /\ ~HasInSession
    ~> \/ \E p \in Pulls : pullPc[p] \in {"pulling", "ready", "waiting"}
       \/ outs = {} \/ HasInSession \/ life # "live"
=============================================================================
