---------------------------- MODULE GroupProofs ----------------------------
(* Proofs about Group, for every value of its constants.                   *)
EXTENDS Group, TLAPS

----------------------------------------------------------------------------
(* Type correctness.                                                       *)

\* pullIfNeeded keeps the types of the variables it sets.
LEMMA PullIfNeededType ==
  ASSUME TypeOK, NEW enable, NEW subs, PullIfNeeded(enable, subs)
  PROVE  /\ isPulling' \in BOOLEAN
         /\ pullPc' \in [Pulls -> {"free", "pulling", "ready", "waiting", "exiting"}]
         /\ link' \in [Pulls -> {"off", "dial", "play"}]
BY DEF TypeOK, PullIfNeeded, FreePulls

\* pushIfNeeded keeps the types of the variables it sets.
LEMMA PushIfNeededType ==
  ASSUME TypeOK, NEW hasPub \in BOOLEAN, PushIfNeeded(hasPub)
  PROVE  /\ isPushing' \in [Urls -> BOOLEAN]
         /\ pushPc' \in [Pushers -> {"free", "pushing", "ready", "waiting", "exiting"}]
         /\ pushUrl' \in [Pushers -> Urls \cup {None}]
<1> DEFINE targets == PushTargets(hasPub)
<1>1. PICK worker \in [targets -> FreePushers] :
        /\ isPushing' = [u \in Urls |-> isPushing[u] \/ u \in targets]
        /\ pushPc' = [g \in Pushers |->
             IF \E u \in targets : worker[u] = g THEN "pushing" ELSE pushPc[g]]
        /\ pushUrl' = [g \in Pushers |->
             IF \E u \in targets : worker[u] = g
             THEN CHOOSE u \in targets : worker[u] = g ELSE pushUrl[g]]
  BY DEF PushIfNeeded
<1>2. targets \subseteq Urls
  BY DEF PushTargets
<1>3. isPushing' \in [Urls -> BOOLEAN]
  BY <1>1, Zenon DEF TypeOK
<1>4. pushPc' \in [Pushers -> {"free", "pushing", "ready", "waiting", "exiting"}]
  BY <1>1 DEF TypeOK
<1>5. ASSUME NEW g \in Pushers
      PROVE  (IF \E u \in targets : worker[u] = g
              THEN CHOOSE u \in targets : worker[u] = g ELSE pushUrl[g]) \in Urls \cup {None}
  BY <1>2 DEF TypeOK
<1>6. pushUrl' \in [Pushers -> Urls \cup {None}]
  BY <1>1, <1>5, Zenon
<1>7. QED
  BY <1>3, <1>4, <1>6

\* HasPub is a truth value whatever the state.
LEMMA HasPubBoolean == HasPub \in BOOLEAN /\ TRUE \in BOOLEAN /\ FALSE \in BOOLEAN
BY DEF HasPub

LEMMA InitType == Init => TypeOK
<1> SUFFICES ASSUME Init PROVE TypeOK
  OBVIOUS
<1>1. tickCount \in 0 .. CheckInterval - 1
  BY ConstantsOK DEF Init, ConstantsOK
<1>2. isPushing \in [Urls -> BOOLEAN]
  BY Zenon DEF Init
<1>3. pullEnable \in BOOLEAN
  BY ConstantsOK DEF Init, ConstantsOK
<1>4. QED
  BY <1>1, <1>2, <1>3 DEF Init, TypeOK

LEMMA PubType == ASSUME TypeOK, NEW s \in Pubs, PubNext(s) PROVE TypeOK'
<1> USE DEF TypeOK, connVars, pullVars, pushVars, groupVars, inputVars,
            Pubs, ServerSessions, Inputs
<1>1. CASE RefusePub(s)
  BY <1>1 DEF RefusePub
<1>2. ASSUME s \in RtmpPubs, AcceptPub(s), rtmpPub' = s, UNCHANGED <<rtspPub, gopCache>>
      PROVE  TypeOK'
  <2>1. PushIfNeeded(TRUE)
    BY <1>2 DEF AcceptPub, AddIn
  <2>2. QED
    BY <1>2, <2>1, PushIfNeededType, ConstantsOK DEF ConstantsOK, AcceptPub, AddIn
<1>3. ASSUME s \in RtspPubs, AcceptPub(s), rtspPub' = s, UNCHANGED rtmpPub,
             gopCache' \in {gopCache, gopCache \cup {s}}
      PROVE  TypeOK'
  <2>1. PushIfNeeded(TRUE)
    BY <1>3 DEF AcceptPub, AddIn
  <2>2. QED
    BY <1>3, <2>1, PushIfNeededType, ConstantsOK DEF ConstantsOK, AcceptPub, AddIn
<1>4. CASE OnDelPubSession(s)
  BY <1>4 DEF OnDelPubSession, PubGone, DelPub, DelIn, PushSessions
<1>5. CASE FeedPub(s)
  BY <1>5 DEF FeedPub
<1>6. QED
  BY <1>1, <1>2, <1>3, <1>4, <1>5
     DEF PubNext, OnNewRTMPPubSession, OnNewRTSPPubSession

LEMMA SubType == ASSUME TypeOK, NEW s \in Subs, SubNext(s) PROVE TypeOK'
<1> USE DEF TypeOK, connVars, pullVars, pushVars, groupVars, inputVars,
            Subs, ServerSessions, Inputs
<1>1. CASE OnNewSubSession(s)
  <2>1. PullIfNeeded(pullEnable, outs')
    BY <1>1 DEF OnNewSubSession
  <2>2. QED
    BY <1>1, <2>1, PullIfNeededType DEF OnNewSubSession
<1>2. CASE OnRTSPDescribe(s)
  BY <1>2 DEF OnRTSPDescribe
<1>3. CASE OnRTSPPlay(s)
  BY <1>3 DEF OnRTSPPlay
<1>4. CASE OnDelSubSession(s)
  BY <1>4 DEF OnDelSubSession
<1>5. QED
  BY <1>1, <1>2, <1>3, <1>4 DEF SubNext

LEMMA TickBodyType ==
  ASSUME TypeOK, NEW dropped \in SUBSET outs, NEW kicked \in SUBSET outs,
         TickBody(dropped, kicked), hung' \in BOOLEAN,
         tickCount' \in 0 .. CheckInterval - 1
  PROVE  TypeOK'
<1>1. PushIfNeeded(HasPub)
  BY DEF TickBody
<1>2. /\ isPushing' \in [Urls -> BOOLEAN]
      /\ pushPc' \in [Pushers -> {"free", "pushing", "ready", "waiting", "exiting"}]
      /\ pushUrl' \in [Pushers -> Urls \cup {None}]
  BY <1>1, HasPubBoolean, PushIfNeededType
<1>3. /\ isPulling' \in BOOLEAN
      /\ pullSession' \in Pulls \cup {None}
      /\ pullPc' \in [Pulls -> {"free", "pulling", "ready", "waiting", "exiting"}]
      /\ link' \in [Pulls -> {"off", "dial", "play"}]
      /\ hlsMuxer' \in BOOLEAN
      /\ pushSession' \in [Urls -> Pushers \cup {None}]
      /\ gopCache' \subseteq Inputs
  <2>1. CASE pullSession \in Overdue
    BY <2>1 DEF TickBody, DelIn, TypeOK
  <2>2. CASE pullSession \notin Overdue
    <3>1. /\ PullIfNeeded(pullEnable, outs)
          /\ UNCHANGED <<pullSession, hlsMuxer, pushSession, gopCache>>
      BY <2>2 DEF TickBody
    <3>2. QED
      BY <3>1, PullIfNeededType DEF TypeOK
  <2>3. QED
    BY <2>1, <2>2
<1>4. closed' \subseteq ServerSessions \cup Pulls \cup Pushers
  <2>1. IdlePull \subseteq Pulls
    BY DEF IdlePull, TypeOK
  <2>2. Overdue \subseteq ServerSessions \cup Pulls
    BY DEF Overdue, TypeOK
  <2>3. PushSessions \subseteq Pushers
    BY DEF PushSessions, TypeOK
  <2>4. outs \subseteq ServerSessions
    BY DEF TypeOK, ServerSessions
  <2>5. QED
    BY <2>1, <2>2, <2>3, <2>4 DEF TickBody, TypeOK
<1>5. /\ rtspPub' \in RtspPubs \cup {None}
      /\ outs' \subseteq Subs
      /\ UNCHANGED <<life, rtmpPub, pullEnable, conn, stalled>>
  BY DEF TickBody, TypeOK
<1>6. QED
  BY <1>2, <1>3, <1>4, <1>5 DEF TypeOK

LEMMA TickType == TypeOK /\ (Tick \/ TickHangs) => TypeOK'
<1>1. ASSUME TypeOK, Tick PROVE TypeOK'
  <2>1. tickCount' \in 0 .. CheckInterval - 1
    BY <1>1, ConstantsOK DEF Tick, ConstantsOK, TypeOK
  <2>2. /\ TickBody(Overdue \cap outs, {})
        /\ hung' \in BOOLEAN
    BY <1>1 DEF Tick, TypeOK
  <2>3. QED
    BY <1>1, <2>1, <2>2, TickBodyType
<1>2. ASSUME TypeOK, TickHangs PROVE TypeOK'
  <2>1. PICK s \in outs : /\ TickBody((Overdue \cap outs) \ RtspSubs, {s})
                          /\ hung' = TRUE
                          /\ UNCHANGED tickCount
    BY <1>2 DEF TickHangs
  <2>2. tickCount' \in 0 .. CheckInterval - 1
    BY <1>2, <2>1 DEF TypeOK
  <2>3. QED
    BY <1>2, <2>1, <2>2, TickBodyType
<1>3. QED
  BY <1>1, <1>2

LEMMA ManagerType == TypeOK /\ ManagerNext => TypeOK'
<1> SUFFICES ASSUME TypeOK, ManagerNext PROVE TypeOK'
  OBVIOUS
<1> USE DEF TypeOK, connVars, pullVars, pushVars, groupVars, inputVars,
            Pubs, Subs, ServerSessions, Inputs
<1>1. CASE Tick \/ TickHangs
  BY <1>1, TickType
<1>2. CASE Erase
  BY <1>2 DEF Erase
<1>3. CASE Shutdown
  <2>1. isPushing' \in [Urls -> BOOLEAN]
    BY <1>3, Zenon DEF Shutdown
  <2>2. closed' \subseteq ServerSessions \cup Pulls \cup Pushers
    BY <1>3 DEF Shutdown, PushSessions
  <2>3. QED
    BY <1>3, <2>1, <2>2 DEF Shutdown
<1>4. CASE OnCtrlStartPull
  <2>1. PullIfNeeded(TRUE, outs)
    BY <1>4 DEF OnCtrlStartPull
  <2>2. QED
    BY <1>4, <2>1, PullIfNeededType DEF OnCtrlStartPull
<1>5. ASSUME NEW s \in ServerSessions, KickOutSession(s) PROVE TypeOK'
  BY <1>5 DEF KickOutSession
<1>6. QED
  BY <1>1, <1>2, <1>3, <1>4, <1>5 DEF ManagerNext

LEMMA PullType == ASSUME TypeOK, NEW p \in Pulls, PullNext(p) PROVE TypeOK'
<1> USE DEF TypeOK, connVars, pullVars, pushVars, groupVars, inputVars, Inputs, Retired
<1>1. CASE PullStarted(p)
  BY <1>1 DEF PullStarted
<1>2. CASE PullFails(p)
  BY <1>2 DEF PullFails
<1>3. CASE LinkEnds(p)
  BY <1>3 DEF LinkEnds
<1>4. CASE AddRTMPPullSession(p)
  <2>1. CASE ~HasInSession
    <3>1. PushIfNeeded(FALSE)
      BY <1>4, <2>1 DEF AddRTMPPullSession, AddIn
    <3>2. QED
      BY <1>4, <2>1, <3>1, PushIfNeededType, ConstantsOK
         DEF AddRTMPPullSession, AddIn, ConstantsOK
  <2>2. CASE HasInSession
    BY <1>4, <2>2 DEF AddRTMPPullSession
  <2>3. QED
    BY <2>1, <2>2
<1>5. CASE PullDone(p)
  BY <1>5 DEF PullDone
<1>6. CASE DelRTMPPullSession(p)
  <2>1. closed' \subseteq ServerSessions \cup Pulls \cup Pushers
    BY <1>6 DEF DelRTMPPullSession, PushSessions
  <2>2. hlsMuxer' \in BOOLEAN
    BY <1>6 DEF DelRTMPPullSession, DelIn
  <2>3. QED
    BY <1>6, <2>1, <2>2 DEF DelRTMPPullSession, DelIn
<1>7. CASE FeedPull(p)
  BY <1>7 DEF FeedPull
<1>8. QED
  BY <1>1, <1>2, <1>3, <1>4, <1>5, <1>6, <1>7 DEF PullNext

LEMMA PushType == ASSUME TypeOK, NEW g \in Pushers, PushNext(g) PROVE TypeOK'
<1> USE DEF TypeOK, connVars, pullVars, groupVars, inputVars
<1>1. CASE PushReturns(g)
  BY <1>1 DEF PushReturns
<1>2. CASE AddRTMPPushSession(g)
  BY <1>2 DEF AddRTMPPushSession
<1>3. CASE PushDone(g)
  BY <1>3 DEF PushDone
<1>4. CASE DelRTMPPushSession(g)
  BY <1>4 DEF DelRTMPPushSession
<1>5. QED
  BY <1>1, <1>2, <1>3, <1>4 DEF PushNext

LEMMA StallType ==
  ASSUME TypeOK, NEW s \in ServerSessions \cup Pulls, Stall(s) PROVE TypeOK'
BY DEF TypeOK, Stall, connVars, pullVars, pushVars, groupVars

LEMMA StutterType == TypeOK /\ UNCHANGED vars => TypeOK'
BY DEF TypeOK, vars, connVars, pullVars, pushVars, groupVars

\* Every variable keeps its type, whatever the sessions and goroutines do.
THEOREM TypeCorrect == Spec => []TypeOK
<1>1. TypeOK /\ [Next]_vars => TypeOK'
  BY PubType, SubType, StallType, ManagerType, PullType, PushType, StutterType DEF Next
<1>2. QED
  BY InitType, <1>1, PTL DEF Spec

----------------------------------------------------------------------------
(* The input slot.                                                         *)

\* A step installs s as the only input of a group that had none.
Installs(s) ==
  /\ ~HasInSession
  /\ s # None
  /\ \/ rtmpPub' = s /\ UNCHANGED <<rtspPub, pullSession>>
     \/ rtspPub' = s /\ UNCHANGED <<rtmpPub, pullSession>>
     \/ pullSession' = s /\ UNCHANGED <<rtmpPub, rtspPub>>

\* A step removes some inputs, or none, and installs nothing.
OnlyRemoves ==
  /\ rtmpPub' \in {rtmpPub, None}
  /\ rtspPub' \in {rtspPub, None}
  /\ pullSession' \in {pullSession, None}

\* Those are the only two things a step ever does to the input.
LEMMA InputStep ==
  ASSUME [Next]_vars
  PROVE  OnlyRemoves \/ \E s \in Inputs : Installs(s)
<1> USE DEF OnlyRemoves, groupVars, inputVars, connVars, pullVars, pushVars
<1>1. CASE UNCHANGED vars
  BY <1>1 DEF vars
<1>2. ASSUME NEW s \in Pubs, PubNext(s)
      PROVE  OnlyRemoves \/ \E t \in Inputs : Installs(t)
  <2>1. s \in Inputs /\ s # None
    BY KindsDisjoint DEF KindsDisjoint, Inputs, ServerSessions
  <2>2. CASE RefusePub(s)
    BY <2>2 DEF RefusePub
  <2>3. CASE AcceptPub(s) /\ rtmpPub' = s /\ UNCHANGED <<rtspPub, gopCache>>
    BY <2>1, <2>3 DEF AcceptPub, Installs
  <2>4. CASE AcceptPub(s) /\ rtspPub' = s /\ UNCHANGED rtmpPub
    BY <2>1, <2>4 DEF AcceptPub, Installs
  <2>5. CASE OnDelPubSession(s)
    BY <2>5 DEF OnDelPubSession, DelPub
  <2>6. CASE FeedPub(s)
    BY <2>6 DEF FeedPub
  <2>7. QED
    BY <1>2, <2>2, <2>3, <2>4, <2>5, <2>6
       DEF PubNext, OnNewRTMPPubSession, OnNewRTSPPubSession
<1>3. ASSUME NEW s \in Subs, SubNext(s) PROVE OnlyRemoves
  BY <1>3 DEF SubNext, OnNewSubSession, OnRTSPDescribe, OnRTSPPlay, OnDelSubSession
<1>4. ASSUME NEW s \in ServerSessions \cup Pulls, Stall(s) PROVE OnlyRemoves
  BY <1>4 DEF Stall
<1>5. CASE ManagerNext
  BY <1>5 DEF ManagerNext, Tick, TickHangs, TickBody, Erase, Shutdown,
              OnCtrlStartPull, KickOutSession
<1>6. ASSUME NEW p \in Pulls, PullNext(p)
      PROVE  OnlyRemoves \/ \E t \in Inputs : Installs(t)
  <2>1. p \in Inputs /\ p # None
    BY KindsDisjoint DEF KindsDisjoint, Inputs
  <2>2. CASE AddRTMPPullSession(p)
    BY <2>1, <2>2 DEF AddRTMPPullSession, Installs
  <2>3. CASE DelRTMPPullSession(p)
    BY <2>3 DEF DelRTMPPullSession
  <2>4. CASE PullStarted(p) \/ PullFails(p) \/ LinkEnds(p) \/ PullDone(p) \/ FeedPull(p)
    BY <2>4 DEF PullStarted, PullFails, LinkEnds, PullDone, FeedPull
  <2>5. QED
    BY <1>6, <2>2, <2>3, <2>4 DEF PullNext
<1>7. ASSUME NEW g \in Pushers, PushNext(g) PROVE OnlyRemoves
  BY <1>7 DEF PushNext, PushReturns, AddRTMPPushSession, PushDone, DelRTMPPushSession
<1>8. QED
  BY <1>1, <1>2, <1>3, <1>4, <1>5, <1>6, <1>7 DEF Next

LEMMA AtMostOneInputStep == AtMostOneInput /\ [Next]_vars => AtMostOneInput'
<1> SUFFICES ASSUME AtMostOneInput, [Next]_vars PROVE AtMostOneInput'
  OBVIOUS
<1>1. CASE OnlyRemoves
  BY <1>1 DEF OnlyRemoves, AtMostOneInput, HasPub
<1>2. ASSUME NEW s \in Inputs, Installs(s) PROVE AtMostOneInput'
  BY <1>2 DEF Installs, HasInSession, AtMostOneInput, HasPub
<1>3. QED
  BY <1>1, <1>2, InputStep

\* At every moment a stream has at most one input, however publishers, pulls,
\* timeouts and disposal interleave.
THEOREM OneInput == Spec => []AtMostOneInput
<1>1. Init => AtMostOneInput
  BY DEF Init, AtMostOneInput, HasPub
<1>2. QED
  BY <1>1, AtMostOneInputStep, PTL DEF Spec

\* The group implements the abstract slot: an input never replaces another.
THEOREM ImplementsInputSlot == Spec => InputSlot
<1>1. Init => Slot!Init
  BY DEF Init, Slot!Init, CurrentInput
<1>2. AtMostOneInput /\ [Next]_vars => [Slot!Next]_CurrentInput
  <2> SUFFICES ASSUME AtMostOneInput, [Next]_vars
               PROVE  Slot!Next \/ UNCHANGED CurrentInput
    OBVIOUS
  <2>1. CASE OnlyRemoves
    <3>1. CurrentInput' \in {CurrentInput, None}
      BY <2>1 DEF OnlyRemoves, AtMostOneInput, HasPub, CurrentInput
    <3>2. CASE CurrentInput' = None /\ CurrentInput # None
      BY <3>2 DEF Slot!Next, Slot!Leave
    <3>3. QED
      BY <3>1, <3>2
  <2>2. ASSUME NEW s \in Inputs, Installs(s)
        PROVE  Slot!Next
    <3>1. CurrentInput = None /\ CurrentInput' = s
      BY <2>2 DEF Installs, HasInSession, HasPub, CurrentInput
    <3>2. QED
      BY <3>1 DEF Slot!Next, Slot!Take
  <2>3. QED
    BY <2>1, <2>2, InputStep
<1>3. QED
  BY <1>1, <1>2, OneInput, PTL DEF Spec, InputSlot, Slot!Spec

----------------------------------------------------------------------------
(* No accepted connection is forgotten.                                    *)

\* A step that leaves the connections, the closed set (it may only grow on
\* server sessions) and the tables alone cannot lose a session.
LEMMA NoLostFrame ==
  ASSUME NoLostSession, UNCHANGED <<conn, rtmpPub, rtspPub, outs>>,
         \A s \in ServerSessions : s \in closed => s \in closed'
  PROVE  NoLostSession'
BY DEF NoLostSession, ServerSessions

LEMMA NoLostStep == TypeOK /\ NoLostSession /\ [Next]_vars => NoLostSession'
<1> SUFFICES ASSUME TypeOK, NoLostSession, [Next]_vars PROVE NoLostSession'
  OBVIOUS
<1> USE DEF groupVars, inputVars, connVars, pullVars, pushVars
<1>0. /\ conn \in [ServerSessions ->
                {"idle", "accepted", "refused", "described", "up"}]
      /\ Pubs \subseteq ServerSessions /\ Subs \subseteq ServerSessions
      /\ Pubs \cap Subs = {}
      /\ \A s \in ServerSessions : s # None /\ s \notin Pulls /\ s \notin Pushers
  BY KindsDisjoint DEF KindsDisjoint, TypeOK, ServerSessions
<1>1. CASE UNCHANGED vars
  BY <1>1, NoLostFrame DEF vars
<1>2. ASSUME NEW s \in Pubs, PubNext(s) PROVE NoLostSession'
  <2>1. CASE RefusePub(s)
    BY <1>0, <2>1 DEF RefusePub, NoLostSession
  <2>2. CASE AcceptPub(s) /\ rtmpPub' = s /\ UNCHANGED rtspPub
    BY <1>0, <2>2 DEF AcceptPub, HasInSession, HasPub, NoLostSession
  <2>3. CASE AcceptPub(s) /\ rtspPub' = s /\ UNCHANGED rtmpPub
    BY <1>0, <2>3 DEF AcceptPub, HasInSession, HasPub, NoLostSession
  <2>4. CASE OnDelPubSession(s)
    <3>1. conn' = [conn EXCEPT ![s] = "idle"] /\ outs' = outs
      BY <2>4 DEF OnDelPubSession, PubGone
    <3>2. \A t \in ServerSessions : t \in closed /\ t # s => t \in closed'
      BY <2>4 DEF OnDelPubSession, DelPub
    <3>3. /\ rtmpPub' = rtmpPub \/ rtmpPub = s
          /\ rtspPub' = rtspPub \/ rtspPub = s
      BY <2>4 DEF OnDelPubSession, DelPub
    <3>4. QED
      BY <1>0, <3>1, <3>2, <3>3 DEF NoLostSession
  <2>5. CASE FeedPub(s)
    BY <2>5, NoLostFrame DEF FeedPub
  <2>6. QED
    BY <1>2, <2>1, <2>2, <2>3, <2>4, <2>5
       DEF PubNext, OnNewRTMPPubSession, OnNewRTSPPubSession
<1>3. ASSUME NEW s \in Subs, SubNext(s) PROVE NoLostSession'
  <2>1. CASE OnNewSubSession(s)
    BY <1>0, <2>1 DEF OnNewSubSession, NoLostSession
  <2>2. CASE OnRTSPDescribe(s)
    BY <1>0, <2>2 DEF OnRTSPDescribe, NoLostSession
  <2>3. CASE OnRTSPPlay(s)
    BY <1>0, <2>3 DEF OnRTSPPlay, NoLostSession
  <2>4. CASE OnDelSubSession(s)
    BY <1>0, <2>4 DEF OnDelSubSession, NoLostSession
  <2>5. QED
    BY <1>3, <2>1, <2>2, <2>3, <2>4 DEF SubNext
<1>4. ASSUME NEW s \in ServerSessions \cup Pulls, Stall(s) PROVE NoLostSession'
  BY <1>4, NoLostFrame DEF Stall
<1>5. CASE ManagerNext
  <2>1. ASSUME NEW dropped, NEW kicked, TickBody(dropped, kicked) PROVE NoLostSession'
    <3>1. /\ conn' = conn /\ rtmpPub' = rtmpPub /\ outs' = outs \ dropped
          /\ closed \subseteq closed' /\ dropped \subseteq closed'
          /\ rtspPub' = IF rtspPub \in Overdue THEN None ELSE rtspPub
          /\ rtspPub \in Overdue => rtspPub \in closed'
      BY <2>1 DEF TickBody
    <3>2. QED
      BY <1>0, <3>1 DEF NoLostSession
  <2>2. CASE Tick \/ TickHangs
    BY <2>1, <2>2 DEF Tick, TickHangs
  <2>3. CASE Erase
    BY <2>3, NoLostFrame DEF Erase
  <2>4. CASE Shutdown
    BY <1>0, <2>4 DEF Shutdown, NoLostSession
  <2>5. CASE OnCtrlStartPull
    BY <2>5, NoLostFrame DEF OnCtrlStartPull
  <2>6. ASSUME NEW s \in ServerSessions, KickOutSession(s) PROVE NoLostSession'
    BY <2>6, NoLostFrame DEF KickOutSession
  <2>7. QED
    BY <1>5, <2>2, <2>3, <2>4, <2>5, <2>6 DEF ManagerNext
<1>6. ASSUME NEW p \in Pulls, PullNext(p) PROVE NoLostSession'
  <2>1. UNCHANGED <<conn, rtmpPub, rtspPub, outs>>
    BY <1>6 DEF PullNext, PullStarted, PullFails, LinkEnds, AddRTMPPullSession,
                PullDone, DelRTMPPullSession, FeedPull
  <2>2. \A s \in ServerSessions : s \in closed => s \in closed'
    BY <1>0, <1>6 DEF PullNext, PullStarted, PullFails, LinkEnds, AddRTMPPullSession,
                      PullDone, DelRTMPPullSession, FeedPull, Retired
  <2>3. QED
    BY <2>1, <2>2, NoLostFrame
<1>7. ASSUME NEW g \in Pushers, PushNext(g) PROVE NoLostSession'
  <2>1. /\ UNCHANGED <<conn, rtmpPub, rtspPub, outs>>
        /\ \A s \in ServerSessions : s \in closed => s \in closed'
    BY <1>0, <1>7 DEF PushNext, PushReturns, AddRTMPPushSession, PushDone,
                      DelRTMPPushSession
  <2>2. QED
    BY <2>1, NoLostFrame
<1>8. QED
  BY <1>1, <1>2, <1>3, <1>4, <1>5, <1>6, <1>7 DEF Next

\* An accepted connection that is still open is in the group's tables.
THEOREM NothingLost == Spec => []NoLostSession
<1>1. Init => NoLostSession
  BY DEF Init, NoLostSession, ServerSessions
<1>2. QED
  BY <1>1, NoLostStep, TypeCorrect, PTL DEF Spec

----------------------------------------------------------------------------
(* Relay push: one goroutine per target.                                   *)

\* The inductive form of PushOwned and of the push part of NoGhostSession: a
\* goroutine has a target exactly while it runs, and a stored session belongs
\* to the goroutine of that target, which has got past AddRTMPPushSession.
PushInv ==
  /\ \A g \in Pushers : pushUrl[g] = None <=> pushPc[g] = "free"
  /\ life = "live" =>
       /\ \A u \in Urls : isPushing[u] <=> \E g \in Pushers : pushUrl[g] = u
       /\ \A g, h \in Pushers : pushUrl[g] = pushUrl[h] /\ pushUrl[g] # None => g = h
       /\ \A u \in Urls : pushSession[u] # None =>
            /\ pushUrl[pushSession[u]] = u
            /\ pushPc[pushSession[u]] \in {"waiting", "exiting"}

\* A step that leaves the push variables alone, or only drops sessions.
LEMMA PushFrame ==
  ASSUME PushInv, life' = life, UNCHANGED <<isPushing, pushPc, pushUrl>>,
         \A u \in Urls : pushSession'[u] \in {pushSession[u], None}
  PROVE  PushInv'
BY DEF PushInv

\* pushIfNeeded keeps it: the new goroutines come from the free ones, one for
\* each target that had none.
LEMMA PushIfNeededInv ==
  ASSUME TypeOK, PushInv, NEW hasPub \in BOOLEAN, PushIfNeeded(hasPub), life' = life,
         \A u \in Urls : pushSession'[u] \in {pushSession[u], None}
  PROVE  PushInv'
<1> DEFINE targets == PushTargets(hasPub)
<1>1. PICK worker \in [targets -> FreePushers] :
        /\ \A u, v \in targets : worker[u] = worker[v] => u = v
        /\ isPushing' = [u \in Urls |-> isPushing[u] \/ u \in targets]
        /\ pushPc' = [g \in Pushers |->
             IF \E u \in targets : worker[u] = g THEN "pushing" ELSE pushPc[g]]
        /\ pushUrl' = [g \in Pushers |->
             IF \E u \in targets : worker[u] = g
             THEN CHOOSE u \in targets : worker[u] = g ELSE pushUrl[g]]
  BY DEF PushIfNeeded
<1>2. /\ targets \subseteq Urls
      /\ \A u \in targets : ~isPushing[u] /\ u # None
  BY KindsDisjoint DEF PushTargets, KindsDisjoint
<1>3. /\ \A u \in targets : worker[u] \in Pushers /\ pushUrl[worker[u]] = None
      /\ \A u \in targets : pushPc[worker[u]] = "free"
  BY <1>1 DEF FreePushers, PushInv
<1>4. \A u \in targets : pushUrl'[worker[u]] = u /\ pushPc'[worker[u]] = "pushing"
  BY <1>1, <1>2, <1>3
<1>5. \A g \in Pushers : (\A u \in targets : worker[u] # g)
        => pushUrl'[g] = pushUrl[g] /\ pushPc'[g] = pushPc[g]
  BY <1>1
<1>6. \A g \in Pushers : pushUrl'[g] = None <=> pushPc'[g] = "free"
  BY <1>2, <1>4, <1>5 DEF PushInv
<1>7. ASSUME life = "live"
      PROVE  \A u \in Urls : isPushing'[u] <=> \E g \in Pushers : pushUrl'[g] = u
  <2> TAKE u \in Urls
  <2>1. isPushing'[u] <=> isPushing[u] \/ u \in targets
    BY <1>1
  <2>2. CASE u \in targets
    BY <1>3, <1>4, <2>1, <2>2
  <2>3. CASE u \notin targets
    <3>1. ASSUME NEW g \in Pushers, pushUrl[g] = u PROVE pushUrl'[g] = u
      BY <1>3, <1>5, <3>1, KindsDisjoint DEF KindsDisjoint
    <3>2. ASSUME NEW g \in Pushers, pushUrl'[g] = u PROVE pushUrl[g] = u
      BY <1>4, <1>5, <2>3, <3>2
    <3>3. QED
      BY <1>7, <2>1, <2>3, <3>1, <3>2 DEF PushInv
  <2>4. QED
    BY <2>2, <2>3
<1>8. ASSUME life = "live", NEW g \in Pushers, NEW h \in Pushers,
             pushUrl'[g] = pushUrl'[h], pushUrl'[g] # None
      PROVE  g = h
  <2>1. \A k \in Pushers, u \in targets : pushUrl[k] # u
    BY <1>2, <1>8 DEF PushInv
  <2>2. CASE \E u \in targets : worker[u] = g
    BY <1>1, <1>4, <1>5, <1>8, <2>1, <2>2
  <2>3. CASE \A u \in targets : worker[u] # g
    BY <1>4, <1>5, <1>8, <2>1, <2>3 DEF PushInv
  <2>4. QED
    BY <2>2, <2>3
<1>9. ASSUME life = "live", NEW u \in Urls, pushSession'[u] # None
      PROVE  /\ pushUrl'[pushSession'[u]] = u
             /\ pushPc'[pushSession'[u]] \in {"waiting", "exiting"}
  <2>1. /\ pushSession'[u] = pushSession[u] /\ pushSession[u] \in Pushers
        /\ pushUrl[pushSession[u]] = u
        /\ pushPc[pushSession[u]] \in {"waiting", "exiting"}
    BY <1>9 DEF PushInv, TypeOK
  <2>2. \A v \in targets : worker[v] # pushSession[u]
    BY <1>3, <2>1
  <2>3. QED
    BY <1>5, <2>1, <2>2
<1>10. QED
  BY <1>6, <1>7, <1>8, <1>9 DEF PushInv

LEMMA PushInvStep == TypeOK /\ PushInv /\ [Next]_vars => PushInv'
<1> SUFFICES ASSUME TypeOK, PushInv, [Next]_vars PROVE PushInv'
  OBVIOUS
<1> USE DEF groupVars, inputVars, connVars, pullVars, pushVars
<1>1. CASE UNCHANGED vars
  BY <1>1, PushFrame DEF vars
<1>2. ASSUME NEW s \in Pubs, PubNext(s) PROVE PushInv'
  <2>1. CASE RefusePub(s)
    BY <2>1, PushFrame DEF RefusePub
  <2>2. CASE AcceptPub(s)
    <3>1. PushIfNeeded(TRUE) /\ UNCHANGED <<life, pushSession>>
      BY <2>2 DEF AcceptPub, AddIn
    <3>2. QED
      BY <3>1, PushIfNeededInv
  <2>3. CASE OnDelPubSession(s)
    <3>1. /\ UNCHANGED <<life, isPushing, pushPc, pushUrl>>
          /\ \A u \in Urls : pushSession'[u] \in {pushSession[u], None}
      BY <2>3 DEF OnDelPubSession, DelPub, DelIn
    <3>2. QED
      BY <3>1, PushFrame
  <2>4. CASE FeedPub(s)
    BY <2>4, PushFrame DEF FeedPub
  <2>5. QED
    BY <1>2, <2>1, <2>2, <2>3, <2>4
       DEF PubNext, OnNewRTMPPubSession, OnNewRTSPPubSession
<1>3. ASSUME NEW s \in Subs, SubNext(s) PROVE PushInv'
  <2>1. UNCHANGED <<life, isPushing, pushSession, pushPc, pushUrl>>
    BY <1>3 DEF SubNext, OnNewSubSession, OnRTSPDescribe, OnRTSPPlay, OnDelSubSession
  <2>2. QED
    BY <2>1, PushFrame
<1>4. ASSUME NEW s \in ServerSessions \cup Pulls, Stall(s) PROVE PushInv'
  BY <1>4, PushFrame DEF Stall
<1>5. CASE ManagerNext
  <2>1. ASSUME NEW dropped, NEW kicked, TickBody(dropped, kicked) PROVE PushInv'
    <3>1. PushIfNeeded(HasPub) /\ life' = life
      BY <2>1 DEF TickBody
    <3>2. \A u \in Urls : pushSession'[u] \in {pushSession[u], None}
      BY <2>1 DEF TickBody, DelIn
    <3>3. QED
      BY <3>1, <3>2, HasPubBoolean, PushIfNeededInv
  <2>2. CASE Tick \/ TickHangs
    BY <2>1, <2>2 DEF Tick, TickHangs
  <2>3. CASE Erase
    BY <2>3 DEF Erase, PushInv
  <2>4. CASE Shutdown
    BY <2>4 DEF Shutdown, PushInv
  <2>5. CASE OnCtrlStartPull
    BY <2>5, PushFrame DEF OnCtrlStartPull
  <2>6. ASSUME NEW s \in ServerSessions, KickOutSession(s) PROVE PushInv'
    BY <2>6, PushFrame DEF KickOutSession
  <2>7. QED
    BY <1>5, <2>2, <2>3, <2>4, <2>5, <2>6 DEF ManagerNext
<1>6. ASSUME NEW p \in Pulls, PullNext(p) PROVE PushInv'
  <2>1. CASE AddRTMPPullSession(p) /\ ~HasInSession
    <3>1. PushIfNeeded(FALSE) /\ UNCHANGED <<life, pushSession>>
      BY <2>1 DEF AddRTMPPullSession, AddIn
    <3>2. QED
      BY <3>1, PushIfNeededInv
  <2>2. CASE AddRTMPPullSession(p) /\ HasInSession
    BY <2>2, PushFrame DEF AddRTMPPullSession
  <2>3. CASE DelRTMPPullSession(p)
    <3>1. \A u \in Urls : pushSession'[u] \in {pushSession[u], None}
      BY <2>3 DEF DelRTMPPullSession, DelIn
    <3>2. QED
      BY <2>3, <3>1, PushFrame DEF DelRTMPPullSession
  <2>4. CASE PullStarted(p) \/ PullFails(p) \/ LinkEnds(p) \/ PullDone(p) \/ FeedPull(p)
    BY <2>4, PushFrame DEF PullStarted, PullFails, LinkEnds, PullDone, FeedPull
  <2>5. QED
    BY <1>6, <2>1, <2>2, <2>3, <2>4 DEF PullNext
<1>7. ASSUME NEW g \in Pushers, PushNext(g) PROVE PushInv'
  <2>1. CASE PushReturns(g)
    BY <2>1 DEF PushReturns, PushInv, TypeOK
  <2>2. CASE AddRTMPPushSession(g)
    <3>1. pushUrl[g] \in Urls
      BY <2>2 DEF AddRTMPPushSession, PushInv, TypeOK
    <3>2. QED
      BY <2>2, <3>1 DEF AddRTMPPushSession, PushInv, TypeOK
  <2>3. CASE PushDone(g)
    BY <2>3 DEF PushDone, PushInv, TypeOK
  <2>4. CASE DelRTMPPushSession(g)
    <3>1. /\ pushUrl[g] \in Urls
          /\ pushPc' = [pushPc EXCEPT ![g] = "free"]
          /\ pushUrl' = [pushUrl EXCEPT ![g] = None]
          /\ life' = life
      BY <2>4 DEF DelRTMPPushSession, PushInv, TypeOK
    <3>2. CASE life = "live"
      <4>1. /\ pushSession' = [pushSession EXCEPT ![pushUrl[g]] = None]
            /\ isPushing' = [isPushing EXCEPT ![pushUrl[g]] = FALSE]
        BY <2>4, <3>2 DEF DelRTMPPushSession
      <4>2. ASSUME NEW u \in Urls
            PROVE  isPushing'[u] <=> \E h \in Pushers : pushUrl'[h] = u
        BY <3>1, <3>2, <4>1, KindsDisjoint DEF PushInv, TypeOK, KindsDisjoint
      <4>3. QED
        BY <3>1, <3>2, <4>1, <4>2 DEF PushInv, TypeOK
    <3>3. CASE life # "live"
      BY <3>1, <3>3 DEF PushInv, TypeOK
    <3>4. QED
      BY <3>2, <3>3
  <2>5. QED
    BY <1>7, <2>1, <2>2, <2>3, <2>4 DEF PushNext
<1>8. QED
  BY <1>1, <1>2, <1>3, <1>4, <1>5, <1>6, <1>7 DEF Next

LEMMA InitPushInv == Init => PushInv
<1>1. ASSUME Init, NEW g \in Pushers PROVE pushUrl[g] = None /\ pushPc[g] = "free"
  BY <1>1 DEF Init
<1>2. QED
  BY <1>1, KindsDisjoint DEF Init, PushInv, KindsDisjoint

\* While the group lives, every relay-push goroutine owns its target's proxy.
THEOREM PushGoroutineOwnsTarget == Spec => []PushOwned
<1>1. PushInv => PushOwned
  BY DEF PushInv, PushOwned
<1>2. QED
  BY InitPushInv, <1>1, PushInvStep, TypeCorrect, PTL DEF Spec

----------------------------------------------------------------------------
(* The tables hold live sessions only.                                     *)

\* NoGhostSession but for the push sessions, which PushInv covers.
LiveEntries ==
  /\ rtmpPub # None => conn[rtmpPub] = "accepted"
  /\ rtspPub # None => conn[rtspPub] = "accepted"
  /\ \A s \in outs : conn[s] = "up"
  /\ pullSession # None => pullPc[pullSession] \in {"waiting", "exiting"}

\* A step that only removes entries, and changes no goroutine's state.
LEMMA LiveEntriesFrame ==
  ASSUME LiveEntries, OnlyRemoves, outs' \subseteq outs, UNCHANGED <<conn, pullPc>>
  PROVE  LiveEntries'
BY DEF LiveEntries, OnlyRemoves

\* pullIfNeeded only ever uses a goroutine that is free.
LEMMA PullIfNeededFree ==
  ASSUME TypeOK, LiveEntries, NEW enable, NEW subs, PullIfNeeded(enable, subs),
         pullSession # None
  PROVE  pullPc'[pullSession] = pullPc[pullSession]
BY DEF TypeOK, LiveEntries, PullIfNeeded, FreePulls

LEMMA LiveEntriesStep == TypeOK /\ LiveEntries /\ [Next]_vars => LiveEntries'
<1> SUFFICES ASSUME TypeOK, LiveEntries, [Next]_vars PROVE LiveEntries'
  OBVIOUS
<1> USE DEF groupVars, inputVars, connVars, pullVars, pushVars
<1>0. /\ conn \in [ServerSessions ->
                {"idle", "accepted", "refused", "described", "up"}]
      /\ pullPc \in [Pulls -> {"free", "pulling", "ready", "waiting", "exiting"}]
      /\ Pubs \subseteq ServerSessions /\ Subs \subseteq ServerSessions
      /\ Pubs \cap Subs = {}
      /\ rtmpPub \in Pubs \cup {None} /\ rtspPub \in Pubs \cup {None}
      /\ outs \subseteq Subs /\ pullSession \in Pulls \cup {None}
      /\ None \notin ServerSessions \cup Pulls
  BY KindsDisjoint DEF KindsDisjoint, TypeOK, ServerSessions, Pubs
<1>1. CASE UNCHANGED vars
  BY <1>1, LiveEntriesFrame DEF vars, OnlyRemoves
<1>2. ASSUME NEW s \in Pubs, PubNext(s) PROVE LiveEntries'
  <2>1. CASE conn[s] = "idle" /\ RefusePub(s)
    BY <1>0, <2>1 DEF RefusePub, LiveEntries
  <2>2. CASE AcceptPub(s) /\ rtmpPub' = s /\ UNCHANGED rtspPub
    BY <1>0, <2>2 DEF AcceptPub, HasInSession, HasPub, LiveEntries
  <2>3. CASE AcceptPub(s) /\ rtspPub' = s /\ UNCHANGED rtmpPub
    BY <1>0, <2>3 DEF AcceptPub, HasInSession, HasPub, LiveEntries
  <2>4. CASE OnDelPubSession(s)
    <3>1. /\ conn' = [conn EXCEPT ![s] = "idle"]
          /\ UNCHANGED <<outs, pullSession, pullPc>>
      BY <2>4 DEF OnDelPubSession, PubGone
    <3>2. /\ rtmpPub' \in {rtmpPub, None} /\ rtmpPub' # s
          /\ rtspPub' \in {rtspPub, None} /\ rtspPub' # s
      BY <1>0, <2>4 DEF OnDelPubSession, DelPub
    <3>3. QED
      BY <1>0, <3>1, <3>2 DEF LiveEntries
  <2>5. CASE FeedPub(s)
    BY <2>5, LiveEntriesFrame DEF FeedPub, OnlyRemoves
  <2>6. QED
    BY <1>2, <2>1, <2>2, <2>3, <2>4, <2>5
       DEF PubNext, OnNewRTMPPubSession, OnNewRTSPPubSession
<1>3. ASSUME NEW s \in Subs, SubNext(s) PROVE LiveEntries'
  <2>1. CASE OnNewSubSession(s)
    <3>1. /\ conn' = [conn EXCEPT ![s] = "up"] /\ outs' = outs \cup {s}
          /\ UNCHANGED <<rtmpPub, rtspPub, pullSession>>
          /\ PullIfNeeded(pullEnable, outs')
      BY <2>1 DEF OnNewSubSession
    <3>2. pullSession # None => pullPc'[pullSession] = pullPc[pullSession]
      BY <3>1, PullIfNeededFree
    <3>3. QED
      BY <1>0, <3>1, <3>2 DEF LiveEntries
  <2>2. CASE OnRTSPDescribe(s)
    BY <1>0, <2>2 DEF OnRTSPDescribe, LiveEntries
  <2>3. CASE OnRTSPPlay(s)
    BY <1>0, <2>3 DEF OnRTSPPlay, LiveEntries
  <2>4. CASE OnDelSubSession(s)
    BY <1>0, <2>4 DEF OnDelSubSession, LiveEntries
  <2>5. QED
    BY <1>3, <2>1, <2>2, <2>3, <2>4 DEF SubNext
<1>4. ASSUME NEW s \in ServerSessions \cup Pulls, Stall(s) PROVE LiveEntries'
  BY <1>4, LiveEntriesFrame DEF Stall, OnlyRemoves
<1>5. CASE ManagerNext
  <2>1. ASSUME NEW dropped, NEW kicked, TickBody(dropped, kicked) PROVE LiveEntries'
    <3>1. /\ UNCHANGED <<conn, rtmpPub>> /\ outs' \subseteq outs
          /\ rtspPub' \in {rtspPub, None}
      BY <2>1 DEF TickBody
    <3>2. CASE pullSession \in Overdue
      <4>1. pullSession' = None /\ pullPc' = pullPc
        BY <2>1, <3>2 DEF TickBody
      <4>2. QED
        BY <3>1, <4>1 DEF LiveEntries
    <3>3. CASE pullSession \notin Overdue
      <4>1. PullIfNeeded(pullEnable, outs) /\ pullSession' = pullSession
        BY <2>1, <3>3 DEF TickBody
      <4>2. pullSession # None => pullPc'[pullSession] = pullPc[pullSession]
        BY <4>1, PullIfNeededFree
      <4>3. QED
        BY <3>1, <4>1, <4>2 DEF LiveEntries
    <3>4. QED
      BY <3>2, <3>3
  <2>2. CASE Tick \/ TickHangs
    BY <2>1, <2>2 DEF Tick, TickHangs
  <2>3. CASE Erase
    BY <2>3, LiveEntriesFrame DEF Erase, OnlyRemoves
  <2>4. CASE Shutdown
    BY <2>4, LiveEntriesFrame DEF Shutdown, OnlyRemoves
  <2>5. CASE OnCtrlStartPull
    <3>1. PullIfNeeded(TRUE, outs) /\ UNCHANGED <<conn, outs, inputVars>>
      BY <2>5 DEF OnCtrlStartPull
    <3>2. pullSession # None => pullPc'[pullSession] = pullPc[pullSession]
      BY <3>1, PullIfNeededFree
    <3>3. QED
      BY <3>1, <3>2 DEF LiveEntries
  <2>6. ASSUME NEW s \in ServerSessions, KickOutSession(s) PROVE LiveEntries'
    BY <2>6, LiveEntriesFrame DEF KickOutSession, OnlyRemoves
  <2>7. QED
    BY <1>5, <2>2, <2>3, <2>4, <2>5, <2>6 DEF ManagerNext
<1>6. ASSUME NEW p \in Pulls, PullNext(p) PROVE LiveEntries'
  <2>1. UNCHANGED <<conn, rtmpPub, rtspPub, outs>>
    BY <1>6 DEF PullNext, PullStarted, PullFails, LinkEnds, AddRTMPPullSession,
                PullDone, DelRTMPPullSession, FeedPull
  <2>2. pullSession' # None => pullPc'[pullSession'] \in {"waiting", "exiting"}
    <3>1. CASE PullStarted(p) \/ PullFails(p)
      BY <1>0, <3>1 DEF PullStarted, PullFails, LiveEntries
    <3>2. CASE LinkEnds(p) \/ FeedPull(p)
      BY <3>2 DEF LinkEnds, FeedPull, LiveEntries
    <3>3. CASE AddRTMPPullSession(p)
      BY <1>0, <3>3 DEF AddRTMPPullSession, LiveEntries
    <3>4. CASE PullDone(p) \/ DelRTMPPullSession(p)
      BY <1>0, <3>4 DEF PullDone, DelRTMPPullSession, LiveEntries
    <3>5. QED
      BY <1>6, <3>1, <3>2, <3>3, <3>4 DEF PullNext
  <2>3. QED
    BY <2>1, <2>2 DEF LiveEntries
<1>7. ASSUME NEW g \in Pushers, PushNext(g) PROVE LiveEntries'
  <2>1. UNCHANGED <<conn, outs, inputVars, pullPc>>
    BY <1>7 DEF PushNext, PushReturns, AddRTMPPushSession, PushDone, DelRTMPPushSession
  <2>2. QED
    BY <2>1, LiveEntriesFrame DEF OnlyRemoves
<1>8. QED
  BY <1>1, <1>2, <1>3, <1>4, <1>5, <1>6, <1>7 DEF Next

\* No table of the group ever refers to a session whose goroutine has finished.
THEOREM NoGhosts == Spec => []NoGhostSession
<1>1. Init => LiveEntries
  BY DEF Init, LiveEntries
<1>2. LiveEntries /\ PushInv => NoGhostSession
  BY DEF LiveEntries, PushInv, NoGhostSession
<1>3. QED
  BY <1>1, <1>2, LiveEntriesStep, InitPushInv, PushInvStep, TypeCorrect, PTL DEF Spec

----------------------------------------------------------------------------
(* The GOP caches hold no other RTMP publisher's messages.                 *)

\* While the group lives, an RTMP connection whose publishing was accepted is
\* the group's publisher: what it still feeds the caches is the input's.
RtmpKnown ==
  life = "live" => \A s \in RtmpPubs : conn[s] = "accepted" => rtmpPub = s

CacheInv == RtmpKnown /\ CacheOfInput

\* What does not touch connections, publisher and caches, nor revives the
\* group, keeps it.
LEMMA CacheFrame ==
  ASSUME CacheInv, UNCHANGED <<conn, rtmpPub>>, life' = "live" => life = "live",
         gopCache' \subseteq gopCache
  PROVE  CacheInv'
BY DEF CacheInv, RtmpKnown, CacheOfInput

LEMMA CacheStep == TypeOK /\ CacheInv /\ [Next]_vars => CacheInv'
<1> SUFFICES ASSUME TypeOK, CacheInv, [Next]_vars PROVE CacheInv'
  OBVIOUS
<1> USE DEF groupVars, inputVars, connVars, pullVars, pushVars
<1>0. /\ conn \in [ServerSessions ->
                {"idle", "accepted", "refused", "described", "up"}]
      /\ RtmpPubs \subseteq ServerSessions /\ Pubs \subseteq ServerSessions
      /\ RtspPubs \cap RtmpPubs = {} /\ Subs \cap RtmpPubs = {} /\ Pulls \cap RtmpPubs = {}
      /\ Pubs = RtmpPubs \cup RtspPubs /\ Subs \subseteq ServerSessions
      /\ None \notin RtmpPubs
  BY KindsDisjoint DEF KindsDisjoint, TypeOK, ServerSessions, Pubs
<1>1. CASE UNCHANGED vars
  BY <1>1, CacheFrame DEF vars
<1>2. ASSUME NEW s \in Pubs, PubNext(s) PROVE CacheInv'
  <2>1. CASE RefusePub(s)
    BY <1>0, <2>1 DEF RefusePub, CacheInv, RtmpKnown, CacheOfInput
  <2>2. CASE /\ s \in RtmpPubs /\ AcceptPub(s)
             /\ rtmpPub' = s /\ UNCHANGED <<rtspPub, gopCache>>
    \* nobody was the input, so no other accepted connection and no cached message
    <3>1. /\ conn' = [conn EXCEPT ![s] = "accepted"] /\ life' = life
          /\ rtmpPub = None
      BY <2>2 DEF AcceptPub, HasInSession, HasPub
    <3>2. QED
      BY <1>0, <2>2, <3>1 DEF CacheInv, RtmpKnown, CacheOfInput
  <2>3. CASE /\ s \in RtspPubs /\ AcceptPub(s)
             /\ gopCache' \in {gopCache, gopCache \cup {s}} /\ UNCHANGED rtmpPub
    <3>1. /\ conn' = [conn EXCEPT ![s] = "accepted"] /\ life' = life
          /\ s \notin RtmpPubs
      BY <1>0, <2>3 DEF AcceptPub
    <3>2. QED
      BY <1>0, <2>3, <3>1 DEF CacheInv, RtmpKnown, CacheOfInput
  <2>4. CASE OnDelPubSession(s)
    <3>1. conn' = [conn EXCEPT ![s] = "idle"] /\ life' = life
      BY <2>4 DEF OnDelPubSession, PubGone
    <3>2. \/ rtmpPub' \in {rtmpPub, None} /\ gopCache' = {} /\ rtmpPub \in {s, rtmpPub'}
          \/ UNCHANGED <<rtmpPub, gopCache>>
      BY <2>4 DEF OnDelPubSession, DelPub, DelIn
    <3>3. QED
      BY <1>0, <3>1, <3>2 DEF CacheInv, RtmpKnown, CacheOfInput
  <2>5. CASE FeedPub(s)
    BY <1>0, <2>5 DEF FeedPub, CacheInv, RtmpKnown, CacheOfInput
  <2>6. QED
    BY <1>2, <2>1, <2>2, <2>3, <2>4, <2>5
       DEF PubNext, OnNewRTMPPubSession, OnNewRTSPPubSession
<1>3. ASSUME NEW s \in Subs, SubNext(s) PROVE CacheInv'
  <2>1. /\ UNCHANGED <<life, rtmpPub, gopCache>>
        /\ \E to \in {"idle", "described", "up"} : conn' = [conn EXCEPT ![s] = to]
    BY <1>3 DEF SubNext, OnNewSubSession, OnRTSPDescribe, OnRTSPPlay, OnDelSubSession
  <2>2. QED
    BY <1>0, <2>1 DEF CacheInv, RtmpKnown, CacheOfInput
<1>4. ASSUME NEW s \in ServerSessions \cup Pulls, Stall(s) PROVE CacheInv'
  BY <1>4, CacheFrame DEF Stall
<1>5. CASE ManagerNext
  <2>1. CASE Tick \/ TickHangs
    <3>1. /\ UNCHANGED <<life, conn, rtmpPub>>
          /\ gopCache' \subseteq gopCache
      BY <2>1 DEF Tick, TickHangs, TickBody, DelIn
    <3>2. QED
      BY <3>1, CacheFrame
  <2>2. CASE Erase \/ Shutdown
    BY <2>2 DEF Erase, Shutdown, CacheInv, RtmpKnown, CacheOfInput
  <2>3. CASE OnCtrlStartPull
    BY <2>3, CacheFrame DEF OnCtrlStartPull
  <2>4. ASSUME NEW s \in ServerSessions, KickOutSession(s) PROVE CacheInv'
    BY <2>4, CacheFrame DEF KickOutSession
  <2>5. QED
    BY <1>5, <2>1, <2>2, <2>3, <2>4 DEF ManagerNext
<1>6. ASSUME NEW p \in Pulls, PullNext(p) PROVE CacheInv'
  <2>1. CASE FeedPull(p)
    BY <1>0, <2>1 DEF FeedPull, CacheInv, RtmpKnown, CacheOfInput
  <2>2. CASE DelRTMPPullSession(p)
    BY <2>2, CacheFrame DEF DelRTMPPullSession, DelIn
  <2>3. CASE PullStarted(p) \/ PullFails(p) \/ LinkEnds(p) \/ AddRTMPPullSession(p)
               \/ PullDone(p)
    <3>1. UNCHANGED <<life, conn, rtmpPub, gopCache>>
      BY <2>3 DEF PullStarted, PullFails, LinkEnds, AddRTMPPullSession, PullDone
    <3>2. QED
      BY <3>1, CacheFrame
  <2>4. QED
    BY <1>6, <2>1, <2>2, <2>3 DEF PullNext
<1>7. ASSUME NEW g \in Pushers, PushNext(g) PROVE CacheInv'
  <2>1. UNCHANGED <<life, conn, rtmpPub, gopCache>>
    BY <1>7 DEF PushNext, PushReturns, AddRTMPPushSession, PushDone, DelRTMPPushSession
  <2>2. QED
    BY <2>1, CacheFrame
<1>8. QED
  BY <1>1, <1>2, <1>3, <1>4, <1>5, <1>6, <1>7 DEF Next

\* Of all RTMP publishers, only the current one's messages are in the GOP
\* caches: whoever is refused, timed out or deleted leaves none behind.
THEOREM CacheOfCurrentInput == Spec => []CacheOfInput
<1>1. Init => CacheInv
  BY DEF Init, CacheInv, RtmpKnown, CacheOfInput, ServerSessions, Pubs
<1>2. CacheInv => CacheOfInput
  BY DEF CacheInv
<1>3. QED
  BY <1>1, <1>2, CacheStep, TypeCorrect, PTL DEF Spec
=============================================================================
